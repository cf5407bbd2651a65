----------------------------- MODULE SalesProofs -----------------------------
(***************************************************************************)
(* Proofs about Sales: a midnight in Seoul belongs to one day, the day it  *)
(* begins, so that the ranges of the queries are the days they are about;  *)
(* an answer is made of five aggregates of one snapshot; and the sums of   *)
(* the rows of each key, day or menu, add up to the sum of all rows.       *)
(***************************************************************************)
EXTENDS Sales, FiniteSetTheorems, WellFoundedInduction, TLAPS

----------------------------------------------------------------------------
(* Days.                                                                   *)

(* The days up to the one of an instant have begun by then, the later ones *)
(* have not.                                                               *)
LEMMA DayHasBegun ==
    ASSUME NEW n \in Nat \ {0}, NEW a \in Int, NEW d \in Int
    PROVE  d * n <= a <=> d <= a \div n
  <1> DEFINE k == a \div n
  <1>1. k \in Int /\ k * n <= a /\ a < (k + 1) * n
    OBVIOUS
  <1> HIDE DEF k
  <1>2. CASE d <= k
    <2>1. d * n <= k * n
      BY <1>1, <1>2
    <2> QED
      BY <1>1, <1>2, <2>1 DEF k
  <1>3. CASE k < d
    <2>1. (k + 1) * n <= d * n
      BY <1>1, <1>3
    <2> QED
      BY <1>1, <1>3, <2>1 DEF k
  <1> QED
    BY <1>1, <1>2, <1>3

(* The ranges of the queries are days in Seoul.                            *)
LEMMA RangesAreDays ==
    ASSUME NEW t \in Int
    PROVE  /\ \A d \in Int : InRange(t, KstRange(d)) <=> KstDate(t) = d
           /\ InRange(t, FestivalPeriod) <=> KstDate(t) \in FirstDay .. LastDay
  <1> DEFINE a == t + Offset
             k == a \div DayLength
  <1>1. /\ DayLength \in Nat \ {0} /\ Offset \in Int
        /\ FirstDay \in Int /\ LastDay \in Int /\ a \in Int /\ k \in Int
    BY SalesAssumption
  <1>2. \A d \in Int : d * DayLength \in Int /\ (d * DayLength - Offset <= t <=> d <= k)
    BY <1>1, DayHasBegun
  <1>3. \A d \in Int : t < (d + 1) * DayLength - Offset <=> k < d + 1
    <2>1. ASSUME NEW d \in Int
          PROVE  t < (d + 1) * DayLength - Offset <=> k < d + 1
      <3>1. d + 1 \in Int
        BY <2>1
      <3>2. (d + 1) * DayLength \in Int /\ ((d + 1) * DayLength - Offset <= t <=> d + 1 <= k)
        BY <1>2, <3>1
      <3> HIDE DEF k
      <3> QED
        BY <1>1, <3>1, <3>2
    <2> QED
      BY <2>1
  <1>4. KstDate(t) = k
    BY DEF KstDate
  <1> HIDE DEF k
  <1> QED
    BY <1>1, <1>2, <1>3, <1>4 DEF InRange, KstRange, FestivalPeriod

Payments == [Orders -> Nat \cup {Absent}]

(* What the queries find is what was paid on the days they are about.      *)
LEMMA PaidOnTheDays ==
    ASSUME NEW paid \in Payments
    PROVE  /\ \A d \in Int : PaidIn(paid, KstRange(d)) =
                  {o \in Orders : paid[o] # Absent /\ KstDate(paid[o]) \in {d}}
           /\ PaidIn(paid, FestivalPeriod) =
                  {o \in Orders : paid[o] # Absent /\ KstDate(paid[o]) \in FirstDay .. LastDay}
  <1>1. \A o \in Orders : paid[o] # Absent => paid[o] \in Int
    BY DEF Payments
  <1> QED
    BY <1>1, RangesAreDays DEF PaidIn

LEMMA DayOfInstant ==
    ASSUME NEW t \in Int
    PROVE  KstDate(t) \in Int /\ SqlDate(t) = KstDate(t)
  BY SalesAssumption DEF KstDate, SqlDate

(* A day of the festival has, in the breakdown, what its own query finds.  *)
LEMMA DailyIsDay ==
    ASSUME NEW paid \in Payments, NEW t \in Int
    PROVE  LET v == [daily |-> DailyBreakdown(paid, FestivalPeriod),
                     today |-> Totals(paid, KstRange(KstDate(t)))]
           IN  DaysAgree(v, KstDate(t))
  <1> DEFINE os == PaidIn(paid, FestivalPeriod)
             daily == DailyBreakdown(paid, FestivalPeriod)
             d == KstDate(t)
             ofDay == {o \in os : SqlDate(paid[o]) = d}
  <1>1. d \in Int
    BY DayOfInstant
  <1>2. \A o \in os : o \in Orders /\ paid[o] \in Int /\ SqlDate(paid[o]) = KstDate(paid[o])
    BY PaidOnTheDays, DayOfInstant DEF Payments
  <1>3. DOMAIN daily = {SqlDate(paid[o]) : o \in os}
    BY DEF DailyBreakdown
  <1>4. DOMAIN daily \subseteq FirstDay .. LastDay
    BY <1>2, <1>3, PaidOnTheDays
  <1>5. ASSUME d \in FirstDay .. LastDay
        PROVE  Totals(paid, KstRange(d)) = IF d \in DOMAIN daily THEN daily[d] ELSE Sum({})
    <2>1. PaidIn(paid, KstRange(d)) = ofDay
      BY <1>1, <1>2, <1>5, PaidOnTheDays
    <2>2. CASE d \in DOMAIN daily
      <3>1. daily[d] = Sum(Join(ofDay))
        BY <1>3, <2>2 DEF DailyBreakdown
      <3> QED
        BY <2>1, <2>2, <3>1 DEF Totals
    <2>3. CASE d \notin DOMAIN daily
      <3>1. ofDay = {}
        BY <1>3, <2>3
      <3>2. Join(ofDay) = {}
        BY <3>1 DEF Join
      <3> QED
        BY <2>1, <2>3, <3>2 DEF Totals
    <2> QED
      BY <2>2, <2>3
  <1> HIDE DEF d, daily
  <1> QED
    BY <1>4, <1>5 DEF DaysAgree, d, daily

----------------------------------------------------------------------------
(* Sums.  The induction theorems of the library take an operator; those    *)
(* here take a set, and follow from some set with a property being the     *)
(* smallest.                                                               *)

\* The smallest of some subsets of a finite set.
LEMMA SmallestSet ==
    ASSUME NEW S, IsFiniteSet(S), NEW F, \A T \in F : T \subseteq S, F # {}
    PROVE  \E T \in F : \A U \in F : U \subseteq T => U = T
  <1>1. IsWellFoundedOn(StrictSubsetOrdering(S), SUBSET S)
    BY FS_StrictSubsetOrderingWellFounded, FS_FiniteSubsetsOfFinite
  <1>2. \E T \in F : \A U \in F : <<U, T>> \notin StrictSubsetOrdering(S)
    BY <1>1, WFMin
  <1> QED
    BY <1>2 DEF StrictSubsetOrdering

\* The least of some numbers up to N.
LEMMA LeastNumber ==
    ASSUME NEW N \in Nat, NEW B \in SUBSET (0 .. N), B # {}
    PROVE  \E b \in B : \A c \in B : b <= c
  <1>1. PICK F : F = {0 .. n : n \in B}
    OBVIOUS
  <1>2. \A T \in F : T \subseteq 0 .. N
    BY <1>1
  <1>3. PICK T \in F : \A U \in F : U \subseteq T => U = T
    <2>1. IsFiniteSet(0 .. N)
      BY FS_Interval
    <2>2. F # {}
      BY <1>1
    <2> QED
      BY <1>2, <2>1, <2>2, SmallestSet
  <1>4. PICK b \in B : T = 0 .. b
    BY <1>1, <1>3
  <1>5. ASSUME NEW c \in B, c < b
        PROVE  FALSE
    <2>1. 0 .. c \subseteq 0 .. b /\ b \in 0 .. b /\ b \notin 0 .. c /\ 0 .. c \in F
      BY <1>1, <1>5
    <2> QED
      BY <1>3, <1>4, <2>1
  <1> QED
    BY <1>5

LEMMA UpTo ==
    ASSUME NEW N \in Nat, NEW T \in SUBSET (0 .. N), 0 \in T,
           \A n \in 1 .. N : n - 1 \in T => n \in T
    PROVE  T = 0 .. N
  <1> SUFFICES ASSUME (0 .. N) \ T # {}
               PROVE  FALSE
    OBVIOUS
  <1>1. PICK n \in (0 .. N) \ T : \A m \in (0 .. N) \ T : n <= m
    BY LeastNumber
  <1> QED
    BY <1>1

\* What holds of the empty set, and of a set if it holds of the set without
\* one of its elements.
LEMMA SetInduction ==
    ASSUME NEW S, IsFiniteSet(S), NEW F, {} \in F,
           \A T \in SUBSET S : (T # {} /\ \A U \in SUBSET T : U # T => U \in F) => T \in F
    PROVE  \A T \in SUBSET S : T \in F
  <1> SUFFICES ASSUME NEW T \in SUBSET S, T \notin F
               PROVE  FALSE
    OBVIOUS
  <1>1. PICK B : B = (SUBSET S) \ F
    OBVIOUS
  <1>2. B # {} /\ \A U \in B : U \subseteq S
    BY <1>1
  <1>3. PICK U \in B : \A V \in B : V \subseteq U => V = U
    BY <1>2, SmallestSet
  <1>4. U # {} /\ U \in SUBSET S /\ \A V \in SUBSET U : V # U => V \in F
    BY <1>1, <1>3
  <1> QED
    BY <1>1, <1>3, <1>4

\* The element that a sum counts first.
First(s) == CHOOSE x \in s : TRUE

LEMMA FirstIn == \A s : s # {} => First(s) \in s
  BY DEF First

\* g has the sum of f over each subset of S.
Sums(g, f, S) ==
    g = [s \in SUBSET S |-> IF s = {} THEN 0 ELSE f[First(s)] + g[s \ {First(s)}]]

LEMMA SumsDef ==
    ASSUME NEW f, NEW S, NEW g, Sums(g, f, S)
    PROVE  /\ g[{}] = 0
           /\ \A s \in SUBSET S : s # {} => g[s] = f[First(s)] + g[s \ {First(s)}]
  BY DEF Sums

\* g is right about the sets of up to n elements.
SumsUpTo(g, f, S, n) ==
    /\ DOMAIN g = SUBSET S
    /\ \A s \in SUBSET S : Cardinality(s) <= n =>
         g[s] = IF s = {} THEN 0 ELSE f[First(s)] + g[s \ {First(s)}]

LEMMA SumsExist ==
    ASSUME NEW f, NEW S, IsFiniteSet(S)
    PROVE  \E g : Sums(g, f, S)
  <1>1. \A s \in SUBSET S : IsFiniteSet(s) /\ Cardinality(s) \in Nat /\ Cardinality(s) <= Cardinality(S)
    BY FS_Subset, FS_CardinalityType
  <1>2. \A s \in SUBSET S : s # {} =>
            s \ {First(s)} \in SUBSET S /\ Cardinality(s \ {First(s)}) = Cardinality(s) - 1
    BY <1>1, FirstIn, FS_RemoveElement
  <1>3. \A s \in SUBSET S : Cardinality(s) = 0 <=> s = {}
    BY <1>1, FS_EmptySet
  <1> DEFINE N == Cardinality(S)
             P == {n \in 0 .. N : \E g : SumsUpTo(g, f, S, n)}
  <1>n. N \in Nat
    BY <1>1
  <1>4. 0 \in P
    <2>1. SumsUpTo([s \in SUBSET S |-> 0], f, S, 0)
      BY <1>1, <1>3 DEF SumsUpTo
    <2> QED
      BY <1>n, <2>1
  <1>5. ASSUME NEW k \in 1 .. N, k - 1 \in P
        PROVE  k \in P
    <2> DEFINE n == k - 1
    <2>0. n \in Nat /\ n + 1 = k
      OBVIOUS
    <2>1. PICK g : SumsUpTo(g, f, S, n)
      BY <1>5
    <2> HIDE DEF n
    <2> DEFINE h == [s \in SUBSET S |->
                        IF Cardinality(s) <= n THEN g[s] ELSE f[First(s)] + g[s \ {First(s)}]]
    <2>2. ASSUME NEW s \in SUBSET S, Cardinality(s) <= n + 1
          PROVE  h[s] = IF s = {} THEN 0 ELSE f[First(s)] + h[s \ {First(s)}]
      <3>1. CASE s = {}
        BY <1>1, <1>3, <2>0, <2>1, <3>1 DEF SumsUpTo
      <3>2. CASE s # {}
        <4>1. h[s \ {First(s)}] = g[s \ {First(s)}]
          BY <1>1, <1>2, <2>0, <2>2, <3>2
        <4>2. h[s] = f[First(s)] + g[s \ {First(s)}]
          BY <2>1, <3>2 DEF SumsUpTo
        <4> QED
          BY <3>2, <4>1, <4>2
      <3> QED
        BY <3>1, <3>2
    <2>3. SumsUpTo(h, f, S, n + 1)
      BY <2>2 DEF SumsUpTo
    <2> QED
      BY <2>0, <2>3
  <1>6. P = 0 .. N
    BY <1>4, <1>5, <1>n, UpTo
  <1>7. PICK g : SumsUpTo(g, f, S, Cardinality(S))
    BY <1>6, <1>n
  <1>8. Sums([s \in SUBSET S |-> g[s]], f, S)
    BY <1>1, <1>2, <1>7 DEF SumsUpTo, Sums
  <1> QED
    BY <1>8

LEMMA SumFunctionDef ==
    ASSUME NEW f, IsFiniteSet(DOMAIN f)
    PROVE  \E g : Sums(g, f, DOMAIN f) /\ SumFunction(f) = g[DOMAIN f]
  <1>1. \E g : Sums(g, f, DOMAIN f)
    BY SumsExist
  <1>2. PICK g : /\ Sums(g, f, DOMAIN f)
                 /\ g = CHOOSE iter : Sums(iter, f, DOMAIN f)
    BY <1>1
  <1>3. SumFunction(f) = (CHOOSE iter : Sums(iter, f, DOMAIN f))[DOMAIN f]
    BY DEF SumFunction, SumFunctionOnSet, FoldFunctionOnSet, MapThenFoldSet, Sums, First
  <1> QED
    BY <1>2, <1>3

LEMMA SumsAgree ==
    ASSUME NEW f, NEW S, NEW g, Sums(g, f, S), NEW e, NEW T, NEW h, Sums(h, e, T),
           IsFiniteSet(S), T \subseteq S, \A x \in T : e[x] = f[x]
    PROVE  \A U \in SUBSET T : h[U] = g[U]
  <1> DEFINE F == {U \in SUBSET T : h[U] = g[U]}
  <1>1. {} \in F
    BY SumsDef
  <1>2. ASSUME NEW U \in SUBSET T, U # {}, \A V \in SUBSET U : V # U => V \in F
        PROVE  U \in F
    <2>1. First(U) \in U /\ U \ {First(U)} \in SUBSET U /\ U \ {First(U)} # U
      BY <1>2, FirstIn
    <2>2. h[U \ {First(U)}] = g[U \ {First(U)}]
      BY <1>2, <2>1
    <2>3. h[U] = e[First(U)] + h[U \ {First(U)}] /\ g[U] = f[First(U)] + g[U \ {First(U)}]
      BY <1>2, SumsDef
    <2> QED
      BY <2>1, <2>2, <2>3
  <1>3. IsFiniteSet(T)
    BY FS_Subset
  <1> HIDE DEF F
  <1>4. \A U \in SUBSET T : U \in F
    BY <1>1, <1>2, <1>3, SetInduction
  <1> QED
    BY <1>4 DEF F

LEMMA SumsNat ==
    ASSUME NEW f, NEW S, NEW g, Sums(g, f, S), IsFiniteSet(S), \A x \in S : f[x] \in Nat
    PROVE  \A U \in SUBSET S : g[U] \in Nat
  <1> DEFINE F == {U \in SUBSET S : g[U] \in Nat}
  <1>0. \A U \in SUBSET S : U # {} => g[U] = f[First(U)] + g[U \ {First(U)}]
    BY SumsDef
  <1>1. {} \in F
    BY SumsDef
  <1>2. ASSUME NEW U \in SUBSET S, U # {}, \A V \in SUBSET U : V # U => V \in F
        PROVE  U \in F
    <2>1. First(U) \in U /\ U \ {First(U)} \in SUBSET U /\ U \ {First(U)} # U
      BY <1>2, FirstIn
    <2>2. g[U \ {First(U)}] \in Nat /\ f[First(U)] \in Nat
      BY <1>2, <2>1
    <2>3. g[U] = f[First(U)] + g[U \ {First(U)}]
      BY <1>0, <1>2
    <2> QED
      BY <2>2, <2>3
  <1> HIDE DEF F
  <1>3. \A U \in SUBSET S : U \in F
    BY <1>1, <1>2, SetInduction
  <1> QED
    BY <1>3 DEF F

\* A sum may count any of its elements first.
LEMMA SumsRemove ==
    ASSUME NEW f, NEW S, NEW g, Sums(g, f, S), IsFiniteSet(S), \A x \in S : f[x] \in Nat,
           NEW A \in SUBSET S, NEW a \in A
    PROVE  g[A] = f[a] + g[A \ {a}]
  <1> DEFINE F == {U \in SUBSET S : \A x \in U : g[U] = f[x] + g[U \ {x}]}
  <1>0. \A U \in SUBSET S : U # {} => g[U] = f[First(U)] + g[U \ {First(U)}]
    BY SumsDef
  <1>1. {} \in F
    OBVIOUS
  <1>2. ASSUME NEW U \in SUBSET S, U # {}, \A V \in SUBSET U : V # U => V \in F
        PROVE  U \in F
    <2> SUFFICES ASSUME NEW x \in U
                 PROVE  g[U] = f[x] + g[U \ {x}]
      OBVIOUS
    <2> DEFINE c == First(U)
    <2>1. c \in U
      BY <1>2, FirstIn
    <2>2. g[U] = f[c] + g[U \ {c}]
      BY <1>0, <1>2
    <2> HIDE DEF c
    <2>3. CASE x # c
      <3>1. U \ {c} \in F /\ U \ {x} \in F /\ x \in U \ {c} /\ c \in U \ {x}
        BY <1>2, <2>1, <2>3
      <3>2. g[U \ {c}] = f[x] + g[(U \ {c}) \ {x}] /\ g[U \ {x}] = f[c] + g[(U \ {x}) \ {c}]
        BY <3>1
      <3>3. (U \ {c}) \ {x} = (U \ {x}) \ {c} /\ (U \ {c}) \ {x} \in SUBSET S
        OBVIOUS
      <3>4. PICK rest \in Nat : rest = g[(U \ {c}) \ {x}]
        BY <3>3, SumsNat
      <3>5. f[x] \in Nat /\ f[c] \in Nat
        BY <2>1
      <3>6. g[U] = f[c] + (f[x] + rest) /\ g[U \ {x}] = f[c] + rest
        BY <2>2, <3>2, <3>3, <3>4
      <3> QED
        BY <3>4, <3>5, <3>6
    <2> QED
      BY <2>2, <2>3
  <1> HIDE DEF F
  <1>3. \A U \in SUBSET S : U \in F
    BY <1>1, <1>2, SetInduction
  <1> QED
    BY <1>3 DEF F

LEMMA SumsSplit ==
    ASSUME NEW f, NEW S, NEW g, Sums(g, f, S), IsFiniteSet(S), \A x \in S : f[x] \in Nat,
           NEW A \in SUBSET S
    PROVE  \A B \in SUBSET A : g[A] = g[B] + g[A \ B]
  <1> DEFINE F == {B \in SUBSET A : g[A] = g[B] + g[A \ B]}
  <1>1. {} \in F
    <2>1. g[{}] = 0 /\ A \ {} = A /\ g[A] \in Nat
      BY SumsDef, SumsNat
    <2> QED
      BY <2>1
  <1>2. ASSUME NEW B \in SUBSET A, B # {}, \A V \in SUBSET B : V # B => V \in F
        PROVE  B \in F
    <2>1. PICK x \in B : TRUE
      BY <1>2
    <2>2. B \ {x} \in F
      BY <1>2, <2>1
    <2>3. A \ (B \ {x}) \in SUBSET S /\ x \in A \ (B \ {x}) /\ (A \ (B \ {x})) \ {x} = A \ B
      BY <2>1
    <2>4. g[A \ (B \ {x})] = f[x] + g[A \ B]
      BY <2>3, SumsRemove
    <2>5. g[B] = f[x] + g[B \ {x}]
      BY SumsRemove
    <2>6. g[A] = g[B \ {x}] + g[A \ (B \ {x})]
      BY <2>2
    <2>7. g[B \ {x}] \in Nat /\ g[A \ B] \in Nat /\ f[x] \in Nat
      BY <2>1, SumsNat
    <2>8. g[A] = g[B] + g[A \ B]
      BY <2>4, <2>5, <2>6, <2>7
    <2> QED
      BY <2>8
  <1>3. IsFiniteSet(A)
    BY FS_Subset
  <1> HIDE DEF F
  <1>4. \A B \in SUBSET A : B \in F
    BY <1>1, <1>2, <1>3, SetInduction
  <1> QED
    BY <1>4 DEF F

\* The part of f that has the key k, and its sum for every key.
PartOf(f, key, k) == [r \in {q \in DOMAIN f : key[q] = k} |-> f[r]]
SumsOfParts(f, key) ==
    [k \in {key[r] : r \in DOMAIN f} |-> SumFunction(PartOf(f, key, k))]

LEMMA SumOfParts ==
    ASSUME NEW f, IsFiniteSet(DOMAIN f), \A r \in DOMAIN f : f[r] \in Nat, NEW key
    PROVE  /\ SumFunction(f) = SumFunction(SumsOfParts(f, key))
           /\ SumFunction(f) \in Nat
  <1> DEFINE D == DOMAIN f
             Rows(L) == {r \in D : key[r] \in L}
  <1>0. PICK K : K = {key[r] : r \in D}
    OBVIOUS
  <1>p. PICK parts : parts = SumsOfParts(f, key)
    OBVIOUS
  <1>1. PICK g : Sums(g, f, D) /\ SumFunction(f) = g[D]
    BY SumFunctionDef
  <1>2. ASSUME NEW k \in K
        PROVE  SumFunction(PartOf(f, key, k)) = g[Rows({k})] /\ g[Rows({k})] \in Nat
    <2> DEFINE e == PartOf(f, key, k)
    <2>1. DOMAIN e = Rows({k}) /\ \A r \in DOMAIN e : e[r] = f[r]
      BY DEF PartOf
    <2> HIDE DEF e
    <2>2. IsFiniteSet(DOMAIN e) /\ DOMAIN e \subseteq D
      BY <2>1, FS_Subset
    <2>3. PICK h : Sums(h, e, DOMAIN e) /\ SumFunction(e) = h[DOMAIN e]
      BY <2>2, SumFunctionDef
    <2>4. \A U \in SUBSET (DOMAIN e) : h[U] = g[U]
      BY <1>1, <2>1, <2>2, <2>3, SumsAgree
    <2>5. \A U \in SUBSET D : g[U] \in Nat
      BY <1>1, SumsNat
    <2> QED
      BY <2>1, <2>2, <2>3, <2>4, <2>5 DEF e
  <1>3. DOMAIN parts = K /\ \A k \in K : parts[k] = g[Rows({k})] /\ parts[k] \in Nat
    BY <1>0, <1>2, <1>p DEF SumsOfParts
  <1>4. IsFiniteSet(K)
    <2>1. [r \in D |-> key[r]] \in Surjection(D, K)
      BY <1>0 DEF Surjection
    <2> QED
      BY <2>1, FS_Surjection
  <1>5. PICK p : Sums(p, parts, K) /\ SumFunction(parts) = p[K]
    BY <1>3, <1>4, SumFunctionDef
  <1> DEFINE F == {L \in SUBSET K : g[Rows(L)] = p[L]}
  <1>6. {} \in F
    <2>1. g[{}] = 0 /\ p[{}] = 0 /\ Rows({}) = {}
      BY <1>1, <1>5, SumsDef
    <2> QED
      BY <2>1
  <1>7. ASSUME NEW L \in SUBSET K, L # {}, \A V \in SUBSET L : V # L => V \in F
        PROVE  L \in F
    <2>1. PICK c \in L : TRUE
      BY <1>7
    <2>2. L \ {c} \in F
      BY <1>7, <2>1
    <2>3. p[L] = parts[c] + p[L \ {c}]
      <3>1. Sums(p, parts, K) /\ \A k \in K : parts[k] \in Nat
        BY <1>3, <1>5
      <3> HIDE DEF F
      <3> QED
        BY <1>4, <3>1, SumsRemove
    <2>4. /\ Rows(L) \in SUBSET D /\ Rows({c}) \in SUBSET Rows(L)
          /\ Rows(L) \ Rows({c}) = Rows(L \ {c})
      BY <2>1
    <2>5. g[Rows(L)] = g[Rows({c})] + g[Rows(L \ {c})]
      BY <1>1, <2>4, SumsSplit
    <2>6. g[Rows(L)] = p[L]
      BY <1>3, <2>2, <2>3, <2>5
    <2> QED
      BY <2>6
  <1> HIDE DEF F
  <1>8. \A L \in SUBSET K : L \in F
    BY <1>4, <1>6, <1>7, SetInduction
  <1>9. g[Rows(K)] = p[K] /\ Rows(K) = D
    BY <1>0, <1>8 DEF F
  <1>10. g[D] \in Nat
    BY <1>1, SumsNat
  <1> QED
    BY <1>1, <1>5, <1>9, <1>10, <1>p

----------------------------------------------------------------------------
(* What adds up.                                                           *)

\* The rows of order_items, joined with their orders.
AllRows == Join(Orders)

LEMMA RowsFacts ==
    /\ IsFiniteSet(AllRows)
    /\ \A os \in SUBSET Orders : Join(os) = {r \in AllRows : r.order \in os}
    /\ \A r \in AllRows : /\ r.order \in Orders
                          /\ r.item.quantity \in Nat
                          /\ r.item.unitPrice * r.item.quantity \in Nat
  <1> DEFINE RowsOf(o) == {[order |-> o, item |-> i] : i \in Items[o]}
  <1>1. ASSUME NEW o \in Orders
        PROVE  IsFiniteSet(RowsOf(o))
    <2>1. IsFiniteSet(Items[o])
      BY SalesAssumption
    <2>2. [i \in Items[o] |-> [order |-> o, item |-> i]] \in Surjection(Items[o], RowsOf(o))
      BY DEF Surjection
    <2> QED
      BY <2>1, <2>2, FS_Surjection
  <1>2. IsFiniteSet({RowsOf(o) : o \in Orders})
    <2>1. [o \in Orders |-> RowsOf(o)] \in Surjection(Orders, {RowsOf(o) : o \in Orders})
      BY DEF Surjection
    <2>2. IsFiniteSet(Orders)
      BY SalesAssumption
    <2> HIDE DEF RowsOf
    <2> QED
      BY <2>1, <2>2, FS_Surjection
  <1>3. IsFiniteSet(AllRows)
    <2>1. AllRows = UNION {RowsOf(o) : o \in Orders}
      BY DEF AllRows, Join
    <2>2. \A T \in {RowsOf(o) : o \in Orders} : IsFiniteSet(T)
      BY <1>1
    <2> HIDE DEF RowsOf
    <2> QED
      BY <1>2, <2>1, <2>2, FS_UNION
  <1>4. \A os \in SUBSET Orders : Join(os) = {r \in AllRows : r.order \in os}
    BY DEF AllRows, Join
  <1>5. ASSUME NEW r \in AllRows
        PROVE  /\ r.order \in Orders
               /\ r.item.quantity \in Nat
               /\ r.item.unitPrice * r.item.quantity \in Nat
    <2>1. PICK o \in Orders : \E i \in Items[o] : r = [order |-> o, item |-> i]
      BY DEF AllRows, Join
    <2>2. PICK i \in Items[o] : r = [order |-> o, item |-> i]
      BY <2>1
    <2>3. i \in [menu : STRING, quantity : Nat \ {0}, unitPrice : Nat]
      BY SalesAssumption
    <2>4. i.quantity \in Nat /\ i.unitPrice \in Nat
      BY <2>3
    <2>5. i.unitPrice * i.quantity \in Nat
      BY <2>4
    <2> QED
      BY <2>2, <2>4, <2>5
  <1> QED
    BY <1>3, <1>4, <1>5

(* The rows of every key add up to all of them.                            *)
LEMMA SumByKey ==
    ASSUME NEW rows \in SUBSET AllRows, NEW key
    PROVE  /\ Sum(rows) \in TotalsType
           /\ Sum(rows) = TotalOf([k \in {key[r] : r \in rows} |-> Sum({r \in rows : key[r] = k})])
  <1> DEFINE q == [r \in rows |-> r.item.quantity]
             a == [r \in rows |-> r.item.unitPrice * r.item.quantity]
             K == {key[r] : r \in rows}
             Of(k) == {r \in rows : key[r] = k}
             f == [k \in K |-> Sum(Of(k))]
  <1>1. IsFiniteSet(rows)
    BY RowsFacts, FS_Subset
  <1>2. /\ SumFunction(q) = SumFunction(SumsOfParts(q, key)) /\ SumFunction(q) \in Nat
        /\ SumFunction(a) = SumFunction(SumsOfParts(a, key)) /\ SumFunction(a) \in Nat
    <2>1. /\ DOMAIN q = rows /\ \A r \in rows : q[r] \in Nat
          /\ DOMAIN a = rows /\ \A r \in rows : a[r] \in Nat
      BY RowsFacts
    <2> HIDE DEF q, a
    <2> QED
      BY <1>1, <2>1, SumOfParts
  <1>3. Sum(rows) = [quantity |-> SumFunction(q), amount |-> SumFunction(a)]
    BY DEF Sum, Quantity, Amount
  <1>4. ASSUME NEW k \in K
        PROVE  /\ f[k].quantity = SumFunction(PartOf(q, key, k))
               /\ f[k].amount = SumFunction(PartOf(a, key, k))
    <2>1. /\ PartOf(q, key, k) = [r \in Of(k) |-> r.item.quantity]
          /\ PartOf(a, key, k) = [r \in Of(k) |-> r.item.unitPrice * r.item.quantity]
      BY DEF PartOf
    <2>2. f[k] = [quantity |-> Quantity(Of(k)), amount |-> Amount(Of(k))]
      BY DEF Sum
    <2> QED
      BY <2>1, <2>2 DEF Quantity, Amount
  <1>5. /\ SumsOfParts(q, key) = [k \in DOMAIN f |-> f[k].quantity]
        /\ SumsOfParts(a, key) = [k \in DOMAIN f |-> f[k].amount]
    <2>1. DOMAIN f = K /\ DOMAIN q = rows /\ DOMAIN a = rows
      OBVIOUS
    <2> HIDE DEF f, q, a
    <2> QED
      BY <1>4, <2>1 DEF SumsOfParts
  <1>6. TotalOf(f) = [quantity |-> SumFunction(SumsOfParts(q, key)),
                      amount   |-> SumFunction(SumsOfParts(a, key))]
    <2> HIDE DEF f, q, a
    <2> QED
      BY <1>5 DEF TotalOf
  <1> QED
    BY <1>2, <1>3, <1>6 DEF TotalsType

LEMMA MenusAddUp ==
    ASSUME NEW paid, NEW range
    PROVE  Totals(paid, range) \in TotalsType /\ Totals(paid, range) = TotalOf(ByMenu(paid, range))
  <1> DEFINE rows == Join(PaidIn(paid, range))
             key == [r \in rows |-> r.item.menu]
             f == [k \in {key[r] : r \in rows} |-> Sum({r \in rows : key[r] = k})]
  <1>1. rows \in SUBSET AllRows
    BY RowsFacts DEF PaidIn
  <1>2. Sum(rows) \in TotalsType /\ Sum(rows) = TotalOf(f)
    <2> HIDE DEF rows, key
    <2> QED
      BY <1>1, SumByKey
  <1>3. ByMenu(paid, range) = f
    <2>1. {key[r] : r \in rows} = {r.item.menu : r \in rows}
      OBVIOUS
    <2>2. \A k : {r \in rows : key[r] = k} = {r \in rows : r.item.menu = k}
      OBVIOUS
    <2> HIDE DEF key
    <2> QED
      BY <2>1, <2>2 DEF ByMenu
  <1> QED
    BY <1>2, <1>3 DEF Totals

LEMMA DaysAddUp ==
    ASSUME NEW paid, NEW range
    PROVE  /\ Totals(paid, range) = TotalOf(DailyBreakdown(paid, range))
           /\ \A d \in DOMAIN DailyBreakdown(paid, range) :
                DailyBreakdown(paid, range)[d] \in TotalsType
  <1> DEFINE os == PaidIn(paid, range)
             rows == Join(os)
             key == [r \in rows |-> SqlDate(paid[r.order])]
             f == [k \in {key[r] : r \in rows} |-> Sum({r \in rows : key[r] = k})]
  <1>1. rows \in SUBSET AllRows /\ os \in SUBSET Orders
    BY RowsFacts DEF PaidIn
  <1>2. Sum(rows) = TotalOf(f) /\ \A R \in SUBSET rows : Sum(R) \in TotalsType
    <2> HIDE DEF rows, key
    <2> QED
      BY <1>1, SumByKey
  <1>3. DailyBreakdown(paid, range) = f
    <2>1. {key[r] : r \in rows} = {SqlDate(paid[o]) : o \in os}
      <3>1. ASSUME NEW o \in os
            PROVE  \E r \in rows : r.order = o
        <4>1. PICK i \in Items[o] : TRUE
          BY <1>1, SalesAssumption
        <4>2. [order |-> o, item |-> i] \in rows
          BY <4>1 DEF Join
        <4> QED
          BY <4>2
      <3>2. \A r \in rows : r.order \in os
        BY <1>1, RowsFacts
      <3> HIDE DEF rows, os
      <3> QED
        BY <3>1, <3>2
    <2>2. ASSUME NEW k
          PROVE  {r \in rows : key[r] = k} = Join({o \in os : SqlDate(paid[o]) = k})
      <3>1. {o \in os : SqlDate(paid[o]) = k} \in SUBSET Orders
        BY <1>1
      <3>2. Join({o \in os : SqlDate(paid[o]) = k})
               = {r \in AllRows : r.order \in {o \in os : SqlDate(paid[o]) = k}}
        BY <3>1, RowsFacts
      <3>3. rows = {r \in AllRows : r.order \in os}
        BY <1>1, RowsFacts
      <3> HIDE DEF rows, os
      <3> QED
        BY <3>2, <3>3
    <2> HIDE DEF key
    <2> QED
      BY <2>1, <2>2 DEF DailyBreakdown
  <1>4. \A d \in DOMAIN f : f[d] \in TotalsType
    BY <1>2
  <1> QED
    BY <1>2, <1>3, <1>4 DEF Totals

----------------------------------------------------------------------------
(* The inductive invariant.                                                *)

ViewFields == {"today", "festival", "daily", "menusToday", "menusFestival",
               "todayRefunded", "festivalRefunded"}

\* The steps before which the snapshot has been taken.
HasSnapshot == {"festival", "daily", "menusToday", "menusFestival", "commit", "OK"}

QueriesShape ==
    /\ step \in [Queries -> Steps]
    /\ DOMAIN asOf = Queries /\ DOMAIN snapshot = Queries /\ DOMAIN view = Queries
    /\ \A q \in Queries : DOMAIN view[q] = ViewFields

SalesTypeOK ==
    /\ now \in Nat
    /\ confirmedAt \in Payments
    /\ QueriesShape
    /\ \A q \in Queries : step[q] \in InTransaction \cup {"OK"} => asOf[q] \in Nat

\* The payments seen are those of the database, but for the ones made since.
SnapshotStands ==
    \A q \in Queries : step[q] \in HasSnapshot =>
        /\ snapshot[q].paid \in Payments
        /\ \A o \in Orders : snapshot[q].paid[o] \in {Absent, confirmedAt[o]}

\* Each query that has run has found what it finds in the snapshot.
AggregatesTrue(q) ==
    LET paid == snapshot[q].paid
        s == step[q]
    IN  /\ s \in HasSnapshot => view[q].today = Totals(paid, Today(q))
        /\ s \in HasSnapshot \ {"festival"} =>
              view[q].festival = Totals(paid, FestivalPeriod)
        /\ s \in HasSnapshot \ {"festival", "daily"} =>
              view[q].daily = DailyBreakdown(paid, FestivalPeriod)
        /\ s \in {"menusFestival", "commit", "OK"} =>
              view[q].menusToday = ByMenu(paid, Today(q))
        /\ s \in {"commit", "OK"} =>
              view[q].menusFestival = ByMenu(paid, FestivalPeriod)

SalesInv ==
    /\ SalesTypeOK
    /\ SnapshotStands
    /\ \A q \in Queries : AggregatesTrue(q)

LEMMA InitSales == Init => SalesInv
  BY DEF Init, SalesInv, SalesTypeOK, QueriesShape, SnapshotStands, AggregatesTrue, Payments, Steps,
         InTransaction, HasSnapshot, ViewFields, NoView, Nothing

(* A step of the orders, of the clock or of another query leaves q alone.  *)
LeftAlone(q) ==
    step'[q] = step[q] /\ asOf'[q] = asOf[q] /\ snapshot'[q] = snapshot[q] /\ view'[q] = view[q]

\* q has come to an end without an answer; or has just begun.
Ended(q) == step'[q] \in {"SALES_PASSWORD_INVALID", "INTERNAL_ERROR", "lost"}

(* What may happen to the payments: none is taken back.                    *)
LEMMA PaymentsStand ==
    ASSUME SalesTypeOK, [Next]_vars
    PROVE  /\ now' \in Nat /\ confirmedAt' \in Payments
           /\ \A o \in Orders : confirmedAt[o] # Absent => confirmedAt'[o] = confirmedAt[o]
  <1> USE DEF SalesTypeOK, Payments
  <1>1. ASSUME NEW o \in Orders, ConfirmPayment(o)
        PROVE  /\ now' = now /\ confirmedAt' \in Payments
               /\ \A p \in Orders : confirmedAt[p] # Absent => confirmedAt'[p] = confirmedAt[p]
    <2>1. PICK t \in Began : confirmedAt' = [confirmedAt EXCEPT ![o] = t]
      BY <1>1 DEF ConfirmPayment
    <2>2. t \in Nat
      BY SalesAssumption DEF Began
    <2> QED
      BY <1>1, <2>1, <2>2 DEF ConfirmPayment, Unpaid
  <1>2. CASE Tick
    BY <1>2 DEF Tick
  <1>3. CASE UNCHANGED <<now, confirmedAt>>
    BY <1>3
  <1>4. (\E o \in Orders : ConfirmPayment(o)) \/ Tick \/ UNCHANGED <<now, confirmedAt>>
    BY DEF Next, Refund, PasswordWrong, PasswordRight, Aggregate, TotalsToday, TotalsFestival,
           Daily, MenusToday, MenusFestival, Read, Answer, Abort, Crash, Finished,
           UnchangedOrders, vars
  <1> QED
    BY <1>1, <1>2, <1>3, <1>4

(* What may happen to a query.                                             *)
LEMMA StepsOfAQuery ==
    ASSUME SalesTypeOK, [Next]_vars, NEW q \in Queries
    PROVE  \/ LeftAlone(q) \/ Ended(q)
           \/ PasswordRight(q) \/ Aggregate(q) \/ Answer(q)
  <1> USE DEF SalesTypeOK, QueriesShape
  <1>1. ASSUME NEW r \in Queries, r # q,
               PasswordWrong(r) \/ PasswordRight(r) \/ Aggregate(r) \/ Answer(r) \/ Abort(r)
        PROVE  LeftAlone(q)
    BY <1>1 DEF LeftAlone, PasswordWrong, PasswordRight, Aggregate, TotalsToday, TotalsFestival,
           Daily, MenusToday, MenusFestival, Read, Answer, Abort, Forget, Goto
  <1>2. CASE PasswordWrong(q) \/ Abort(q)
    BY <1>2 DEF Ended, PasswordWrong, Abort, Goto
  <1>3. CASE Crash
    BY <1>3 DEF Ended, LeftAlone, Crash, Forget
  <1>4. CASE \/ \E o \in Orders : ConfirmPayment(o) \/ Refund(o)
             \/ Tick \/ Finished \/ UNCHANGED vars
    BY <1>4 DEF LeftAlone, ConfirmPayment, Refund, Tick, Finished, vars
  <1>5. \/ \E o \in Orders : ConfirmPayment(o) \/ Refund(o)
        \/ Tick \/ Crash \/ Finished \/ UNCHANGED vars
        \/ \E r \in Queries : \/ PasswordWrong(r) \/ PasswordRight(r)
                              \/ Aggregate(r) \/ Answer(r) \/ Abort(r)
    BY SalesAssumption DEF Next
  <1> QED
    BY <1>1, <1>2, <1>3, <1>4, <1>5

LEMMA ShapeStep ==
    ASSUME SalesTypeOK, [Next]_vars
    PROVE  QueriesShape'
  <1> USE DEF SalesTypeOK
  <1>1. ASSUME NEW r \in Queries, PasswordWrong(r) \/ PasswordRight(r)
        PROVE  QueriesShape'
    BY <1>1 DEF QueriesShape, PasswordWrong, PasswordRight, Goto, Steps, InTransaction, Answers
  <1>2. ASSUME NEW r \in Queries, TotalsToday(r)
        PROVE  QueriesShape'
    BY <1>2 DEF QueriesShape, TotalsToday, Goto, Steps, InTransaction
  <1>3. ASSUME NEW r \in Queries, NEW here, NEW next \in InTransaction, NEW field, NEW result,
               Read(r, here, next, field, result)
        PROVE  QueriesShape'
    BY <1>3 DEF QueriesShape, Read, Goto, Steps
  <1>4. ASSUME NEW r \in Queries, Aggregate(r)
        PROVE  QueriesShape'
    BY <1>2, <1>3, <1>4 DEF Aggregate, TotalsFestival, Daily, MenusToday, MenusFestival,
           InTransaction
  <1>5. ASSUME NEW r \in Queries, Answer(r)
        PROVE  QueriesShape'
    BY <1>5 DEF QueriesShape, Answer, Goto, Steps, Answers
  <1>6. ASSUME NEW r \in Queries, Abort(r)
        PROVE  QueriesShape'
    BY <1>6 DEF QueriesShape, Abort, Forget, NoView, ViewFields, Goto, Steps, Answers
  <1>7. CASE Crash
    BY <1>7 DEF QueriesShape, Crash, Forget, NoView, ViewFields, Steps
  <1>8. CASE UNCHANGED <<step, asOf, snapshot, view>>
    BY <1>8 DEF QueriesShape
  <1>9. \/ \E r \in Queries : \/ PasswordWrong(r) \/ PasswordRight(r)
                             \/ Aggregate(r) \/ Answer(r) \/ Abort(r)
        \/ Crash \/ UNCHANGED <<step, asOf, snapshot, view>>
    BY DEF Next, ConfirmPayment, Refund, Tick, Finished, vars
  <1> QED
    BY <1>1, <1>4, <1>5, <1>6, <1>7, <1>8, <1>9

LEMMA TypeStep ==
    ASSUME SalesTypeOK, [Next]_vars
    PROVE  SalesTypeOK'
  <1> USE DEF SalesTypeOK
  <1>1. ASSUME NEW q \in Queries, step'[q] \in InTransaction \cup {"OK"}
        PROVE  asOf'[q] \in Nat
    <2>1. CASE LeftAlone(q)
      BY <1>1, <2>1 DEF LeftAlone
    <2>2. CASE Ended(q)
      BY <1>1, <2>2 DEF Ended, InTransaction
    <2>3. CASE PasswordRight(q)
      BY <2>3 DEF PasswordRight, QueriesShape
    <2>4. CASE Aggregate(q) \/ Answer(q)
      BY <2>4 DEF Aggregate, TotalsToday, TotalsFestival, Daily, MenusToday, MenusFestival, Read,
             Answer, InTransaction
    <2> QED
      BY <2>1, <2>2, <2>3, <2>4, StepsOfAQuery
  <1> QED
    BY <1>1, PaymentsStand, ShapeStep

(* Nothing a snapshot has is taken back, and what it lacks may be added.   *)
LEMMA SnapshotStandsStep ==
    ASSUME SalesTypeOK, SnapshotStands, [Next]_vars
    PROVE  SnapshotStands'
  <1> SUFFICES ASSUME NEW q \in Queries, step'[q] \in HasSnapshot
               PROVE  /\ snapshot'[q].paid \in Payments
                      /\ \A o \in Orders : snapshot'[q].paid[o] \in {Absent, confirmedAt'[o]}
    BY DEF SnapshotStands
  <1>1. CASE step[q] \in HasSnapshot /\ snapshot'[q] = snapshot[q]
    BY <1>1, PaymentsStand DEF SnapshotStands
  <1>2. CASE TotalsToday(q)
    <2>1. snapshot'[q].paid = confirmedAt /\ confirmedAt' = confirmedAt
      BY <1>2 DEF TotalsToday, UnchangedOrders, SalesTypeOK, QueriesShape
    <2> QED
      BY <2>1 DEF SalesTypeOK
  <1>3. LeftAlone(q) => step[q] \in HasSnapshot /\ snapshot'[q] = snapshot[q]
    BY DEF LeftAlone
  <1>4. ~Ended(q)
    BY DEF Ended, HasSnapshot
  <1>5. ~PasswordRight(q)
    BY DEF PasswordRight, Goto, SalesTypeOK, QueriesShape, HasSnapshot
  <1>6. Aggregate(q) \/ Answer(q) =>
            TotalsToday(q) \/ (step[q] \in HasSnapshot /\ snapshot'[q] = snapshot[q])
    BY DEF Aggregate, TotalsFestival, Daily, MenusToday, MenusFestival, Read, Answer, HasSnapshot
  <1> QED
    BY <1>1, <1>2, <1>3, <1>4, <1>5, <1>6, StepsOfAQuery

(* Each query finds what it finds in the snapshot, and leaves the results  *)
(* of the others.                                                          *)
LEMMA AggregatesStep ==
    ASSUME SalesTypeOK, SnapshotStands, [Next]_vars, NEW q \in Queries, AggregatesTrue(q)
    PROVE  AggregatesTrue(q)'
  <1> USE DEF SalesTypeOK, QueriesShape, AggregatesTrue, Today, HasSnapshot
  <1>1. CASE LeftAlone(q)
    BY <1>1 DEF LeftAlone
  <1>2. CASE Ended(q)
    BY <1>2 DEF Ended
  <1>3. CASE PasswordRight(q)
    BY <1>3 DEF PasswordRight, Goto
  <1>4. CASE TotalsToday(q)
    <2>1. snapshot'[q].paid = confirmedAt /\ asOf' = asOf /\ step'[q] = "festival"
      BY <1>4 DEF TotalsToday, Goto
    <2>2. view'[q].today = Totals(confirmedAt, Today(q))
      BY <1>4 DEF TotalsToday, ViewFields
    <2> QED
      BY <2>1, <2>2
  <1>5. CASE TotalsFestival(q)
    <2>1. step[q] = "festival" /\ step'[q] = "daily" /\ asOf' = asOf /\ snapshot' = snapshot
      BY <1>5 DEF TotalsFestival, Read, Goto
    <2>2. /\ view'[q].festival = Totals(snapshot[q].paid, FestivalPeriod)
          /\ view'[q].today = view[q].today /\ view'[q].daily = view[q].daily
          /\ view'[q].menusToday = view[q].menusToday /\ view'[q].menusFestival = view[q].menusFestival
      BY <1>5 DEF TotalsFestival, Read, ViewFields, PaidSeen
    <2> QED
      BY <2>1, <2>2
  <1>6. CASE Daily(q)
    <2>1. step[q] = "daily" /\ step'[q] = "menusToday" /\ asOf' = asOf /\ snapshot' = snapshot
      BY <1>6 DEF Daily, Read, Goto
    <2>2. /\ view'[q].daily = DailyBreakdown(snapshot[q].paid, FestivalPeriod)
          /\ view'[q].today = view[q].today /\ view'[q].festival = view[q].festival
          /\ view'[q].menusToday = view[q].menusToday /\ view'[q].menusFestival = view[q].menusFestival
      BY <1>6 DEF Daily, Read, ViewFields, PaidSeen
    <2> QED
      BY <2>1, <2>2
  <1>7. CASE MenusToday(q)
    <2>1. step[q] = "menusToday" /\ step'[q] = "menusFestival" /\ asOf' = asOf /\ snapshot' = snapshot
      BY <1>7 DEF MenusToday, Read, Goto
    <2>2. /\ view'[q].menusToday = ByMenu(snapshot[q].paid, Today(q))
          /\ view'[q].today = view[q].today /\ view'[q].festival = view[q].festival
          /\ view'[q].daily = view[q].daily /\ view'[q].menusFestival = view[q].menusFestival
      BY <1>7 DEF MenusToday, Read, ViewFields, PaidSeen
    <2> QED
      BY <2>1, <2>2
  <1>8. CASE MenusFestival(q)
    <2>1. step[q] = "menusFestival" /\ step'[q] = "commit" /\ asOf' = asOf /\ snapshot' = snapshot
      BY <1>8 DEF MenusFestival, Read, Goto
    <2>2. /\ view'[q].menusFestival = ByMenu(snapshot[q].paid, FestivalPeriod)
          /\ view'[q].today = view[q].today /\ view'[q].festival = view[q].festival
          /\ view'[q].daily = view[q].daily /\ view'[q].menusToday = view[q].menusToday
      BY <1>8 DEF MenusFestival, Read, ViewFields, PaidSeen
    <2> QED
      BY <2>1, <2>2
  <1>9. CASE Answer(q)
    <2>1. step[q] = "commit" /\ step'[q] = "OK" /\ asOf' = asOf /\ snapshot' = snapshot
      BY <1>9 DEF Answer, Goto
    <2>2. /\ view'[q].today = view[q].today /\ view'[q].festival = view[q].festival
          /\ view'[q].daily = view[q].daily /\ view'[q].menusToday = view[q].menusToday
          /\ view'[q].menusFestival = view[q].menusFestival
      BY <1>9 DEF Answer, ViewFields
    <2> QED
      BY <2>1, <2>2
  <1> QED
    BY <1>1, <1>2, <1>3, <1>4, <1>5, <1>6, <1>7, <1>8, <1>9, StepsOfAQuery DEF Aggregate

LEMMA SalesInvStep == SalesInv /\ [Next]_vars => SalesInv'
  BY TypeStep, SnapshotStandsStep, AggregatesStep DEF SalesInv

(* The types of the payments and of the queries, the payments each         *)
(* snapshot has, and the results found in it so far.                       *)
THEOREM Invariance == Spec => []SalesInv
  BY InitSales, SalesInvStep, PTL DEF Spec

----------------------------------------------------------------------------
(* The answers.                                                            *)

(* An answer of POST /admin/sales/query is made of what its five queries   *)
(* find in one snapshot of the payments, for the day of one instant: no    *)
(* payment committed between two of them is in one and missing from        *)
(* another.                                                                *)
OneSnapshot ==
    \A q \in Queries : step[q] = "OK" =>
        \E paid \in Payments :
            /\ view[q].today = Totals(paid, Today(q))
            /\ view[q].festival = Totals(paid, FestivalPeriod)
            /\ view[q].daily = DailyBreakdown(paid, FestivalPeriod)
            /\ view[q].menusToday = ByMenu(paid, Today(q))
            /\ view[q].menusFestival = ByMenu(paid, FestivalPeriod)

THEOREM AnswersOfOneSnapshot == Spec => []OneSnapshot
  <1>1. SalesInv => OneSnapshot
    BY DEF SalesInv, SnapshotStands, AggregatesTrue, OneSnapshot, HasSnapshot
  <1> QED
    BY <1>1, Invariance, PTL

(* For every calendar and every set of orders, an answer counts exactly    *)
(* the payments of its snapshot made on its days: the ranges of            *)
(* kstDateStringToRange neither miss the first instant of a day nor take   *)
(* that of the next; and what it counts stays paid.                        *)
THEOREM ViewsExact == Spec => []ViewExact
  <1>1. ASSUME SalesInv, NEW q \in Queries, step[q] = "OK"
        PROVE  /\ view[q].festival.amount = Sold(snapshot[q].paid, FirstDay .. LastDay)
               /\ view[q].today.amount = Sold(snapshot[q].paid, {KstDate(asOf[q])})
               /\ \A o \in Orders : snapshot[q].paid[o] \in {Absent, confirmedAt[o]}
    <2>1. snapshot[q].paid \in Payments /\ KstDate(asOf[q]) \in Int
      BY <1>1, DayOfInstant DEF SalesInv, SnapshotStands, SalesTypeOK, HasSnapshot
    <2>2. /\ view[q].festival = Totals(snapshot[q].paid, FestivalPeriod)
          /\ view[q].today = Totals(snapshot[q].paid, KstRange(KstDate(asOf[q])))
      BY <1>1 DEF SalesInv, AggregatesTrue, HasSnapshot, Today
    <2>3. \A os, range : Totals(os, range).amount = Amount(Join(PaidIn(os, range)))
      BY DEF Totals, Sum
    <2>4. view[q].festival.amount = Sold(snapshot[q].paid, FirstDay .. LastDay)
      <3>1. Sold(snapshot[q].paid, FirstDay .. LastDay)
                = Amount(Join(PaidIn(snapshot[q].paid, FestivalPeriod)))
        BY <2>1, PaidOnTheDays DEF Sold
      <3> QED
        BY <2>2, <2>3, <3>1
    <2>5. view[q].today.amount = Sold(snapshot[q].paid, {KstDate(asOf[q])})
      <3>1. Sold(snapshot[q].paid, {KstDate(asOf[q])})
                = Amount(Join(PaidIn(snapshot[q].paid, KstRange(KstDate(asOf[q])))))
        BY <2>1, PaidOnTheDays DEF Sold
      <3> QED
        BY <2>2, <2>3, <3>1
    <2>6. \A o \in Orders : snapshot[q].paid[o] \in {Absent, confirmedAt[o]}
      BY <1>1 DEF SalesInv, SnapshotStands, HasSnapshot
    <2> QED
      BY <2>4, <2>5, <2>6
  <1>2. SalesInv => ViewExact
    BY <1>1 DEF ViewExact
  <1> QED
    BY <1>2, Invariance, PTL

\* The part of ViewConsistent that is about days.
DaysConsistent ==
    \A q \in Queries : step[q] = "OK" => DaysAgree(view[q], KstDate(asOf[q]))

(* For every calendar, the days of an answer are days of the festival, and *)
(* the row of today is today's total, though one comes from GROUP BY and   *)
(* the other from a range: the process and PostgreSQL mean the same days.  *)
THEOREM DaysCorrect == Spec => []DaysConsistent
  <1>1. ASSUME SalesInv, NEW q \in Queries, step[q] = "OK"
        PROVE  DaysAgree(view[q], KstDate(asOf[q]))
    <2>1. snapshot[q].paid \in Payments /\ asOf[q] \in Int
      BY <1>1 DEF SalesInv, SnapshotStands, SalesTypeOK, HasSnapshot
    <2>2. /\ view[q].daily = DailyBreakdown(snapshot[q].paid, FestivalPeriod)
          /\ view[q].today = Totals(snapshot[q].paid, KstRange(KstDate(asOf[q])))
      BY <1>1 DEF SalesInv, AggregatesTrue, HasSnapshot, Today
    <2> QED
      BY <2>1, <2>2, DailyIsDay DEF DaysAgree
  <1>2. SalesInv => DaysConsistent
    BY <1>1 DEF DaysConsistent
  <1> QED
    BY <1>2, Invariance, PTL

(* The numbers of an answer agree: for any rows, the sums of the days and  *)
(* of the menus, grouped by SQL, add up to the totals that other queries   *)
(* of the same snapshot asked for.                                         *)
THEOREM ViewsConsistent == Spec => []ViewConsistent
  <1>1. ASSUME SalesInv, NEW q \in Queries, step[q] = "OK"
        PROVE  TotalsAgree(view[q])
    <2>1. /\ view[q].today = Totals(snapshot[q].paid, Today(q))
          /\ view[q].festival = Totals(snapshot[q].paid, FestivalPeriod)
          /\ view[q].daily = DailyBreakdown(snapshot[q].paid, FestivalPeriod)
          /\ view[q].menusToday = ByMenu(snapshot[q].paid, Today(q))
          /\ view[q].menusFestival = ByMenu(snapshot[q].paid, FestivalPeriod)
      BY <1>1 DEF SalesInv, AggregatesTrue, HasSnapshot
    <2> QED
      BY <2>1, MenusAddUp, DaysAddUp DEF TotalsAgree
  <1>2. SalesInv /\ DaysConsistent => ViewConsistent
    BY <1>1 DEF ViewConsistent, DaysConsistent
  <1> QED
    BY <1>2, Invariance, DaysCorrect, PTL

----------------------------------------------------------------------------
(* Types.                                                                  *)

\* What a call has aggregated so far is numbers, and days.
ViewTyped(v) ==
    /\ v.today \in TotalsType /\ v.festival \in TotalsType
    /\ \A d \in DOMAIN v.daily : d \in Int /\ v.daily[d] \in TotalsType

LEMMA NoViewTyped == ViewTyped(NoView)
  BY DEF ViewTyped, NoView, Nothing, TotalsType

LEMMA BeganWhen == now \in Nat => Began \subseteq 0 .. now
  BY SalesAssumption DEF Began

LEMMA ClocksStep ==
    ASSUME TypeOK, [Next]_vars
    PROVE  /\ now' \in 0 .. LastInstant
           /\ confirmedAt' \in [Orders -> 0 .. now' \cup {Absent}]
           /\ processedAt' \in [Orders -> 0 .. now' \cup {Absent}]
           /\ step' \in [Queries -> Steps]
           /\ asOf' \in [Queries -> 0 .. now' \cup {Absent}]
  <1> USE DEF TypeOK
  <1>0. now \in Nat /\ LastInstant \in Nat
    BY SalesAssumption
  <1>1. ASSUME NEW o \in Orders, ConfirmPayment(o) \/ Refund(o)
        PROVE  /\ UNCHANGED <<now, step, asOf>>
               /\ confirmedAt' \in [Orders -> 0 .. now \cup {Absent}]
               /\ processedAt' \in [Orders -> 0 .. now \cup {Absent}]
    <2>1. CASE ConfirmPayment(o)
      <3>1. PICK t \in 0 .. now : confirmedAt' = [confirmedAt EXCEPT ![o] = t]
        BY <1>0, <2>1, BeganWhen DEF ConfirmPayment
      <3> QED
        BY <2>1, <3>1 DEF ConfirmPayment
    <2>2. CASE Refund(o)
      <3>1. PICK t \in 0 .. now : processedAt' = [processedAt EXCEPT ![o] = t]
        BY <1>0, <2>2, BeganWhen DEF Refund
      <3> QED
        BY <2>2, <3>1 DEF Refund
    <2> QED
      BY <1>1, <2>1, <2>2
  <1>2. CASE Tick
    <2>1. now' = now + 1 /\ now' \in 0 .. LastInstant
      BY <1>0, <1>2 DEF Tick
    <2>2. 0 .. now \subseteq 0 .. now'
      BY <1>0, <2>1
    <2>3. UNCHANGED <<confirmedAt, processedAt, step, asOf>>
      BY <1>2 DEF Tick
    <2> QED
      BY <2>1, <2>2, <2>3
  <1>3. ASSUME NEW q \in Queries, PasswordWrong(q) \/ PasswordRight(q) \/ Answer(q) \/ Abort(q)
        PROVE  /\ UNCHANGED <<now, confirmedAt, processedAt>>
               /\ step' \in [Queries -> Steps]
               /\ asOf' \in [Queries -> 0 .. now \cup {Absent}]
    BY <1>0, <1>3 DEF PasswordWrong, PasswordRight, Answer, Abort, Forget, Goto, UnchangedOrders,
           Steps, InTransaction, Answers
  <1>4. ASSUME NEW q \in Queries, Aggregate(q)
        PROVE  /\ UNCHANGED <<now, confirmedAt, processedAt, asOf>>
               /\ step' \in [Queries -> Steps]
    BY <1>4 DEF Aggregate, TotalsToday, TotalsFestival, Daily, MenusToday, MenusFestival, Read,
           Goto, UnchangedOrders, Steps, InTransaction
  <1>5. CASE Crash
    BY <1>5 DEF Crash, Forget, UnchangedOrders, Steps
  <1>6. CASE UNCHANGED vars
    BY <1>6 DEF vars
  <1>7. \/ \E o \in Orders : ConfirmPayment(o) \/ Refund(o)
        \/ Tick \/ Crash \/ UNCHANGED vars
        \/ \E q \in Queries : \/ PasswordWrong(q) \/ PasswordRight(q) \/ Answer(q) \/ Abort(q)
                              \/ Aggregate(q)
    BY SalesAssumption DEF Next, Finished
  <1> HIDE DEF TypeOK
  <1>8. /\ now \in 0 .. LastInstant
        /\ confirmedAt \in [Orders -> 0 .. now \cup {Absent}]
        /\ processedAt \in [Orders -> 0 .. now \cup {Absent}]
        /\ step \in [Queries -> Steps]
        /\ asOf \in [Queries -> 0 .. now \cup {Absent}]
    BY DEF TypeOK
  <1> QED
    BY <1>1, <1>2, <1>3, <1>4, <1>5, <1>6, <1>7, <1>8 DEF vars

LEMMA ViewStep ==
    ASSUME SalesInv, [Next]_vars, NEW q \in Queries, ViewTyped(view[q])
    PROVE  ViewTyped(view'[q])
  <1>1. DOMAIN view = Queries /\ DOMAIN view[q] = ViewFields
    BY DEF SalesInv, SalesTypeOK, QueriesShape
  <1>2. CASE view'[q] = view[q] \/ view'[q] = NoView
    BY <1>2, NoViewTyped
  <1>3. ASSUME NEW r \in Queries, r # q,
               PasswordWrong(r) \/ PasswordRight(r) \/ Aggregate(r) \/ Answer(r) \/ Abort(r)
        PROVE  view'[q] = view[q]
    BY <1>1, <1>3 DEF PasswordWrong, PasswordRight, Aggregate, TotalsToday, TotalsFestival,
           Daily, MenusToday, MenusFestival, Read, Answer, Abort, Forget
  <1>4. CASE \/ PasswordWrong(q) \/ PasswordRight(q) \/ Abort(q) \/ Crash \/ Tick \/ UNCHANGED vars
             \/ \E o \in Orders : ConfirmPayment(o) \/ Refund(o)
    BY <1>1, <1>2, <1>4 DEF PasswordWrong, PasswordRight, Abort, Crash, Forget, Tick, vars,
           ConfirmPayment, Refund
  <1>5. CASE TotalsToday(q)
    <2>1. view'[q] = [view[q] EXCEPT !.today = Totals(confirmedAt, Today(q))]
      BY <1>1, <1>5 DEF TotalsToday
    <2>2. Totals(confirmedAt, Today(q)) \in TotalsType
      BY MenusAddUp
    <2> QED
      BY <1>1, <2>1, <2>2 DEF ViewTyped, ViewFields
  <1>6. CASE TotalsFestival(q)
    <2>1. view'[q] = [view[q] EXCEPT !["festival"] = Totals(PaidSeen(q), FestivalPeriod)]
      BY <1>1, <1>6 DEF TotalsFestival, Read
    <2>2. Totals(PaidSeen(q), FestivalPeriod) \in TotalsType
      BY MenusAddUp
    <2> QED
      BY <1>1, <2>1, <2>2 DEF ViewTyped, ViewFields
  <1>7. CASE Daily(q)
    <2> DEFINE daily == DailyBreakdown(PaidSeen(q), FestivalPeriod)
    <2>1. view'[q] = [view[q] EXCEPT !["daily"] = daily]
      BY <1>1, <1>7 DEF Daily, Read
    <2>2. step[q] = "daily" /\ PaidSeen(q) \in Payments
      BY <1>7 DEF Daily, Read, PaidSeen, SalesInv, SnapshotStands, HasSnapshot
    <2>3. \A d \in DOMAIN daily : d \in Int
      <3>1. DaysAgree([daily |-> daily, today |-> Totals(PaidSeen(q), KstRange(KstDate(0)))],
                      KstDate(0))
        BY <2>2, DailyIsDay
      <3>2. DOMAIN daily \subseteq FirstDay .. LastDay
        BY <3>1 DEF DaysAgree
      <3> QED
        BY <3>2
    <2>4. \A d \in DOMAIN daily : daily[d] \in TotalsType
      BY DaysAddUp
    <2> HIDE DEF daily
    <2> QED
      BY <1>1, <2>1, <2>3, <2>4 DEF ViewTyped, ViewFields
  <1>8. CASE MenusToday(q) \/ MenusFestival(q) \/ Answer(q)
    <2>1. /\ view'[q].today = view[q].today /\ view'[q].festival = view[q].festival
          /\ view'[q].daily = view[q].daily
      BY <1>1, <1>8 DEF MenusToday, MenusFestival, Read, Answer, ViewFields
    <2> QED
      BY <2>1 DEF ViewTyped
  <1>9. \/ \E o \in Orders : ConfirmPayment(o) \/ Refund(o)
        \/ Tick \/ Crash \/ UNCHANGED vars
        \/ \E r \in Queries : \/ PasswordWrong(r) \/ PasswordRight(r)
                              \/ Aggregate(r) \/ Answer(r) \/ Abort(r)
    BY SalesAssumption DEF Next, Finished
  <1> QED
    BY <1>2, <1>3, <1>4, <1>5, <1>6, <1>7, <1>8, <1>9 DEF Aggregate

(* Every total is a number: a sum of no rows is 0 and not NULL, and no     *)
(* instant is in the future.                                               *)
THEOREM TypeCorrect == Spec => []TypeOK
  <1>1. Init => TypeOK
    <2> SUFFICES ASSUME Init
                 PROVE  TypeOK
      OBVIOUS
    <2>1. \A q \in Queries : view[q] = NoView
      BY DEF Init
    <2>2. \A q \in Queries : ViewTyped(view[q])
      BY <2>1, NoViewTyped
    <2>3. 0 \in 0 .. LastInstant
      BY SalesAssumption
    <2> QED
      BY <2>2, <2>3 DEF Init, TypeOK, ViewTyped, Steps
  <1>2. TypeOK /\ SalesInv /\ [Next]_vars => TypeOK'
    <2> SUFFICES ASSUME TypeOK, SalesInv, [Next]_vars
                 PROVE  TypeOK'
      OBVIOUS
    <2>1. \A q \in Queries : ViewTyped(view[q])
      BY DEF TypeOK, ViewTyped
    <2>2. \A q \in Queries : ViewTyped(view'[q])
      BY <2>1, ViewStep
    <2> QED
      BY <2>2, ClocksStep DEF TypeOK, ViewTyped
  <1> QED
    BY <1>1, <1>2, Invariance, PTL DEF Spec
=============================================================================
