--------------------------- MODULE OperatorProofs ---------------------------
(***************************************************************************)
(* Lemmas about the operators the model is built from, for every argument: *)
(* the lists (Retained, the MRU list) and the decisions of Placement.      *)
(* Induction is over sets of naturals.                                     *)
(***************************************************************************)
EXTENDS Placement, MruJump, SequenceTheorems, FiniteSetTheorems,
        WellFoundedInduction, TLAPS

(* A set of naturals that is not empty has a least member. *)
LEMMA LeastExists ==
  ASSUME NEW S, S \subseteq Nat, S # {}
  PROVE  \E x \in S : \A y \in S : x <= y
<1>1. PICK x \in S : \A y \in S : ~(<<y, x>> \in OpToRel(<, Nat))
  BY NatLessThanWellFounded, WFMin
<1>2. ASSUME NEW y \in S PROVE x <= y
  <2>1. x \in Nat /\ y \in Nat /\ <<y, x>> \in Nat \X Nat
    OBVIOUS
  <2>2. ~(y < x)
    BY <1>1, <2>1 DEF OpToRel
  <2> QED BY <2>1, <2>2
<1> QED BY <1>2

(* Min of the community modules is that member. *)
LEMMA MinIsLeast ==
  ASSUME NEW S, S \subseteq Nat, S # {}
  PROVE  Min(S) \in S /\ \A y \in S : Min(S) <= y
BY LeastExists DEF Min

(* Induction, for a set instead of a predicate. *)
LEMMA SetInduction ==
  ASSUME NEW P, 0 \in P, \A n \in Nat : n \in P => n + 1 \in P
  PROVE  \A n \in Nat : n \in P
<1> SUFFICES ASSUME Nat \ P # {} PROVE FALSE
  OBVIOUS
<1>1. PICK m \in Nat \ P : \A k \in Nat \ P : m <= k
  BY LeastExists
<1>2. m # 0
  OBVIOUS
<1>3. m - 1 \in Nat /\ m - 1 \in P
  BY <1>1, <1>2
<1> QED BY <1>1, <1>2, <1>3

-----------------------------------------------------------------------------
(* f is the function that Retained computes, on the first N entries. *)
RetainsUpTo(s, K, N, f) ==
  f = [n \in 0 .. N |->
         IF n = 0 THEN << >>
         ELSE IF s[n] \in K THEN Append(f[n - 1], s[n]) ELSE f[n - 1]]

LEMMA PrefixAt ==
  ASSUME NEW s, NEW K, NEW N, NEW f, RetainsUpTo(s, K, N, f), NEW n \in 0 .. N
  PROVE  f[n] = IF n = 0 THEN << >>
                ELSE IF s[n] \in K THEN Append(f[n - 1], s[n]) ELSE f[n - 1]
BY Zenon DEF RetainsUpTo

LEMMA PrefixesExist ==
  ASSUME NEW s, NEW K, NEW N \in Nat
  PROVE  \E f : RetainsUpTo(s, K, N, f)
<1> DEFINE P == {n \in Nat : \E f : RetainsUpTo(s, K, n, f)}
<1>1. 0 \in P
  <2> DEFINE g == [n \in 0 .. 0 |-> << >>]
  <2>1. RetainsUpTo(s, K, 0, g)
    BY DEF RetainsUpTo
  <2> QED BY <2>1
<1>2. ASSUME NEW n \in Nat, n \in P PROVE n + 1 \in P
  <2>1. PICK f : RetainsUpTo(s, K, n, f)
    BY <1>2
  <2> DEFINE g == [k \in 0 .. n + 1 |->
                     IF k = 0 THEN << >>
                     ELSE IF s[k] \in K THEN Append(f[k - 1], s[k])
                          ELSE f[k - 1]]
  <2>2. ASSUME NEW k \in 0 .. n PROVE g[k] = f[k]
    <3>1. k \in 0 .. n + 1
      OBVIOUS
    <3> QED BY <2>1, <3>1, PrefixAt
  <2>3. ASSUME NEW k \in 0 .. n + 1
        PROVE  g[k] = IF k = 0 THEN << >>
                      ELSE IF s[k] \in K THEN Append(g[k - 1], s[k])
                           ELSE g[k - 1]
    <3>1. CASE k = 0
      BY <3>1
    <3>2. CASE k # 0
      <4>1. k - 1 \in 0 .. n
        BY <3>2
      <4>2. g[k - 1] = f[k - 1]
        BY <2>2, <4>1
      <4> QED BY <3>2, <4>2, Zenon
    <3> QED BY <3>1, <3>2
  <2>4. RetainsUpTo(s, K, n + 1, g)
    BY <2>3 DEF RetainsUpTo
  <2> QED BY <2>4
<1> HIDE DEF P
<1>3. N \in P
  BY <1>1, <1>2, SetInduction
<1> QED BY <1>3 DEF P

LEMMA RetainedIsPrefix ==
  ASSUME NEW s, NEW K, Len(s) \in Nat
  PROVE  \E f : RetainsUpTo(s, K, Len(s), f) /\ Retained(s, K) = f[Len(s)]
<1> DEFINE f == CHOOSE g : RetainsUpTo(s, K, Len(s), g)
<1>1. RetainsUpTo(s, K, Len(s), f)
  BY PrefixesExist
<1>2. Retained(s, K) = f[Len(s)]
  BY DEF Retained, RetainsUpTo
<1> QED BY <1>1, <1>2

(* Where the entries of r come from: the positions of s that hold members of
   K, in increasing order. *)
IsFrom(s, K, r, N, from) ==
  /\ from \in [1 .. Len(r) -> 1 .. N]
  /\ \A i \in 1 .. Len(r) : r[i] = s[from[i]] /\ s[from[i]] \in K
  /\ \A i, j \in 1 .. Len(r) : i < j => from[i] < from[j]
  /\ \A k \in 1 .. N : s[k] \in K => \E i \in 1 .. Len(r) : from[i] = k

LEMMA RetainedSources ==
  ASSUME NEW S, NEW s \in Seq(S), NEW K
  PROVE  /\ Retained(s, K) \in Seq(S)
         /\ \E from : IsFrom(s, K, Retained(s, K), Len(s), from)
<1>1. PICK f : RetainsUpTo(s, K, Len(s), f) /\ Retained(s, K) = f[Len(s)]
  BY RetainedIsPrefix, LenProperties
<1> DEFINE P == {n \in Nat : n <= Len(s) =>
                    f[n] \in Seq(S) /\ \E from : IsFrom(s, K, f[n], n, from)}
<1>2. 0 \in P
  <2>1. 0 \in 0 .. Len(s)
    BY LenProperties
  <2>2. f[0] = << >>
    BY <1>1, <2>1, PrefixAt
  <2>3. << >> \in Seq(S) /\ Len(<< >>) = 0
    BY EmptySeq
  <2>4. IsFrom(s, K, << >>, 0, [i \in 1 .. 0 |-> 0])
    BY <2>3 DEF IsFrom
  <2> QED BY <2>2, <2>3, <2>4
<1>3. ASSUME NEW n \in Nat, n \in P PROVE n + 1 \in P
  <2> SUFFICES ASSUME n + 1 <= Len(s)
               PROVE  /\ f[n + 1] \in Seq(S)
                      /\ \E from : IsFrom(s, K, f[n + 1], n + 1, from)
    OBVIOUS
  <2>1. f[n] \in Seq(S)
    BY <1>3
  <2>2. PICK from : IsFrom(s, K, f[n], n, from)
    BY <1>3
  <2>3. n + 1 \in 1 .. Len(s) /\ s[n + 1] \in S
    BY ElementOfSeq
  <2>4. f[n + 1] = IF s[n + 1] \in K THEN Append(f[n], s[n + 1]) ELSE f[n]
    BY <1>1, <2>3, PrefixAt
  <2>5. CASE s[n + 1] \notin K
    BY <2>1, <2>2, <2>4, <2>5 DEF IsFrom
  <2>6. CASE s[n + 1] \in K
    <3> DEFINE r == Append(f[n], s[n + 1])
               m == Len(f[n])
               g == [i \in 1 .. m + 1 |-> IF i = m + 1 THEN n + 1 ELSE from[i]]
    <3>1. /\ r \in Seq(S) /\ Len(r) = m + 1 /\ m \in Nat
          /\ \A i \in 1 .. m : r[i] = f[n][i]
          /\ r[m + 1] = s[n + 1]
      BY <2>1, <2>3, AppendProperties, LenProperties
    <3> HIDE DEF r
    <3>2. IsFrom(s, K, r, n + 1, g)
      <4>1. g \in [1 .. Len(r) -> 1 .. n + 1]
        BY <2>2, <3>1 DEF IsFrom
      <4>2. \A i \in 1 .. Len(r) : r[i] = s[g[i]] /\ s[g[i]] \in K
        BY <2>2, <2>6, <3>1 DEF IsFrom
      <4>3. \A i, j \in 1 .. Len(r) : i < j => g[i] < g[j]
        <5> SUFFICES ASSUME NEW i \in 1 .. m + 1, NEW j \in 1 .. m + 1, i < j
                     PROVE  g[i] < g[j]
          BY <3>1
        <5>1. i \in 1 .. m
          BY <3>1
        <5>2. from[i] \in 1 .. n
          BY <2>2, <5>1 DEF IsFrom
        <5>3. g[i] = from[i]
          BY <3>1, <5>1
        <5>4. CASE j = m + 1
          BY <5>2, <5>3, <5>4
        <5>5. CASE j # m + 1
          <6>1. j \in 1 .. m /\ g[j] = from[j]
            BY <3>1, <5>5
          <6>2. from[i] < from[j]
            BY <2>2, <5>1, <6>1 DEF IsFrom
          <6> QED BY <5>3, <6>1, <6>2
        <5> QED BY <5>4, <5>5
      <4>4. ASSUME NEW k \in 1 .. n + 1, s[k] \in K
            PROVE  \E i \in 1 .. Len(r) : g[i] = k
        <5>1. CASE k = n + 1
          <6>1. m + 1 \in 1 .. Len(r) /\ g[m + 1] = k
            BY <3>1, <5>1
          <6> QED BY <6>1
        <5>2. CASE k # n + 1
          <6>1. PICK i \in 1 .. m : from[i] = k
            BY <2>2, <3>1, <4>4, <5>2 DEF IsFrom
          <6>2. i \in 1 .. Len(r) /\ g[i] = k
            BY <3>1, <6>1
          <6> QED BY <6>2
        <5> QED BY <5>1, <5>2
      <4> QED BY <4>1, <4>2, <4>3, <4>4 DEF IsFrom
    <3> QED BY <2>4, <2>6, <3>1, <3>2 DEF r
  <2> QED BY <2>5, <2>6
<1> HIDE DEF P
<1>4. Len(s) \in P
  BY <1>2, <1>3, SetInduction, LenProperties
<1> QED BY <1>1, <1>4, LenProperties DEF P

(* What is kept is what was there and is in K. *)
LEMMA RetainedRange ==
  ASSUME NEW S, NEW s \in Seq(S), NEW K
  PROVE  /\ Retained(s, K) \in Seq(S \intersect K)
         /\ Range(Retained(s, K)) = Range(s) \intersect K
<1>1. PICK from : IsFrom(s, K, Retained(s, K), Len(s), from)
  BY RetainedSources
<1> DEFINE r == Retained(s, K)
<1>2. r \in Seq(S) /\ DOMAIN r = 1 .. Len(r) /\ DOMAIN s = 1 .. Len(s)
  BY RetainedSources, LenProperties
<1>3. \A i \in 1 .. Len(r) : r[i] \in S \intersect K
  BY <1>1, <1>2, ElementOfSeq DEF IsFrom
<1>4. r \in [1 .. Len(r) -> S \intersect K] /\ Len(r) \in Nat
  BY <1>2, <1>3, LenProperties
<1>5. r \in Seq(S \intersect K)
  BY <1>4, SeqDef
<1>6. ASSUME NEW x \in Range(r) PROVE x \in Range(s) \intersect K
  BY <1>1, <1>2, <1>6 DEF IsFrom, Range
<1>7. ASSUME NEW x \in Range(s), x \in K PROVE x \in Range(r)
  <2>1. PICK k \in 1 .. Len(s) : x = s[k]
    BY <1>2 DEF Range
  <2>2. PICK i \in 1 .. Len(r) : from[i] = k
    BY <1>1, <1>7, <2>1 DEF IsFrom
  <2>3. r[i] = x
    BY <1>1, <2>1, <2>2 DEF IsFrom
  <2> QED BY <1>2, <2>3 DEF Range
<1> QED BY <1>5, <1>6, <1>7

(* The first k entries, and whether they are in the set, are all that matters
   to the k-th prefix. *)
LEMMA PrefixesAgree ==
  ASSUME NEW s, NEW t, NEW K, NEW L, NEW M \in Nat, NEW N \in Nat, NEW f, NEW g,
         RetainsUpTo(s, K, M, f), RetainsUpTo(t, L, N, g),
         NEW k \in Nat, k <= M, k <= N,
         \A i \in 1 .. k : s[i] = t[i] /\ (s[i] \in K <=> t[i] \in L)
  PROVE  f[k] = g[k]
<1> DEFINE P == {n \in Nat : n <= k => f[n] = g[n]}
<1>1. 0 \in P
  <2>1. 0 \in 0 .. M /\ 0 \in 0 .. N
    OBVIOUS
  <2> QED BY <2>1, PrefixAt
<1>2. ASSUME NEW n \in Nat, n \in P PROVE n + 1 \in P
  <2> SUFFICES ASSUME n + 1 <= k PROVE f[n + 1] = g[n + 1]
    OBVIOUS
  <2>1. n + 1 \in 0 .. M /\ n + 1 \in 0 .. N /\ n + 1 \in 1 .. k /\ n + 1 # 0
    OBVIOUS
  <2>2. f[n + 1] = IF s[n + 1] \in K THEN Append(f[n], s[n + 1]) ELSE f[n]
    BY <2>1, PrefixAt
  <2>3. g[n + 1] = IF t[n + 1] \in L THEN Append(g[n], t[n + 1]) ELSE g[n]
    BY <2>1, PrefixAt
  <2>4. f[n] = g[n]
    BY <1>2
  <2> QED BY <2>1, <2>2, <2>3, <2>4, Zenon
<1> HIDE DEF P
<1>3. k \in P
  BY <1>1, <1>2, SetInduction
<1> QED BY <1>3 DEF P

LEMMA RetainedAgree ==
  ASSUME NEW S, NEW s \in Seq(S), NEW K, NEW L,
         \A i \in 1 .. Len(s) : s[i] \in K <=> s[i] \in L
  PROVE  Retained(s, K) = Retained(s, L)
<1>1. PICK f : RetainsUpTo(s, K, Len(s), f) /\ Retained(s, K) = f[Len(s)]
  BY RetainedIsPrefix, LenProperties
<1>2. PICK g : RetainsUpTo(s, L, Len(s), g) /\ Retained(s, L) = g[Len(s)]
  BY RetainedIsPrefix, LenProperties
<1>3. f[Len(s)] = g[Len(s)]
  <2> DEFINE N == Len(s)
  <2>1. N \in Nat /\ N <= N
    BY LenProperties
  <2>2. RetainsUpTo(s, K, N, f) /\ RetainsUpTo(s, L, N, g)
    BY <1>1, <1>2
  <2>3. \A i \in 1 .. N : s[i] = s[i] /\ (s[i] \in K <=> s[i] \in L)
    OBVIOUS
  <2> HIDE DEF N
  <2>4. f[N] = g[N]
    BY <2>1, <2>2, <2>3, PrefixesAgree
  <2> QED BY <2>4 DEF N
<1> QED BY <1>1, <1>2, <1>3

LEMMA RetainedAppend ==
  ASSUME NEW S, NEW s \in Seq(S), NEW e \in S, NEW K
  PROVE  Retained(Append(s, e), K) =
           IF e \in K THEN Append(Retained(s, K), e) ELSE Retained(s, K)
<1> DEFINE t == Append(s, e)
           n == Len(s)
<1>1. /\ t \in Seq(S) /\ Len(t) = n + 1 /\ n \in Nat
      /\ \A i \in 1 .. n : t[i] = s[i]
      /\ t[n + 1] = e
  BY AppendProperties, LenProperties
<1>2. PICK f : RetainsUpTo(s, K, n, f) /\ Retained(s, K) = f[n]
  BY RetainedIsPrefix, LenProperties
<1> HIDE DEF t
<1>3. PICK g : RetainsUpTo(t, K, n + 1, g) /\ Retained(t, K) = g[n + 1]
  BY <1>1, RetainedIsPrefix
<1> HIDE DEF n
<1>4. f[n] = g[n]
  <2>1. n \in Nat /\ n + 1 \in Nat /\ n <= n /\ n <= n + 1
    BY <1>1
  <2>2. \A i \in 1 .. n : s[i] = t[i] /\ (s[i] \in K <=> t[i] \in K)
    BY <1>1
  <2>3. RetainsUpTo(s, K, n, f) /\ RetainsUpTo(t, K, n + 1, g)
    BY <1>2, <1>3
  <2> DEFINE m == n + 1
  <2> HIDE DEF m
  <2> QED BY <2>1, <2>2, <2>3, PrefixesAgree DEF m
<1>5. n + 1 \in 0 .. n + 1 /\ n + 1 # 0 /\ (n + 1) - 1 = n
  BY <1>1
<1>6. g[n + 1] = IF t[n + 1] \in K THEN Append(g[n], t[n + 1]) ELSE g[n]
  BY <1>3, <1>5, PrefixAt
<1>7. Retained(t, K) =
        IF e \in K THEN Append(Retained(s, K), e) ELSE Retained(s, K)
  BY <1>1, <1>2, <1>3, <1>4, <1>6, Zenon
<1> QED BY <1>7 DEF t

LEMMA RetainedTail ==
  ASSUME NEW S, NEW s \in Seq(S), s # << >>, NEW K
  PROVE  IF s[1] \in K
           THEN /\ Retained(s, K) # << >>
                /\ Retained(Tail(s), K) = Tail(Retained(s, K))
           ELSE Retained(Tail(s), K) = Retained(s, K)
<1> DEFINE t == Tail(s)
           N == Len(t)
<1>1. /\ t \in Seq(S) /\ N \in Nat /\ Len(s) = N + 1
      /\ \A i \in 1 .. N : t[i] = s[i + 1]
  BY HeadTailProperties, LenProperties, EmptySeq
<1>2. PICK f : RetainsUpTo(s, K, N + 1, f) /\ Retained(s, K) = f[N + 1]
  BY <1>1, RetainedIsPrefix
<1> HIDE DEF t
<1>3. PICK g : RetainsUpTo(t, K, N, g) /\ Retained(t, K) = g[N]
  BY <1>1, RetainedIsPrefix
<1> HIDE DEF N
<1> DEFINE Shifted(n) == IF s[1] \in K
                         THEN /\ f[n + 1] \in Seq(S) /\ f[n + 1] # << >>
                              /\ g[n] = Tail(f[n + 1])
                         ELSE g[n] = f[n + 1]
           P == {n \in Nat : n <= N => Shifted(n)}
<1>4. 0 \in P
  <2>1. f[0] = << >>
    <3>1. 0 \in 0 .. N + 1
      BY <1>1
    <3> QED BY <1>2, <3>1, PrefixAt
  <2>2. g[0] = << >>
    <3>1. 0 \in 0 .. N
      BY <1>1
    <3> QED BY <1>3, <3>1, PrefixAt
  <2>3. 1 \in 0 .. N + 1 /\ 1 # 0 /\ 1 - 1 = 0
    BY <1>1
  <2>4. f[1] = IF s[1] \in K THEN Append(<< >>, s[1]) ELSE << >>
    <3>1. f[1] = IF s[1] \in K THEN Append(f[1 - 1], s[1]) ELSE f[1 - 1]
      BY <1>2, <2>3, PrefixAt
    <3> QED BY <2>1, <2>3, <3>1
  <2>5. s[1] \in S /\ << >> \in Seq(S)
    BY <1>1, ElementOfSeq, EmptySeq
  <2>6. /\ Append(<< >>, s[1]) \in Seq(S) /\ Append(<< >>, s[1]) # << >>
        /\ Tail(Append(<< >>, s[1])) = << >>
    BY <2>5, AppendProperties, HeadTailAppend
  <2>7. Shifted(0)
    <3>1. 0 + 1 = 1
      OBVIOUS
    <3> QED BY <2>2, <2>4, <2>6, <3>1
  <2> QED BY <2>7
<1>5. ASSUME NEW n \in Nat, n \in P PROVE n + 1 \in P
  <2> SUFFICES ASSUME n + 1 <= N PROVE Shifted(n + 1)
    OBVIOUS
  <2>1. /\ n + 2 \in 0 .. N + 1 /\ n + 2 # 0 /\ (n + 2) - 1 = n + 1
        /\ n + 1 \in 0 .. N /\ n + 1 # 0 /\ (n + 1) - 1 = n
        /\ n + 1 \in 1 .. N /\ (n + 1) + 1 = n + 2
        /\ n + 2 \in 1 .. Len(s)
    BY <1>1
  <2> DEFINE x == s[n + 2]
  <2>2. x \in S /\ t[n + 1] = x
    BY <1>1, <2>1, ElementOfSeq
  <2>3. f[n + 2] = IF x \in K THEN Append(f[n + 1], x) ELSE f[n + 1]
    BY <1>2, <2>1, PrefixAt
  <2>4. g[n + 1] = IF x \in K THEN Append(g[n], x) ELSE g[n]
    BY <1>3, <2>1, <2>2, PrefixAt
  <2>5. Shifted(n)
    <3>1. n <= N
      BY <1>1
    <3> QED BY <1>5, <3>1
  <2> HIDE DEF x
  <2>6. CASE s[1] \in K
    <3>1. f[n + 1] \in Seq(S) /\ f[n + 1] # << >> /\ g[n] = Tail(f[n + 1])
      BY <2>5, <2>6
    <3>2. /\ Append(f[n + 1], x) \in Seq(S) /\ Append(f[n + 1], x) # << >>
          /\ Tail(Append(f[n + 1], x)) = Append(Tail(f[n + 1]), x)
      BY <2>2, <3>1, AppendProperties, HeadTailAppend
    <3> QED BY <2>1, <2>3, <2>4, <2>6, <3>1, <3>2
  <2>7. CASE s[1] \notin K
    BY <2>1, <2>3, <2>4, <2>5, <2>7
  <2> QED BY <2>6, <2>7
<1> HIDE DEF P
<1>6. N \in P
  BY <1>1, <1>4, <1>5, SetInduction
<1>7. Shifted(N)
  BY <1>1, <1>6 DEF P
<1> QED BY <1>2, <1>3, <1>7 DEF t

(* A set written out in some order. *)
LEMMA InSomeOrder ==
  ASSUME NEW S, IsFiniteSet(S), NEW s \in SetToSeqs(S)
  PROVE  s \in Seq(S) /\ Len(s) \in Nat /\ Range(s) = S
<1> DEFINE n == Cardinality(S)
<1>1. n \in Nat
  BY FS_CardinalityType
<1>2. /\ s \in [1 .. n -> S]
      /\ \A i, j \in 1 .. n : i # j => s[i] # s[j]
  BY DEF SetToSeqs
<1>3. IsFiniteSet(1 .. n) /\ Cardinality(1 .. n) = n
  BY <1>1, FS_Interval
<1> HIDE DEF n
<1>4. s \in Injection(1 .. n, S)
  BY <1>2 DEF Injection, IsInjective
<1>5. s \in Surjection(1 .. n, S)
  BY <1>3, <1>4, FS_Injection DEF n
<1>6. s \in Seq(S) /\ Len(s) = n
  BY <1>1, <1>2, SeqDef
<1>7. Range(s) = S
  BY <1>2, <1>5 DEF Surjection, Range
<1> QED BY <1>1, <1>6, <1>7

(* Vec::swap_remove: of the other entries each is still there, once. *)
LEMMA SwapRemoveKeepsOthers ==
  ASSUME NEW S, NEW q \in Seq(S), NEW i \in 1 .. Len(q), NEW r,
         r = SubSeq([q EXCEPT ![i] = q[Len(q)]], 1, Len(q) - 1)
  PROVE  /\ r \in Seq(S) /\ Len(r) = Len(q) - 1
         /\ \A j \in 1 .. Len(r) : r[j] = q[IF j = i THEN Len(q) ELSE j]
<1> DEFINE n == Len(q)
           e == q[n]
           swapped == [q EXCEPT ![i] = e]
<1>1. n \in Nat /\ n \in 1 .. n /\ e \in S
  BY LenProperties, ElementOfSeq
<1>2. /\ swapped \in Seq(S) /\ Len(swapped) = n
      /\ \A j \in 1 .. n : swapped[j] = IF j = i THEN e ELSE q[j]
  <2> HIDE DEF e
  <2> QED BY <1>1, ExceptSeq
<1>3. r = SubSeq(swapped, 1, n - 1)
  OBVIOUS
<1> HIDE DEF swapped
<1>4. \A j \in 1 .. n - 1 : swapped[j] \in S
  <2> SUFFICES ASSUME NEW j \in 1 .. n - 1 PROVE swapped[j] \in S
    OBVIOUS
  <2>1. j \in 1 .. Len(swapped)
    BY <1>1, <1>2
  <2> QED BY <1>2, <2>1, ElementOfSeq
<1> HIDE DEF n
<1>5. 1 \in Int /\ n - 1 \in Int
  BY <1>1
<1>6. /\ r \in Seq(S)
      /\ Len(r) = IF 1 <= n - 1 THEN n - 1 - 1 + 1 ELSE 0
      /\ \A j \in 1 .. n - 1 - 1 + 1 : r[j] = swapped[1 + j - 1]
  BY <1>3, <1>4, <1>5, SubSeqProperties
<1>7. Len(r) = n - 1
  BY <1>1, <1>6
<1>8. \A j \in 1 .. Len(r) : r[j] = IF j = i THEN e ELSE q[j]
  <2> SUFFICES ASSUME NEW j \in 1 .. Len(r) PROVE r[j] = IF j = i THEN e ELSE q[j]
    OBVIOUS
  <2>1. j \in 1 .. n /\ j \in 1 .. n - 1 - 1 + 1 /\ 1 + j - 1 = j
    BY <1>1, <1>7
  <2>2. r[j] = swapped[j]
    BY <1>6, <2>1
  <2> QED BY <1>2, <2>1, <2>2
<1> QED BY <1>6, <1>7, <1>8 DEF n

-----------------------------------------------------------------------------
(* Counting by lists. *)

(* Entries 1 .. n of f that name all of T: T has at most n members. *)
LEMMA ListedIsFinite ==
  ASSUME NEW n \in Nat, NEW f, NEW T, \A x \in T : \E i \in 1 .. n : f[i] = x
  PROVE  IsFiniteSet(T) /\ Cardinality(T) \in Nat /\ Cardinality(T) <= n
<1> DEFINE R == {f[i] : i \in 1 .. n}
           g == [i \in 1 .. n |-> f[i]]
<1>1. IsFiniteSet(1 .. n) /\ Cardinality(1 .. n) = n
  BY FS_Interval
<1>2. g \in Surjection(1 .. n, R)
  BY DEF Surjection
<1> HIDE DEF R, g
<1>3. IsFiniteSet(R) /\ Cardinality(R) <= n
  BY <1>1, <1>2, FS_Surjection
<1>4. T \in SUBSET R
  BY DEF R
<1>5. IsFiniteSet(T) /\ Cardinality(T) <= Cardinality(R)
  BY <1>3, <1>4, FS_Subset
<1>6. Cardinality(T) \in Nat /\ Cardinality(R) \in Nat
  BY <1>3, <1>5, FS_CardinalityType
<1> QED BY <1>3, <1>5, <1>6

(* Entries 1 .. n of f that differ and are in T: T has at least n members. *)
LEMMA DistinctAreCounted ==
  ASSUME NEW n \in Nat, NEW f, NEW T, IsFiniteSet(T),
         \A i \in 1 .. n : f[i] \in T,
         \A i, j \in 1 .. n : f[i] = f[j] => i = j
  PROVE  n <= Cardinality(T)
<1> DEFINE g == [i \in 1 .. n |-> f[i]]
<1>1. IsFiniteSet(1 .. n) /\ Cardinality(1 .. n) = n
  BY FS_Interval
<1>2. g \in Injection(1 .. n, T)
  BY DEF Injection, IsInjective
<1> HIDE DEF g
<1> QED BY <1>1, <1>2, FS_Injection

(* Of a list without repetitions, all entries but at most one differ from w:
   as many are kept. *)
LEMMA RetainedAllButOne ==
  ASSUME NEW S, NEW s \in Seq(S), NEW w,
         \A i, j \in 1 .. Len(s) : s[i] = s[j] => i = j
  PROVE  /\ Len(Retained(s, Range(s) \ {w})) >= Len(s) - 1
         /\ Len(Retained(s, Range(s) \ {w})) \in Nat
<1> DEFINE r == Retained(s, Range(s) \ {w})
           R == Range(s)
<1>1. /\ r \in Seq(S) /\ Range(r) = R \intersect (R \ {w})
      /\ Len(r) \in Nat /\ DOMAIN r = 1 .. Len(r)
      /\ Len(s) \in Nat /\ DOMAIN s = 1 .. Len(s)
  BY RetainedSources, RetainedRange, LenProperties
<1>2. \A x \in R : \E i \in 1 .. Len(s) : s[i] = x
  BY <1>1 DEF Range
<1>3. \A i \in 1 .. Len(s) : s[i] \in R
  BY <1>1 DEF Range
<1> HIDE DEF R, r
<1>4. IsFiniteSet(R) /\ Cardinality(R) \in Nat
  BY <1>1, <1>2, ListedIsFinite
<1>5. Len(s) <= Cardinality(R)
  BY <1>1, <1>3, <1>4, DistinctAreCounted
<1>6. Cardinality(R \ {w}) >= Cardinality(R) - 1 /\ Cardinality(R \ {w}) \in Nat
  BY <1>4, FS_RemoveElement, FS_CardinalityType
<1>7. Cardinality(R \ {w}) <= Len(r)
  <2>1. \A x \in R \ {w} : \E i \in 1 .. Len(r) : r[i] = x
    BY <1>1 DEF Range
  <2> QED BY <1>1, <2>1, ListedIsFinite
<1>8. Len(r) >= Len(s) - 1
  BY <1>1, <1>4, <1>5, <1>6, <1>7
<1> QED BY <1>1, <1>8 DEF r, R

-----------------------------------------------------------------------------
(* The MRU list, src/mru_jump.rs. *)

(* A transition keeps the list a list of at most cap entries, the new one
   first. *)
LEMMA RecordTransitionType ==
  ASSUME NEW S, NEW recent \in Seq(S), NEW w \in S, NEW cap \in Nat \ {0}
  PROVE  LET new == RecordTransition(recent, w, cap)
         IN /\ new \in Seq(S)
            /\ Len(new) \in 1 .. cap
            /\ new[1] = w
<1> DEFINE kept  == Retained(recent, Range(recent) \ {w})
           moved == <<w>> \o kept
           n == IF Len(moved) <= cap THEN Len(moved) ELSE cap
<1>1. kept \in Seq(S) /\ Len(kept) \in Nat
  BY RetainedSources, LenProperties
<1>2. <<w>> \in Seq(S) /\ Len(<<w>>) = 1 /\ <<w>>[1] = w
  OBVIOUS
<1>3. /\ moved \in Seq(S) /\ Len(moved) = 1 + Len(kept)
      /\ moved[1] = w
  <2> HIDE DEF kept
  <2> QED BY <1>1, <1>2, ConcatProperties
<1>4. RecordTransition(recent, w, cap) = SubSeq(moved, 1, n)
  BY DEF RecordTransition
<1> HIDE DEF moved, kept
<1>5. n \in 1 .. cap /\ n <= Len(moved)
  BY <1>1, <1>3
<1>6. \A i \in 1 .. n : moved[i] \in S
  BY <1>1, <1>3, <1>5, ElementOfSeq
<1> HIDE DEF n
<1>7. /\ SubSeq(moved, 1, n) \in Seq(S)
      /\ Len(SubSeq(moved, 1, n)) = n
      /\ SubSeq(moved, 1, n)[1] = moved[1]
  <2>1. 1 \in Int /\ n \in Int /\ 1 <= n
    BY <1>5
  <2>2. SubSeq(moved, 1, n) \in Seq(S) /\ Len(SubSeq(moved, 1, n)) = n - 1 + 1
    BY <1>6, <2>1, SubSeqProperties
  <2>3. \A i \in 1 .. n - 1 + 1 : SubSeq(moved, 1, n)[i] = moved[1 + i - 1]
    BY <1>6, <2>1, SubSeqProperties
  <2>4. 1 \in 1 .. n - 1 + 1 /\ 1 + 1 - 1 = 1
    BY <2>1
  <2> QED BY <1>5, <2>2, <2>3, <2>4
<1> QED BY <1>3, <1>4, <1>5, <1>7

(* Where the entries behind the new first one come from: from the old list, in
   its order, without the workspace that moved to the front; what is missing
   fell out at the end of a full list. *)
ComesFrom(r, recent, w, cap, from) ==
  /\ from \in [2 .. Len(r) -> 1 .. Len(recent)]
  /\ \A i \in 2 .. Len(r) : r[i] = recent[from[i]] /\ r[i] # w
  /\ \A i, j \in 2 .. Len(r) : i < j => from[i] < from[j]
  /\ \A k \in 1 .. Len(recent) : recent[k] # w =>
       \/ \E i \in 2 .. Len(r) : from[i] = k
       \/ Len(r) = cap /\ \A i \in 2 .. Len(r) : from[i] < k

LEMMA RecordTransitionSources ==
  ASSUME NEW S, NEW recent \in Seq(S), NEW w \in S, NEW cap \in Nat \ {0},
         \A i, j \in 1 .. Len(recent) : recent[i] = recent[j] => i = j,
         NEW r, r = RecordTransition(recent, w, cap)
  PROVE  /\ r \in Seq(S) /\ Len(r) \in 1 .. cap /\ r[1] = w
         /\ Len(r) = cap \/ Len(r) >= Len(recent)
         /\ \E from : ComesFrom(r, recent, w, cap, from)
<1> DEFINE K == Range(recent) \ {w}
           kept == Retained(recent, K)
           moved == <<w>> \o kept
           n == IF Len(moved) <= cap THEN Len(moved) ELSE cap
<1>1. r \in Seq(S) /\ Len(r) \in 1 .. cap /\ r[1] = w
  BY RecordTransitionType
<1>2. /\ kept \in Seq(S) /\ Len(kept) >= Len(recent) - 1
      /\ Len(kept) \in Nat /\ Len(recent) \in Nat
  BY RetainedSources, RetainedAllButOne, LenProperties
<1>3. PICK source : IsFrom(recent, K, kept, Len(recent), source)
  BY RetainedSources
<1>4. \A k \in 1 .. Len(recent) : recent[k] \in K <=> recent[k] # w
  BY LenProperties DEF Range
<1> HIDE DEF K
<1>5. <<w>> \in Seq(S) /\ Len(<<w>>) = 1 /\ <<w>>[1] = w
  OBVIOUS
<1>6. /\ moved \in Seq(S) /\ Len(moved) = 1 + Len(kept)
      /\ \A i \in 1 .. Len(kept) : moved[i + 1] = kept[i]
  <2> HIDE DEF kept
  <2> QED BY <1>2, <1>5, ConcatProperties
<1>7. r = SubSeq(moved, 1, n)
  BY DEF RecordTransition, K
<1> HIDE DEF moved, kept
<1>8. n \in 1 .. cap /\ n <= 1 + Len(kept) /\ (n = cap \/ n = 1 + Len(kept))
  BY <1>2, <1>6
<1>9. \A i \in 1 .. n : moved[i] \in S
  <2>1. n <= Len(moved) /\ Len(moved) \in Nat
    BY <1>2, <1>6, <1>8
  <2> QED BY <1>6, <1>8, <2>1, ElementOfSeq
<1> HIDE DEF n
<1>10. Len(r) = n /\ \A i \in 1 .. n : r[i] = moved[i]
  <2>1. 1 \in Int /\ n \in Int /\ 1 <= n
    BY <1>8
  <2>2. /\ Len(SubSeq(moved, 1, n)) = n - 1 + 1
        /\ \A i \in 1 .. n - 1 + 1 : SubSeq(moved, 1, n)[i] = moved[1 + i - 1]
    BY <1>9, <2>1, SubSeqProperties
  <2>3. n - 1 + 1 = n /\ \A i \in 1 .. n : 1 + i - 1 = i
    BY <2>1
  <2> QED BY <1>7, <2>2, <2>3
<1>11. \A i \in 2 .. n : r[i] = kept[i - 1] /\ i - 1 \in 1 .. Len(kept)
  <2> SUFFICES ASSUME NEW i \in 2 .. n
               PROVE  r[i] = kept[i - 1] /\ i - 1 \in 1 .. Len(kept)
    OBVIOUS
  <2>1. i - 1 \in 1 .. Len(kept) /\ (i - 1) + 1 = i /\ i \in 1 .. n
    BY <1>2, <1>8
  <2> QED BY <1>6, <1>10, <2>1
<1>12. Len(r) = cap \/ Len(r) >= Len(recent)
  BY <1>2, <1>8, <1>10
<1> DEFINE from == [i \in 2 .. n |-> source[i - 1]]
<1>13. ComesFrom(r, recent, w, cap, from)
  <2>1. from \in [2 .. Len(r) -> 1 .. Len(recent)]
    BY <1>3, <1>10, <1>11 DEF IsFrom
  <2>2. ASSUME NEW i \in 2 .. n PROVE r[i] = recent[from[i]] /\ r[i] # w
    <3>1. /\ i - 1 \in 1 .. Len(kept) /\ r[i] = kept[i - 1]
          /\ from[i] = source[i - 1]
      BY <1>11
    <3>2. /\ kept[i - 1] = recent[source[i - 1]]
          /\ source[i - 1] \in 1 .. Len(recent) /\ recent[source[i - 1]] \in K
      BY <1>3, <3>1 DEF IsFrom
    <3> QED BY <1>4, <3>1, <3>2
  <2>3. ASSUME NEW i \in 2 .. n, NEW j \in 2 .. n, i < j PROVE from[i] < from[j]
    <3>1. i - 1 \in 1 .. Len(kept) /\ j - 1 \in 1 .. Len(kept) /\ i - 1 < j - 1
      BY <1>8, <1>11, <2>3
    <3>2. source[i - 1] < source[j - 1]
      BY <1>3, <3>1 DEF IsFrom
    <3> QED BY <3>2
  <2>4. ASSUME NEW k \in 1 .. Len(recent), recent[k] # w
        PROVE  \/ \E i \in 2 .. Len(r) : from[i] = k
               \/ Len(r) = cap /\ \A i \in 2 .. Len(r) : from[i] < k
    <3>1. PICK j \in 1 .. Len(kept) : source[j] = k
      BY <1>3, <1>4, <2>4 DEF IsFrom
    <3>2. CASE j + 1 <= n
      <4>1. j + 1 \in 2 .. n /\ (j + 1) - 1 = j
        BY <1>2, <1>8, <3>2
      <4>2. from[j + 1] = k
        BY <3>1, <4>1
      <4> QED BY <1>10, <4>1, <4>2
    <3>3. CASE ~(j + 1 <= n)
      <4>1. n = cap
        BY <1>2, <1>8, <3>3
      <4>2. ASSUME NEW i \in 2 .. n PROVE from[i] < k
        <5>1. i - 1 \in 1 .. Len(kept) /\ i - 1 < j
          BY <1>2, <1>8, <3>3
        <5> QED BY <1>3, <3>1, <5>1 DEF IsFrom
      <4> QED BY <1>10, <4>1, <4>2
    <3> QED BY <3>2, <3>3
  <2> HIDE DEF from
  <2> QED BY <1>10, <2>1, <2>2, <2>3, <2>4 DEF ComesFrom
<1> QED BY <1>1, <1>12, <1>13

(* f is the function that RecordAll computes, after the first N transitions. *)
Records(recent, new, cap, N, f) ==
  f = [n \in 0 .. N |->
         IF n = 0 THEN recent
         ELSE RecordTransition(f[n - 1], new[n].workspace, cap)]

LEMMA RecordAt ==
  ASSUME NEW recent, NEW new, NEW cap, NEW N, NEW f,
         Records(recent, new, cap, N, f), NEW n \in 0 .. N
  PROVE  f[n] = IF n = 0 THEN recent
                ELSE RecordTransition(f[n - 1], new[n].workspace, cap)
BY Zenon DEF Records

LEMMA RecordsExist ==
  ASSUME NEW recent, NEW new, NEW cap, NEW N \in Nat
  PROVE  \E f : Records(recent, new, cap, N, f)
<1> DEFINE P == {n \in Nat : \E f : Records(recent, new, cap, n, f)}
<1>1. 0 \in P
  <2> DEFINE g == [n \in 0 .. 0 |-> recent]
  <2>1. Records(recent, new, cap, 0, g)
    BY DEF Records
  <2> QED BY <2>1
<1>2. ASSUME NEW n \in Nat, n \in P PROVE n + 1 \in P
  <2>1. PICK f : Records(recent, new, cap, n, f)
    BY <1>2
  <2> DEFINE g == [k \in 0 .. n + 1 |->
                     IF k = 0 THEN recent
                     ELSE RecordTransition(f[k - 1], new[k].workspace, cap)]
  <2>2. ASSUME NEW k \in 0 .. n PROVE g[k] = f[k]
    <3>1. k \in 0 .. n + 1
      OBVIOUS
    <3> QED BY <2>1, <3>1, RecordAt
  <2>3. ASSUME NEW k \in 0 .. n + 1
        PROVE  g[k] = IF k = 0 THEN recent
                      ELSE RecordTransition(g[k - 1], new[k].workspace, cap)
    <3>1. CASE k = 0
      BY <3>1
    <3>2. CASE k # 0
      <4>1. k - 1 \in 0 .. n
        BY <3>2
      <4>2. g[k - 1] = f[k - 1]
        BY <2>2, <4>1
      <4> QED BY <3>2, <4>2, Zenon
    <3> QED BY <3>1, <3>2
  <2>4. Records(recent, new, cap, n + 1, g)
    BY <2>3 DEF Records
  <2> QED BY <2>4
<1> HIDE DEF P
<1>3. N \in P
  BY <1>1, <1>2, SetInduction
<1> QED BY <1>3 DEF P

LEMMA RecordAllRecords ==
  ASSUME NEW recent, NEW new, NEW cap, Len(new) \in Nat
  PROVE  \E f : /\ Records(recent, new, cap, Len(new), f)
               /\ RecordAll(recent, new, cap) = f[Len(new)]
<1> DEFINE f == CHOOSE g : Records(recent, new, cap, Len(new), g)
<1>1. Records(recent, new, cap, Len(new), f)
  BY RecordsExist
<1>2. RecordAll(recent, new, cap) = f[Len(new)]
  BY DEF RecordAll, Records
<1> QED BY <1>1, <1>2

(* Any number of transitions leaves a list of at most cap entries. *)
LEMMA RecordAllType ==
  ASSUME NEW S, NEW recent \in Seq(S), NEW cap \in Nat \ {0},
         Len(recent) <= cap,
         NEW new, Len(new) \in Nat, \A i \in 1 .. Len(new) : new[i].workspace \in S
  PROVE  /\ RecordAll(recent, new, cap) \in Seq(S)
         /\ Len(RecordAll(recent, new, cap)) <= cap
<1>1. PICK f : /\ Records(recent, new, cap, Len(new), f)
               /\ RecordAll(recent, new, cap) = f[Len(new)]
  BY RecordAllRecords
<1> DEFINE P == {n \in Nat : n <= Len(new) =>
                   f[n] \in Seq(S) /\ Len(f[n]) <= cap}
<1>2. 0 \in P
  <2>1. 0 \in 0 .. Len(new)
    OBVIOUS
  <2>2. f[0] = recent
    BY <1>1, <2>1, RecordAt
  <2> QED BY <2>2
<1>3. ASSUME NEW n \in Nat, n \in P PROVE n + 1 \in P
  <2> SUFFICES ASSUME n + 1 <= Len(new)
               PROVE  f[n + 1] \in Seq(S) /\ Len(f[n + 1]) <= cap
    OBVIOUS
  <2>1. /\ n + 1 \in 0 .. Len(new) /\ n + 1 # 0 /\ (n + 1) - 1 = n
        /\ n + 1 \in 1 .. Len(new) /\ n <= Len(new)
    OBVIOUS
  <2>2. f[n + 1] = RecordTransition(f[n], new[n + 1].workspace, cap)
    BY <1>1, <2>1, RecordAt
  <2>3. f[n] \in Seq(S) /\ new[n + 1].workspace \in S
    BY <1>3, <2>1
  <2> QED BY <2>2, <2>3, RecordTransitionType
<1> HIDE DEF P
<1>4. Len(new) \in P
  BY <1>2, <1>3, SetInduction
<1> QED BY <1>1, <1>4 DEF P

(* The lowest coordinates, the lowest id breaking ties, of workspaces that are
   numbers with numbers as coordinates. *)
LEMMA LowestIsLowest ==
  ASSUME NEW S, S \subseteq Nat, S # {},
         NEW coordinates, \A x \in S : coordinates[x] \in Nat
  PROVE  /\ Lowest(S, coordinates) \in S
         /\ \A x \in S :
              LET w == Lowest(S, coordinates)
              IN \/ coordinates[w] < coordinates[x]
                 \/ coordinates[w] = coordinates[x] /\ w <= x
<1>1. PICK c \in {coordinates[x] : x \in S} :
        \A d \in {coordinates[x] : x \in S} : c <= d
  <2>1. {coordinates[x] : x \in S} \subseteq Nat /\ {coordinates[x] : x \in S} # {}
    OBVIOUS
  <2> QED BY <2>1, LeastExists
<1> DEFINE T == {x \in S : coordinates[x] = c}
<1>2. PICK w \in T : \A x \in T : w <= x
  <2>1. T \subseteq Nat /\ T # {}
    BY <1>1
  <2> HIDE DEF T
  <2> QED BY <2>1, LeastExists
<1>3. \A x \in S : \/ coordinates[w] < coordinates[x]
                   \/ coordinates[w] = coordinates[x] /\ w <= x
  <2> SUFFICES ASSUME NEW x \in S
               PROVE  \/ coordinates[w] < coordinates[x]
                      \/ coordinates[w] = coordinates[x] /\ w <= x
    OBVIOUS
  <2>1. c <= coordinates[x] /\ c \in Nat /\ coordinates[x] \in Nat
    BY <1>1
  <2>2. CASE coordinates[x] = c
    BY <1>2, <2>2
  <2>3. CASE coordinates[x] # c
    BY <1>2, <2>1, <2>3
  <2> QED BY <2>2, <2>3
<1>4. w \in S
  BY <1>2
<1> QED BY <1>3, <1>4, Zenon DEF Lowest

(* select_jump_target: none only if none is eligible; else the one that comes
   first in recent, or the lowest if none is in recent. *)
LEMMA SelectJumpTargetIsBest ==
  ASSUME NEW current, NEW members, NEW occupied, NEW coordinates,
         NEW recent, Len(recent) \in Nat,
         Eligible(current, members, occupied) \subseteq Nat,
         \A x \in Eligible(current, members, occupied) : coordinates[x] \in Nat
  PROVE  LET S == Eligible(current, members, occupied)
             seen == {i \in 1 .. Len(recent) : recent[i] \in S}
             target == SelectJumpTarget(current, members, occupied, recent,
                                        coordinates)
         IN /\ S = {} => target = NoWorkspace
            /\ S # {} => target \in S
            /\ seen # {} => \E i \in seen : /\ target = recent[i]
                                           /\ \A j \in seen : i <= j
            /\ seen = {} /\ S # {} => target = Lowest(S, coordinates)
<1> DEFINE S == Eligible(current, members, occupied)
           seen == {i \in 1 .. Len(recent) : recent[i] \in S}
           first == IF seen # {} THEN Min(seen) ELSE 0
<1>1. SelectJumpTarget(current, members, occupied, recent, coordinates) =
        IF first # 0 THEN recent[first]
        ELSE IF S # {} THEN Lowest(S, coordinates)
        ELSE NoWorkspace
  BY DEF SelectJumpTarget, SelectInSeq
<1> HIDE DEF S
<1>2. seen \subseteq Nat /\ 0 \notin seen
  OBVIOUS
<1>3. /\ first = 0 <=> seen = {}
      /\ seen # {} => first \in seen /\ \A j \in seen : first <= j
  BY <1>2, MinIsLeast
<1>4. S # {} => Lowest(S, coordinates) \in S
  BY LowestIsLowest DEF S
<1> HIDE DEF first
<1>5. seen # {} => recent[first] \in S
  BY <1>3
<1> QED BY <1>1, <1>3, <1>4, <1>5 DEF S

(* What a verdict on one workspace says. *)
LEMMA VerdictByCases ==
  ASSUME NEW w, NEW view, NEW recent
  PROVE  LET verdict == Verdict(w, view, recent)
         IN /\ verdict.kind \in {"NoOp", "Jump"}
            /\ verdict.kind = "Jump" <=>
                 /\ w \in view.active /\ w \notin view.occupied
                 /\ w \in DOMAIN view.group
                 /\ JumpFrom(w, view, recent) # NoWorkspace
            /\ verdict.kind = "Jump" =>
                 verdict = Jump(w, JumpFrom(w, view, recent))
BY DEF Verdict, NoOp, Jump

(* evaluate_trigger: the verdict on a workspace that calls for a jump, if any
   does. *)
LEMMA TriggerByCases ==
  ASSUME NEW closed, Len(closed) \in Nat, NEW view, NEW recent,
         closed = << >> <=> Len(closed) = 0
  PROVE  LET outcome == EvaluateTrigger(closed, view, recent)
             jumping == {i \in 1 .. Len(closed) :
                           Verdict(closed[i], view, recent).kind = "Jump"}
         IN /\ outcome.kind \in {"NoOp", "Jump"}
            /\ outcome.kind = "Jump" <=> jumping # {}
            /\ jumping # {} =>
                 \E i \in jumping : outcome = Verdict(closed[i], view, recent)
<1> DEFINE jumping == {i \in 1 .. Len(closed) :
                         Verdict(closed[i], view, recent).kind = "Jump"}
           first == IF jumping # {} THEN Min(jumping) ELSE 0
           outcome == EvaluateTrigger(closed, view, recent)
<1>1. outcome =
        IF closed = << >> THEN NoOp("NoWorkspace")
        ELSE IF first # 0 THEN Verdict(closed[first], view, recent)
        ELSE IF Len(closed) > 1 THEN NoOp("MultiWorkspaceNoMatch")
        ELSE Verdict(closed[1], view, recent)
  BY DEF EvaluateTrigger, SelectInSeq
<1>2. jumping \subseteq Nat /\ 0 \notin jumping
  OBVIOUS
<1>3. (first = 0 <=> jumping = {}) /\ (jumping # {} => first \in jumping)
  BY <1>2, MinIsLeast
<1> HIDE DEF first, outcome
<1>4. \A r : NoOp(r).kind = "NoOp"
  BY DEF NoOp
<1>5. CASE jumping # {}
  <2>1. closed # << >> /\ first # 0 /\ first \in jumping
    BY <1>3, <1>5
  <2>2. outcome = Verdict(closed[first], view, recent)
    BY <1>1, <2>1
  <2> QED BY <1>5, <2>1, <2>2 DEF outcome
<1>6. CASE jumping = {}
  <2>1. first = 0
    BY <1>3, <1>6
  <2>2. CASE closed # << >> /\ ~(Len(closed) > 1)
    <3>1. outcome = Verdict(closed[1], view, recent)
      BY <1>1, <2>1, <2>2
    <3>2. 1 \in 1 .. Len(closed)
      BY <2>2
    <3>3. Verdict(closed[1], view, recent).kind # "Jump"
      BY <1>6, <3>2
    <3>4. Verdict(closed[1], view, recent).kind \in {"NoOp", "Jump"}
      BY VerdictByCases
    <3> QED BY <1>6, <3>1, <3>3, <3>4 DEF outcome
  <2>3. CASE ~(closed # << >> /\ ~(Len(closed) > 1))
    <3>1. outcome.kind = "NoOp"
      BY <1>1, <1>4, <2>1, <2>3
    <3> QED BY <1>6, <3>1 DEF outcome
  <2> QED BY <2>2, <2>3
<1> QED BY <1>5, <1>6

-----------------------------------------------------------------------------
(* The placement policy, src/placement.rs and runtime.rs (evaluate_pending). *)

(* What evaluate_pending answers. *)
LEMMA EvaluatePendingIsSound ==
  ASSUME NEW before, NEW W, NEW cycles \in Nat, ListedRows(W)
  PROVE  LET answer_ == EvaluatePending(before, W, cycles)
             new == {i \in DOMAIN W : W[i].id \notin before}
         IN /\ answer_.kind = "UseNew" <=> new # {}
            /\ answer_.kind = "UseNew" => answer_.index \in new
            /\ answer_.kind = "DegradeAndWarn" =>
                 /\ cycles > 0
                 /\ answer_.index = 0 <=> \A i \in DOMAIN W : W[i].occupied
                 /\ answer_.index # 0 =>
                      answer_.index \in DOMAIN W /\ ~W[answer_.index].occupied
            /\ answer_.kind = "KeepWaiting" => cycles = 0
<1> DEFINE new  == {i \in 1 .. Len(W) : W[i].id \notin before}
           free == {i \in 1 .. Len(W) : ~W[i].occupied}
           firstNew  == IF new # {} THEN Min(new) ELSE 0
           firstFree == IF free # {} THEN Min(free) ELSE 0
<1>1. EvaluatePending(before, W, cycles) =
        IF firstNew # 0 THEN [kind |-> "UseNew", index |-> firstNew]
        ELSE IF Overdue(cycles)
               THEN [kind |-> "DegradeAndWarn", index |-> firstFree]
        ELSE [kind |-> "KeepWaiting", index |-> 0]
  BY DEF EvaluatePending, SelectInSeq
<1>2. Len(W) \in Nat /\ DOMAIN W = 1 .. Len(W)
      /\ \A i \in DOMAIN W : W[i].occupied \in BOOLEAN
  BY DEF ListedRows, Listed
<1>3. new \subseteq Nat /\ free \subseteq Nat /\ 0 \notin new /\ 0 \notin free
  BY <1>2
<1>4. (firstNew # 0 <=> new # {}) /\ (firstNew # 0 => firstNew \in new)
  BY <1>3, MinIsLeast
<1>5. (firstFree # 0 <=> free # {}) /\ (firstFree # 0 => firstFree \in free)
  BY <1>3, MinIsLeast
<1> HIDE DEF firstNew, firstFree
<1> QED BY <1>1, <1>2, <1>4, <1>5 DEF Overdue

(* select_group: a group that shows the override, if there is one, and else
   the one with the lowest id among those that show the window. *)
ListedGroups(groups) ==
  /\ Listed(groups)
  /\ \A i \in DOMAIN groups :
       groups[i].id \in Nat /\ ListedRows(groups[i].workspaces)

WellListed(groups) ==
  /\ ListedGroups(groups)
  /\ \A i, j \in DOMAIN groups : groups[i].id = groups[j].id => i = j

LEMMA OverrideIsFound ==
  ASSUME NEW config, NEW groups, Listed(groups)
  PROVE  LET over == {i \in DOMAIN groups :
                        config.workspace_output \in groups[i].outputs}
         IN /\ OverrideGroup(config, groups) = 0 <=> over = {}
            /\ over # {} => /\ OverrideGroup(config, groups) \in over
                            /\ \A j \in over : OverrideGroup(config, groups) <= j
<1> DEFINE over == {i \in 1 .. Len(groups) :
                      config.workspace_output \in groups[i].outputs}
<1>1. OverrideGroup(config, groups) = IF over # {} THEN Min(over) ELSE 0
  BY DEF OverrideGroup, SelectInSeq
<1>2. over \subseteq Nat /\ 0 \notin over
  BY DEF Listed
<1>3. over # {} => Min(over) \in over /\ \A j \in over : Min(over) <= j
  BY <1>2, MinIsLeast
<1>4. DOMAIN groups = 1 .. Len(groups)
  BY DEF Listed
<1> QED BY <1>1, <1>2, <1>3, <1>4

LEMMA BirthGroupIsLowest ==
  ASSUME NEW info, NEW groups, ListedGroups(groups)
  PROVE  LET own == {i \in DOMAIN groups :
                       groups[i].outputs \intersect info.outputs # {}}
         IN /\ BirthGroup(info, groups) = 0 <=> own = {}
            /\ own # {} =>
                 /\ BirthGroup(info, groups) \in own
                 /\ \A j \in own :
                      groups[BirthGroup(info, groups)].id <= groups[j].id
<1> DEFINE own == Candidates(info, groups)
           ids == {groups[i].id : i \in own}
<1>1. own = {i \in DOMAIN groups :
               groups[i].outputs \intersect info.outputs # {}}
  BY DEF Candidates
<1>2. \A i \in own : groups[i].id \in Nat /\ i # 0
  BY <1>1 DEF ListedGroups, Listed
<1>3. CASE own = {}
  BY <1>1, <1>3 DEF BirthGroup
<1>4. CASE own # {}
  <2>1. PICK least \in ids : \A n \in ids : least <= n
    BY <1>2, <1>4, LeastExists
  <2>2. \E i \in own : \A j \in own : groups[i].id <= groups[j].id
    BY <2>1
  <2>3. /\ BirthGroup(info, groups) \in own
        /\ \A j \in own : groups[BirthGroup(info, groups)].id <= groups[j].id
    <3>1. BirthGroup(info, groups) =
            CHOOSE i \in own : \A j \in own : groups[i].id <= groups[j].id
      BY <1>4 DEF BirthGroup
    <3> HIDE DEF own
    <3> QED BY <2>2, <3>1
  <2> QED BY <1>1, <1>2, <1>4, <2>3
<1> QED BY <1>3, <1>4

(* select_workspace takes the first free row, and skips only if none is. *)
LEMMA NextFreeIsFree ==
  ASSUME NEW W, ListedRows(W)
  PROVE  LET free == {i \in DOMAIN W : ~W[i].occupied}
         IN /\ NextFree(W).kind \in {"Skip", "Existing"}
            /\ NextFree(W).kind = "Skip" <=> free = {}
            /\ free # {} => \E i \in free : NextFree(W) = PlaceOn(W[i].id)
<1> DEFINE free  == {i \in 1 .. Len(W) : ~W[i].occupied}
           first == IF free # {} THEN Min(free) ELSE 0
<1>1. NextFree(W) = IF first = 0 THEN Skip("NoMatchingGroup")
                    ELSE PlaceOn(W[first].id)
  BY DEF NextFree, SelectInSeq
<1>2. free \subseteq Nat /\ 0 \notin free /\ DOMAIN W = 1 .. Len(W)
  BY DEF ListedRows, Listed
<1>3. (first = 0 <=> free = {}) /\ (free # {} => first \in free)
  BY <1>2, MinIsLeast
<1> HIDE DEF first
<1> QED BY <1>1, <1>2, <1>3 DEF Skip, PlaceOn

(* decide, case by case. *)
LEMMA DecideByCases ==
  ASSUME NEW config, NEW info, NEW groups, NEW handled, NEW toplevel
  PROVE  LET decision == Decide(config, info, groups, handled, toplevel)
             early == EarlySkip(config, info, handled, toplevel)
             g == SelectGroup(config, info, groups)
             fallback == IF FallsBack(config, groups)
                           THEN {"WorkspaceOutputFallback"} ELSE {}
         IN /\ early # "none" =>
                 decision.action.kind = "Skip" /\ decision.warns = {}
            /\ early = "none" /\ g = 0 =>
                 decision.action.kind = "Skip" /\ decision.warns = fallback
            /\ early = "none" /\ g # 0 =>
                 /\ decision.action = SelectWorkspace(config, groups[g])
                 /\ decision.warns = fallback \union
                      (IF Unsupported(config, groups[g])
                         THEN {"NewEachUnsupported"} ELSE {})
BY DEF Decide, Skip
=============================================================================
