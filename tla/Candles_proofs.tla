--------------------------- MODULE Candles_proofs ---------------------------
(***************************************************************************)
(* Theorems about Candles, for any readers, limits, histories and times.   *)
(***************************************************************************)
EXTENDS Candles, FiniteSetTheorems, SequenceTheorems, WellFoundedInduction, TLAPS

(* What a page says about the candles at times, and a scroll at the time end. *)

Listed(page) == {page.candles[i].time : i \in DOMAIN page.candles}

\* b is not after the candles that a page L for start k is about.
UpTo(a, k, L, b) ==
    IF k = First THEN \E u \in L : b <= u ELSE IF a = "crypto" THEN b < k ELSE b <= k

\* A page has everything from its start down to its nextDateTime.
PageIsContiguous(times, a, k, page) == LET L == Listed(page) IN
    /\ L \subseteq times
    /\ page.next # Null => L # {} /\ \A t \in L : page.next < t
    /\ k # First => \A t \in L : UpTo(a, k, L, t)
    /\ \A b \in times \ L : UpTo(a, k, L, b) =>
         IF page.next = Null THEN \A t \in L : b < t ELSE b <= page.next

\* A page that ends a scroll has everything from its start.
PageEnds(times, end, a, k, page) == LET L == Listed(page) IN
    page.next = Null /\ ~page.failed /\ (a = "stocks" => Roomy(times, end)) =>
        /\ k = First => L # {}
        /\ \A b \in times : UpTo(a, k, L, b) => b \in L

\* The part of ChangeIsAgainstPrevious that is about one page.
ChangesOf(times, a, page) ==
    a = "stocks" /\ page.whole =>
      \A i \in DOMAIN page.candles :
        \/ page.candles[i].against = Before(times, page.candles[i].time)
        \/ page.next = Null /\ i = Len(page.candles) /\ page.candles[i].against = Own

PageFits(times, end, a, k, page) ==
    /\ PageIsContiguous(times, a, k, page)
    /\ PageEnds(times, end, a, k, page)
    /\ ChangesOf(times, a, page)

\* Later candles do not change what a page for this start is about.
StartIsPast(end, k) == k = First \/ k < end

\* What a reader has is everything between its first request and its next one,
\* but for what it lost between pages.
ScrollFits(times, rd) ==
    /\ rd.key = First => rd.seen = {}
    /\ rd.key \notin {First, Null} => rd.seen # {}
    /\ rd.seen \subseteq times
    /\ \A t \in rd.seen : rd.key < t
    /\ \A b \in times \ (rd.seen \cup Lost(rd)), u \in rd.seen : b < u =>
         IF rd.key = Null THEN \A t \in rd.seen : b < t ELSE b <= rd.key

ScrollEnds(times, end, rd) ==
    rd.key = Null /\ ~rd.failed /\ (rd.asset = "stocks" => Roomy(times, end)) =>
        /\ rd.seen # {}
        /\ \A b \in times \ Lost(rd) : \E t \in rd.seen : t <= b

\* A request for coins has its start among the seams.
Asks(rd) ==
    /\ rd.key # Null
    /\ rd.asset = "crypto" => rd.key \in Lost(rd) \cup {First}

ReaderFits(times, end, rd) ==
    /\ StartIsPast(end, rd.key)
    /\ rd.asset = "stocks" => rd.limit \in Limits
    /\ rd.step # "idle" => Asks(rd)
    /\ rd.step = "store" => PageFits(times, end, rd.asset, rd.key, rd.page)
    /\ ScrollFits(times, rd)
    /\ ScrollEnds(times, end, rd)

IInv ==
    /\ TypeOK
    /\ bars # {}
    /\ \A k \in DOMAIN pages :
         StartIsPast(now, k[2]) /\ PageFits(bars, now, k[1], k[2], pages[k])
    /\ \A r \in Readers : ReaderFits(bars, now, reader[r])

-----------------------------------------------------------------------------
(* Sets of times *)

\* A set of times has a last one.
LEMMA HasMax ==
    ASSUME NEW n \in Nat, NEW S, \A x \in S : x \in 1 .. n, S # {}
    PROVE  Max(S) \in S /\ \A y \in S : y <= Max(S)
<1> DEFINE T == {n - x : x \in S}
<1>1. T \subseteq Nat /\ T # {}
  OBVIOUS
<1>2. \E m \in T : \A y \in T : ~(<<y, m>> \in OpToRel(<, Nat))
  BY <1>1, NatLessThanWellFounded, WFMin, Zenon
<1>3. PICK m \in T : \A y \in T : ~(y < m)
  BY <1>1, <1>2 DEF OpToRel
<1>4. PICK x \in S : m = n - x
  BY <1>3
<1>5. \A y \in S : y <= x
  <2> SUFFICES ASSUME NEW y \in S PROVE y <= x
    OBVIOUS
  <2>1. n - y \in T
    OBVIOUS
  <2> QED
    BY <1>3, <1>4, <2>1
<1>6. \E z \in S : \A y \in S : z >= y
  BY <1>5
<1>7. Max(S) \in S /\ \A y \in S : Max(S) >= y
  BY <1>6, Zenon DEF Max
<1> QED
  BY <1>7

\* How many times of T are later than t.
Later(T, t) == Cardinality({u \in T : u > t})

LEMMA LaterCounts ==
    ASSUME NEW n \in Nat, NEW T, \A t \in T : t \in 1 .. n
    PROVE  /\ IsFiniteSet(T)
           /\ Cardinality(T) \in Nat
           /\ \A t \in T : Later(T, t) \in 0 .. Cardinality(T) - 1
           /\ \A t, v \in T : t < v => Later(T, v) < Later(T, t)
<1>1. IsFiniteSet(T) /\ Cardinality(T) \in Nat
  <2>1. IsFiniteSet(1 .. n)
    BY FS_Interval
  <2> QED
    BY <2>1, FS_Subset, FS_CardinalityType
<1>2. ASSUME NEW A \in SUBSET T, NEW B \in SUBSET A, NEW x \in A, x \notin B
      PROVE  /\ Cardinality(A) \in Nat
             /\ Cardinality(B) \in Nat
             /\ Cardinality(B) < Cardinality(A)
  <2>1. IsFiniteSet(A)
    BY <1>1, FS_Subset
  <2>2. IsFiniteSet(B) /\ Cardinality(B) <= Cardinality(A) /\ Cardinality(A) # Cardinality(B)
    BY <1>2, <2>1, FS_Subset
  <2> QED
    BY <2>1, <2>2, FS_CardinalityType
<1>3. ASSUME NEW t \in T PROVE Later(T, t) \in 0 .. Cardinality(T) - 1
  <2>1. {u \in T : u > t} \in SUBSET T /\ t \notin {u \in T : u > t}
    OBVIOUS
  <2>2. Later(T, t) \in Nat /\ Later(T, t) < Cardinality(T)
    BY <1>2, <2>1 DEF Later
  <2> QED
    BY <1>1, <2>2
<1>4. ASSUME NEW t \in T, NEW v \in T, t < v PROVE Later(T, v) < Later(T, t)
  <2>1. \A u \in T : u \in Int
    OBVIOUS
  <2>2. /\ {u \in T : u > t} \in SUBSET T
        /\ {u \in T : u > v} \in SUBSET {u \in T : u > t}
        /\ v \in {u \in T : u > t}
        /\ v \notin {u \in T : u > v}
    BY <1>4, <2>1
  <2> QED
    BY <1>2, <2>2 DEF Later
<1> QED
  BY <1>1, <1>3, <1>4

\* Latest enumerates a set of times, from the last to the first.
LEMMA LatestSorts ==
    ASSUME NEW n \in Nat, NEW T, \A t \in T : t \in 1 .. n
    PROVE  /\ Latest(T) \in Seq(T)
           /\ Len(Latest(T)) = Cardinality(T)
           /\ Cardinality(T) \in Nat
           /\ \A i, j \in 1 .. Cardinality(T) : i < j => Latest(T)[i] > Latest(T)[j]
           /\ \A t \in T : \E i \in 1 .. Cardinality(T) : Latest(T)[i] = t
<1> DEFINE N == Cardinality(T)
           s == Latest(T)
           rank == [t \in T |-> Later(T, t) + 1]
<1>1. IsFiniteSet(T) /\ N \in Nat
  BY LaterCounts
<1>2. \A t \in T : Later(T, t) \in 0 .. N - 1
  BY LaterCounts
<1>3. \A t, v \in T : t < v => Later(T, v) < Later(T, t)
  BY LaterCounts
<1> HIDE DEF N
<1>4. rank \in Injection(T, 1 .. N)
  <2>1. rank \in [T -> 1 .. N]
    BY <1>1, <1>2
  <2>2. ASSUME NEW t \in T, NEW v \in T, rank[t] = rank[v] PROVE t = v
    <3>1. Later(T, t) = Later(T, v)
      BY <2>2, <1>2, <1>1
    <3>2. t \in Int /\ v \in Int
      OBVIOUS
    <3> QED
      BY <3>1, <3>2, <1>3, <1>2, <1>1
  <2> QED
    BY <2>1, <2>2 DEF Injection, IsInjective
<1>5. rank \in Surjection(T, 1 .. N)
  <2>1. IsFiniteSet(1 .. N) /\ Cardinality(1 .. N) = N
    BY <1>1, FS_Interval
  <2> QED
    BY <1>1, <1>4, <2>1, FS_Injection DEF N
<1>6. \A i \in 1 .. N : \E t \in T : Later(T, t) = i - 1
  <2> SUFFICES ASSUME NEW i \in 1 .. N PROVE \E t \in T : Later(T, t) = i - 1
    OBVIOUS
  <2>1. PICK t \in T : rank[t] = i
    BY <1>5 DEF Surjection
  <2> QED
    BY <2>1, <1>1, <1>2
<1>7. s = [i \in 1 .. N |-> CHOOSE t \in T : Later(T, t) = i - 1]
  BY DEF Latest, N, Later
<1> HIDE DEF s
<1>8. \A i \in 1 .. N : s[i] \in T /\ Later(T, s[i]) = i - 1
  BY <1>6, <1>7
<1>9. \A t \in T : s[Later(T, t) + 1] = t
  <2> SUFFICES ASSUME NEW t \in T PROVE s[Later(T, t) + 1] = t
    OBVIOUS
  <2> DEFINE i == Later(T, t) + 1
  <2>1. i \in 1 .. N
    BY <1>1, <1>2
  <2>2. s[i] \in T /\ Later(T, s[i]) = Later(T, t)
    BY <1>8, <2>1, <1>2
  <2>3. rank[s[i]] = rank[t]
    BY <2>2
  <2> QED
    BY <1>4, <2>2, <2>3 DEF Injection, IsInjective
<1>10. ASSUME NEW i \in 1 .. N, NEW j \in 1 .. N, i < j PROVE s[i] > s[j]
  <2>1. s[i] \in T /\ s[j] \in T /\ Later(T, s[i]) = i - 1 /\ Later(T, s[j]) = j - 1
    BY <1>8
  <2>2. s[i] \in Int /\ s[j] \in Int
    BY <2>1
  <2>3. s[i] # s[j]
    BY <2>1, <1>10
  <2>4. ~(s[i] < s[j])
    BY <2>1, <1>3, <1>10
  <2> QED
    BY <2>2, <2>3, <2>4
<1>11. s \in Seq(T) /\ Len(s) = N
  BY <1>1, <1>7, <1>8
<1>12. \A t \in T : Later(T, t) + 1 \in 1 .. N
  BY <1>1, <1>2
<1> QED
  BY <1>1, <1>9, <1>10, <1>11, <1>12 DEF N, s

-----------------------------------------------------------------------------
(* Division *)

LEMMA Quotient ==
    ASSUME NEW a \in Nat, NEW t \in Nat \ {0}
    PROVE  a \div t \in Nat /\ t * (a \div t) <= a /\ a < t * (a \div t) + t
OBVIOUS

LEMMA QuotientAtLeast ==
    ASSUME NEW a \in Nat, NEW b \in Int, NEW t \in Nat \ {0}, t * b <= a
    PROVE  b <= a \div t
OBVIOUS

LEMMA QuotientBelow ==
    ASSUME NEW a \in Nat, NEW b \in Int, NEW t \in Nat \ {0}, a < t * b
    PROVE  a \div t < b
OBVIOUS

-----------------------------------------------------------------------------
(* What Alpaca sends *)

\* s lists candles up to end, the latest first, and leaves none out.
Descends(s, end) ==
    /\ s \in Seq(bars)
    /\ \A i, j \in DOMAIN s : i < j => s[j] <= s[i]
    /\ \A i \in DOMAIN s : s[i] <= end
    /\ \A b \in bars, i \in DOMAIN s : s[i] < b /\ b <= end => \E j \in 1 .. (i - 1) : s[j] = b

\* A window has the candles from lo to end.
LEMMA LatestDescends ==
    ASSUME \A b \in bars : b \in Times, Horizon \in Nat, NEW lo \in Int, NEW end \in Int
    PROVE  LET T == {b \in bars : lo <= b /\ b <= end} IN
           /\ Descends(Latest(T), end)
           /\ \A i, j \in DOMAIN Latest(T) : i < j => Latest(T)[j] < Latest(T)[i]
           /\ \A i \in DOMAIN Latest(T) : Latest(T)[i] \in T
           /\ \A b \in T : \E i \in DOMAIN Latest(T) : Latest(T)[i] = b
<1> DEFINE T == {b \in bars : lo <= b /\ b <= end}
           s == Latest(T)
<1>1. \A t \in T : t \in 1 .. Horizon
  BY DEF Times
<1> HIDE DEF T
<1>2. /\ s \in Seq(T)
      /\ Len(s) = Cardinality(T)
      /\ Cardinality(T) \in Nat
      /\ \A i, j \in 1 .. Cardinality(T) : i < j => s[i] > s[j]
      /\ \A t \in T : \E i \in 1 .. Cardinality(T) : s[i] = t
  BY <1>1, LatestSorts
<1> HIDE DEF s
<1>3. DOMAIN s = 1 .. Cardinality(T)
  BY <1>2
<1>4. \A i \in DOMAIN s : s[i] \in T
  BY <1>2
<1>5. \A t \in T : t \in bars /\ t \in Int /\ lo <= t /\ t <= end
  BY <1>1 DEF T
<1>6. \A i \in DOMAIN s : s[i] \in bars /\ s[i] \in Int /\ lo <= s[i] /\ s[i] <= end
  BY <1>4, <1>5
<1>7. s \in Seq(bars)
  BY <1>2, <1>5
<1>8. \A i, j \in DOMAIN s : i < j => s[j] < s[i]
  BY <1>2, <1>3, <1>6
<1>9. ASSUME NEW b \in bars, NEW i \in DOMAIN s, s[i] < b, b <= end
      PROVE  \E j \in 1 .. (i - 1) : s[j] = b
  <2>1. b \in T
    BY <1>9, <1>6 DEF T, Times
  <2>2. PICK j \in 1 .. Cardinality(T) : s[j] = b
    BY <1>2, <2>1
  <2>3. ~(i < j) /\ i # j
    BY <1>3, <1>6, <1>8, <1>9, <2>2
  <2>4. i \in Nat /\ j \in Nat
    BY <1>2, <1>3, <2>2
  <2> QED
    BY <2>2, <2>3, <2>4
<1>10. Descends(s, end)
  BY <1>6, <1>7, <1>8, <1>9 DEF Descends
<1>11. \A b \in T : \E i \in DOMAIN s : s[i] = b
  BY <1>2, <1>3
<1> QED
  BY <1>4, <1>8, <1>10, <1>11 DEF s, T

LEMMA PrefixDescends ==
    ASSUME NEW s, NEW end, Descends(s, end), NEW n \in 0 .. Len(s)
    PROVE  /\ Descends(SubSeq(s, 1, n), end)
           /\ Len(SubSeq(s, 1, n)) = n
           /\ \A i \in 1 .. n : SubSeq(s, 1, n)[i] = s[i]
<1> DEFINE p == SubSeq(s, 1, n)
<1>1. s \in Seq(bars) /\ Len(s) \in Nat /\ DOMAIN s = 1 .. Len(s)
  BY DEF Descends
<1>2. \A i \in 1 .. n : s[i] \in bars
  BY <1>1
<1>3. p \in Seq(bars) /\ Len(p) = n /\ \A i \in 1 .. n : p[i] = s[i]
  BY <1>1, <1>2, SubSeqProperties
<1> HIDE DEF p
<1>4. DOMAIN p = 1 .. n
  BY <1>3
<1>5. \A i, j \in DOMAIN p : i < j => p[j] <= p[i]
  BY <1>1, <1>3, <1>4 DEF Descends
<1>6. \A i \in DOMAIN p : p[i] <= end
  BY <1>1, <1>3, <1>4 DEF Descends
<1>7. ASSUME NEW b \in bars, NEW i \in DOMAIN p, p[i] < b, b <= end
      PROVE  \E j \in 1 .. (i - 1) : p[j] = b
  <2>1. i \in DOMAIN s /\ s[i] < b
    BY <1>1, <1>3, <1>4, <1>7
  <2>2. PICK j \in 1 .. (i - 1) : s[j] = b
    BY <1>7, <2>1 DEF Descends
  <2>3. j \in 1 .. n
    BY <1>1, <1>4, <2>2
  <2> QED
    BY <1>3, <2>2, <2>3
<1>8. Descends(p, end)
  BY <1>3, <1>5, <1>6, <1>7 DEF Descends
<1> QED
  BY <1>3, <1>8 DEF p

\* Candles that are repeated leave none out either, and are more than asked for.
LEMMA RepeatedDescends ==
    ASSUME NEW limit \in Nat \ {0}, NEW window, NEW end, Descends(window, end),
           NEW k \in Nat \ {0}, NEW m \in Nat \ {0},
           k + m <= Len(window), k < ItemsToFetch(limit), \A b \in bars : b \in Int
    PROVE  /\ Descends(Repeated(limit, window, k, m), end)
           /\ Len(Repeated(limit, window, k, m)) > limit
<1> DEFINE times == ((ItemsToFetch(limit) - k) + m - 1) \div m
           s == Repeated(limit, window, k, m)
           f(i) == IF i <= k THEN i ELSE k + 1 + (i - k - 1) \div times
           n == k + m * times
<1>1. times \in Nat \ {0} /\ limit < n /\ n \in Nat
  <2> DEFINE a == (ItemsToFetch(limit) - k) + m - 1
  <2>1. a \in Nat /\ a = limit - k + m /\ m <= a
    BY DEF ItemsToFetch
  <2>2. times \in Nat /\ a < m * times + m
    BY <2>1, Quotient
  <2>3. 1 <= times
    BY <2>1, QuotientAtLeast
  <2> HIDE DEF times
  <2>4. m * times \in Nat
    BY <2>2
  <2> QED
    BY <2>1, <2>2, <2>3, <2>4
<1>2. s = [i \in 1 .. n |-> window[f(i)]]
  BY DEF Repeated
<1> HIDE DEF times, s
<1>3. window \in Seq(bars) /\ Len(window) \in Nat /\ DOMAIN window = 1 .. Len(window)
  BY DEF Descends
<1>4. ASSUME NEW i \in 1 .. n, i > k
      PROVE  /\ (i - k - 1) \div times \in 0 .. (m - 1)
             /\ i - k - 1 \in Nat
             /\ times * ((i - k - 1) \div times) <= i - k - 1
             /\ i - k - 1 < times * ((i - k - 1) \div times) + times
  <2>1. i - k - 1 \in Nat /\ i - k - 1 < times * m
    BY <1>1, <1>4
  <2>2. (i - k - 1) \div times < m
    BY <1>1, <2>1, QuotientBelow
  <2> QED
    BY <1>1, <2>1, <2>2, Quotient
<1>5. \A i \in 1 .. n : f(i) \in 1 .. (k + m) /\ f(i) \in DOMAIN window
  BY <1>1, <1>3, <1>4
<1>6. ASSUME NEW i \in 1 .. n, NEW j \in 1 .. n, i < j PROVE f(i) <= f(j)
  <2>1. CASE j <= k
    BY <1>1, <1>6, <2>1
  <2>2. CASE i <= k /\ j > k
    BY <1>1, <1>4, <2>2
  <2>3. CASE i > k
    <3> DEFINE q == (i - k - 1) \div times
    <3>1. j > k
      BY <1>1, <1>6, <2>3
    <3>2. q \in Nat /\ times * q <= i - k - 1 /\ j - k - 1 \in Nat
      BY <1>4, <2>3, <3>1
    <3>3. times * q <= j - k - 1
      BY <1>1, <1>6, <3>2
    <3>4. q <= (j - k - 1) \div times
      BY <1>1, <3>2, <3>3, QuotientAtLeast
    <3>5. (j - k - 1) \div times \in Nat
      BY <1>4, <3>1
    <3> QED
      BY <2>3, <3>1, <3>2, <3>4, <3>5
  <2> QED
    BY <1>1, <2>1, <2>2, <2>3
<1>7. ASSUME NEW i \in 1 .. n, NEW p \in 1 .. (f(i) - 1)
      PROVE  \E j \in 1 .. (i - 1) : f(j) = p
  <2>1. CASE p <= k
    <3>1. p \in 1 .. (i - 1)
      BY <1>1, <1>4, <1>5, <2>1
    <3> QED
      BY <2>1, <3>1
  <2>2. CASE p > k
    <3> DEFINE q == (i - k - 1) \div times
               r == p - k - 1
               j == k + 1 + times * r
    <3>1. i > k
      BY <1>1, <2>2
    <3>2. q \in Nat /\ times * q <= i - k - 1 /\ f(i) = k + 1 + q
      BY <1>4, <3>1
    <3>3. r \in Nat /\ r < q
      BY <1>5, <2>2, <3>2
    <3> HIDE DEF q, r
    <3>4. times * r \in Nat /\ times * r < times * q
      BY <1>1, <3>2, <3>3
    <3>5. j \in 1 .. (i - 1) /\ j > k /\ j - k - 1 = times * r
      <4> DEFINE u == times * r
                 v == times * q
      <4>1. u \in Nat /\ v \in Nat /\ u < v /\ v <= i - k - 1 /\ i \in Nat
        BY <1>1, <3>2, <3>4
      <4>2. j = k + 1 + u
        OBVIOUS
      <4> HIDE DEF u, v, j
      <4>3. j \in 1 .. (i - 1) /\ j > k /\ j - k - 1 = u
        BY <4>1, <4>2
      <4> QED
        BY <4>3 DEF u
    <3>6. (times * r) \div times = r
      <4>1. r <= (times * r) \div times
        BY <1>1, <3>3, <3>4, QuotientAtLeast
      <4>2. times * r < times * (r + 1)
        BY <1>1, <3>3
      <4>3. (times * r) \div times < r + 1
        BY <1>1, <3>3, <3>4, <4>2, QuotientBelow
      <4>4. (times * r) \div times \in Nat
        BY <1>1, <3>4, Quotient
      <4> QED
        BY <3>3, <4>1, <4>3, <4>4
    <3>7. f(j) = k + 1 + r
      BY <3>5, <3>6
    <3>8. k + 1 + r = p
      BY DEF r
    <3> QED
      BY <3>5, <3>7, <3>8
  <2> QED
    BY <1>5, <2>1, <2>2
<1> HIDE DEF f, n
<1>8. s \in Seq(bars) /\ Len(s) = n /\ DOMAIN s = 1 .. n /\ \A i \in 1 .. n : s[i] = window[f(i)]
  BY <1>1, <1>2, <1>3, <1>5
<1>9. \A i, j \in DOMAIN s : i < j => s[j] <= s[i]
  <2> SUFFICES ASSUME NEW i \in 1 .. n, NEW j \in 1 .. n, i < j
               PROVE  window[f(j)] <= window[f(i)]
    BY <1>8
  <2>1. f(i) \in Nat /\ f(j) \in Nat /\ f(i) <= f(j) /\ f(i) \in DOMAIN window /\ f(j) \in DOMAIN window
    BY <1>3, <1>5, <1>6
  <2>2. CASE f(i) < f(j)
    BY <2>1, <2>2 DEF Descends
  <2>3. CASE f(i) = f(j)
    <3>1. window[f(i)] \in bars
      BY <1>3, <2>1
    <3> QED
      BY <2>3, <3>1
  <2> QED
    BY <2>1, <2>2, <2>3
<1>10. \A i \in DOMAIN s : s[i] <= end
  BY <1>5, <1>8 DEF Descends
<1>11. ASSUME NEW b \in bars, NEW i \in DOMAIN s, s[i] < b, b <= end
       PROVE  \E j \in 1 .. (i - 1) : s[j] = b
  <2>1. f(i) \in DOMAIN window /\ window[f(i)] < b
    BY <1>5, <1>8, <1>11
  <2>2. PICK p \in 1 .. (f(i) - 1) : window[p] = b
    BY <1>11, <2>1 DEF Descends
  <2>3. PICK j \in 1 .. (i - 1) : f(j) = p
    BY <1>7, <1>8, <2>2
  <2>4. j \in 1 .. n
    BY <1>1, <1>8, <2>3
  <2> QED
    BY <1>8, <2>2, <2>3, <2>4
<1> QED
  BY <1>1, <1>8, <1>9, <1>10, <1>11 DEF Descends, s, n

-----------------------------------------------------------------------------
(* Pages *)

\* What the lemmas about pages need of the types.
Clock == now \in 0 .. Horizon /\ bars \in SUBSET Times /\ \A b \in bars : b \in Int /\ b <= now

\* The candle before one that there is.
LEMMA BeforeIs ==
    ASSUME Clock, NEW t \in Int
    PROVE  /\ Before(bars, t) \in Times \cup {Own}
           /\ Before(bars, t) = Own => \A b \in bars : b >= t
           /\ Before(bars, t) # Own =>
                /\ Before(bars, t) \in bars
                /\ Before(bars, t) < t
                /\ \A b \in bars : b < t => b <= Before(bars, t)
<1> DEFINE older == {b \in bars : b < t}
<1>1. Horizon \in Nat /\ \A b \in older : b \in 1 .. Horizon
  BY CandlesAssumption DEF Clock, CandlesAssumption, Times
<1>2. \A b \in older : b \in bars /\ b \in Times /\ b < t
  BY DEF Clock
<1>3. \A b \in bars : b \in Int /\ b >= 1
  BY <1>1 DEF Clock, Times
<1>4. Before(bars, t) = IF older = {} THEN Own ELSE Max(older)
  BY DEF Before
<1>5. \A b \in bars : b < t => b \in older
  OBVIOUS
<1> HIDE DEF older
<1>6. CASE older = {}
  BY <1>3, <1>4, <1>5, <1>6
<1>7. CASE older # {}
  <2>1. Max(older) \in older /\ \A b \in older : b <= Max(older)
    BY <1>1, <1>7, HasMax
  <2>2. Max(older) # Own
    BY <1>2, <1>3, <2>1 DEF Own
  <2> QED
    BY <1>2, <1>4, <1>5, <1>7, <2>1, <2>2
<1> QED
  BY <1>6, <1>7

\* The page that getCandles of AlpacaStockProvider makes of what was sent.
LEMMA StockPageFits ==
    ASSUME Clock, NEW k \in 0 .. First, NEW limit \in Nat \ {0},
           NEW times, Descends(times, EffectiveEnd(k)), NEW whole \in BOOLEAN
    PROVE  LET page == StockPage(limit, times, whole) IN
           /\ page \in Page
           /\ ~page.failed
           /\ page.whole = whole
           /\ PageIsContiguous(bars, "stocks", k, page)
           /\ page.next = Null => Len(times) <= limit /\ \A i \in DOMAIN times : times[i] \in Listed(page)
           /\ whole /\ (\A i, j \in DOMAIN times : i < j => times[j] < times[i]) => ChangesOf(bars, "stocks", page)
<1> DEFINE page == StockPage(limit, times, whole)
           end == EffectiveEnd(k)
           n == Len(times)
           c == IF n < limit THEN n ELSE limit
           data == SubSeq(times, 1, c)
           all == AddChangePercentage(times)
           L == Listed(page)
<1>1. times \in Seq(bars) /\ n \in Nat /\ DOMAIN times = 1 .. n /\ \A i \in 1 .. n : times[i] \in bars
  BY DEF Descends
<1>2. Horizon \in Nat /\ \A b \in bars : b \in Int /\ 1 <= b /\ b <= Horizon /\ b \in Times
  BY CandlesAssumption DEF Clock, CandlesAssumption, Times
<1>3. /\ end \in Int
      /\ \A b \in bars : k = First => b <= end
      /\ k # First => end = k
  BY <1>2 DEF EffectiveEnd, Clock, First
<1>4. c \in 0 .. n /\ c <= limit /\ c \in Nat /\ (n <= limit => c = n) /\ (n > limit => c = limit)
  <2>1. n \in Nat
    BY <1>1
  <2> HIDE DEF n
  <2> QED
    BY <2>1
<1>5. Descends(data, end) /\ Len(data) = c /\ \A i \in 1 .. c : data[i] = times[i]
  BY <1>4, PrefixDescends
<1>6. /\ all = [i \in 1 .. n |-> [time |-> times[i], against |-> IF i < n THEN times[i + 1] ELSE Own]]
      /\ \A i \in 1 .. n : all[i] \in Candle
  <2>1. \A i \in 1 .. n : i < n => times[i + 1] \in Times
    BY <1>1, <1>2
  <2>2. \A i \in 1 .. n : times[i] \in Times
    BY <1>1, <1>2
  <2> QED
    BY <2>1, <2>2 DEF AddChangePercentage, Candle
<1>7. /\ page.candles \in Seq(Candle)
      /\ Len(page.candles) = c
      /\ \A i \in 1 .. c : page.candles[i] = all[i]
  <2>1. page.candles = SubSeq(all, 1, c)
    BY <1>5 DEF StockPage
  <2>2. \A i \in 1 .. c : all[i] \in Candle
    BY <1>4, <1>6
  <2> HIDE DEF all, c
  <2> QED
    BY <1>4, <2>1, <2>2, SubSeqProperties
<1>8. /\ page.next = IF n > limit THEN times[c] - 1 ELSE Null
      /\ page.whole = whole
      /\ page.failed = FALSE
      /\ page = [candles |-> page.candles, next |-> page.next, whole |-> page.whole, failed |-> page.failed]
  <2>1. page = [candles |-> SubSeq(all, 1, Len(data)),
                next |-> IF n > limit THEN data[Len(data)] - 1 ELSE Null,
                whole |-> whole, failed |-> FALSE]
    BY DEF StockPage, Last
  <2>2. n > limit => c \in 1 .. c
    BY <1>4
  <2> HIDE DEF page, data, all, c, n
  <2> QED
    BY <1>5, <2>1, <2>2
<1> HIDE DEF page, data, all
<1>9. DOMAIN page.candles = 1 .. c
  BY <1>4, <1>7
<1> HIDE DEF c, n
<1>10. \A i \in 1 .. c :
         /\ page.candles[i].time = times[i]
         /\ page.candles[i].against = IF i < n THEN times[i + 1] ELSE Own
  <2> SUFFICES ASSUME NEW i \in 1 .. c
               PROVE  /\ page.candles[i].time = times[i]
                      /\ page.candles[i].against = IF i < n THEN times[i + 1] ELSE Own
    OBVIOUS
  <2>1. i \in 1 .. n
    BY <1>1, <1>4
  <2>2. page.candles[i] = [time |-> times[i], against |-> IF i < n THEN times[i + 1] ELSE Own]
    BY <1>6, <1>7, <2>1
  <2> QED
    BY <2>2
<1>11. L = {times[i] : i \in 1 .. c}
  BY <1>9, <1>10 DEF Listed
<1> HIDE DEF end
<1>12. n > limit => c \in 1 .. n /\ times[c] \in bars
  BY <1>1, <1>4
<1>13. page.next \in {Null} \cup 0 .. Horizon /\ (page.next = Null <=> n <= limit)
  BY <1>1, <1>2, <1>8, <1>12 DEF Null
<1>14. page \in Page
  BY <1>7, <1>8, <1>13 DEF Page
<1>15. \A i \in 1 .. c : times[i] \in bars /\ times[i] \in Int /\ times[i] <= end
  BY <1>1, <1>2, <1>4 DEF Descends, end
<1>16. PageIsContiguous(bars, "stocks", k, page)
  <2>1. L \subseteq bars
    BY <1>11, <1>15
  <2>2. ASSUME page.next # Null PROVE L # {} /\ \A t \in L : page.next < t
    <3>1. n > limit /\ page.next = times[c] - 1 /\ c \in 1 .. n
      BY <1>1, <1>8, <1>12, <1>13, <2>2
    <3>2. \A i \in 1 .. c : times[c] <= times[i]
      <4> SUFFICES ASSUME NEW i \in 1 .. c PROVE times[c] <= times[i]
        OBVIOUS
      <4>1. i \in 1 .. n /\ i <= c
        BY <1>1, <1>4, <3>1
      <4>2. CASE i < c
        BY <1>1, <3>1, <4>1, <4>2 DEF Descends
      <4>3. CASE i = c
        BY <1>15, <4>3
      <4> QED
        BY <1>4, <4>1, <4>2, <4>3
    <3>3. c \in 1 .. c /\ times[c] \in Int
      BY <1>4, <1>15, <3>1
    <3> QED
      BY <1>11, <1>15, <3>1, <3>2, <3>3
  <2>3. k # First => \A t \in L : UpTo("stocks", k, L, t)
    BY <1>3, <1>11, <1>15 DEF UpTo
  <2>4. ASSUME NEW b \in bars \ L, UpTo("stocks", k, L, b)
        PROVE  IF page.next = Null THEN \A t \in L : b < t ELSE b <= page.next
    <3>1. b \in Int /\ b <= end
      BY <1>2, <1>3, <2>4 DEF UpTo
    <3>2. \A i \in 1 .. c : b < times[i]
      <4> SUFFICES ASSUME NEW i \in 1 .. c, times[i] <= b PROVE FALSE
        BY <1>15, <3>1
      <4>1. times[i] # b
        BY <1>11, <2>4
      <4>2. i \in 1 .. n /\ times[i] < b
        BY <1>1, <1>4, <1>15, <3>1, <4>1
      <4>3. PICK j \in 1 .. (i - 1) : times[j] = b
        BY <1>1, <3>1, <4>2 DEF Descends, end
      <4>4. j \in 1 .. c
        BY <1>4, <4>3
      <4> QED
        BY <1>11, <2>4, <4>3, <4>4
    <3>3. CASE page.next = Null
      BY <1>11, <3>2, <3>3
    <3>4. CASE page.next # Null
      <4>1. page.next = times[c] - 1 /\ c \in 1 .. c /\ times[c] \in Int
        BY <1>1, <1>2, <1>4, <1>8, <1>12, <1>13, <3>4
      <4>2. b < times[c]
        BY <3>2, <4>1
      <4> QED
        BY <3>1, <3>4, <4>1, <4>2
    <3> QED
      BY <3>3, <3>4
  <2> QED
    BY <2>1, <2>2, <2>3, <2>4 DEF PageIsContiguous
<1>17. page.next = Null => n <= limit /\ \A i \in DOMAIN times : times[i] \in L
  BY <1>1, <1>4, <1>11, <1>13
<1>18. ASSUME whole, \A i, j \in DOMAIN times : i < j => times[j] < times[i]
       PROVE  ChangesOf(bars, "stocks", page)
  <2> SUFFICES ASSUME NEW i \in 1 .. c
               PROVE  \/ page.candles[i].against = Before(bars, page.candles[i].time)
                      \/ page.next = Null /\ i = Len(page.candles) /\ page.candles[i].against = Own
    BY <1>9 DEF ChangesOf
  <2>1. CASE i < n
    <3> DEFINE b == Before(bars, times[i])
    <3>1. i \in 1 .. n /\ i + 1 \in 1 .. n /\ i \in Nat
      BY <1>1, <1>4, <2>1
    <3>2. times[i + 1] \in bars /\ times[i] \in Int /\ times[i + 1] < times[i]
      BY <1>1, <1>2, <1>18, <3>1
    <3>3. b \in bars /\ b < times[i] /\ times[i + 1] <= b
      BY <1>2, <3>2, BeforeIs
    <3> HIDE DEF b
    <3>4. ~(times[i + 1] < b)
      <4> SUFFICES ASSUME times[i + 1] < b PROVE FALSE
        OBVIOUS
      <4>1. b <= end
        BY <1>2, <1>3, <1>15, <3>3
      <4>2. PICK j \in 1 .. ((i + 1) - 1) : times[j] = b
        BY <1>1, <3>1, <3>3, <4>1 DEF Descends, end
      <4>3. j \in 1 .. n /\ j \in Nat /\ (j < i \/ j = i)
        BY <1>1, <3>1, <4>2
      <4>4. CASE j < i
        <5>1. times[i] < times[j]
          BY <1>1, <1>18, <3>1, <4>3, <4>4
        <5> QED
          BY <1>2, <3>2, <3>3, <4>2, <5>1
      <4>5. CASE j = i
        BY <1>2, <3>2, <3>3, <4>2, <4>5
      <4> QED
        BY <4>3, <4>4, <4>5
    <3>5. times[i + 1] = b
      BY <1>2, <3>2, <3>3, <3>4
    <3> QED
      BY <1>10, <2>1, <3>5 DEF b
  <2>2. CASE ~(i < n)
    <3>1. i = n /\ i = c /\ n <= limit
      BY <1>1, <1>4, <2>2
    <3> QED
      BY <1>7, <1>10, <1>13, <2>2, <3>1
  <2> QED
    BY <2>1, <2>2
<1> QED
  BY <1>8, <1>14, <1>16, <1>17, <1>18 DEF page, n

-----------------------------------------------------------------------------
(* The window *)

LEMMA DurationIs ==
    ASSUME NEW limit \in Nat
    PROVE  /\ PeriodMs \in Nat \ {0}
           /\ Duration(limit) \in Nat
           /\ \A x \in Int : x <= Duration(limit) <=> 2 * x <= 3 * (limit + 1) * PeriodMs
<1> DEFINE a == ItemsToFetch(limit) * PeriodMs * 3
<1>1. PeriodMs \in Nat \ {0}
  BY CandlesAssumption DEF CandlesAssumption, PeriodMs
<1>2. a \in Nat /\ a = 3 * (limit + 1) * PeriodMs
  BY <1>1 DEF ItemsToFetch
<1>3. Duration(limit) = a \div 2
  BY DEF Duration
<1> HIDE DEF a
<1>4. a \div 2 \in Nat /\ 2 * (a \div 2) <= a /\ a < 2 * (a \div 2) + 2
  BY <1>2, Quotient
<1> QED
  BY <1>1, <1>2, <1>3, <1>4

\* A window with no more candles than were asked for has all that there are, if
\* the history is Roomy: the window is what Roomy calls near.
LEMMA WindowReachesBack ==
    ASSUME Clock, Roomy(bars, now), NEW k \in 0 .. First, StartIsPast(now, k), NEW limit \in Limits,
           Len(Window(limit, k)) <= limit
    PROVE  \A b \in bars : b <= EffectiveEnd(k) =>
             \E i \in DOMAIN Window(limit, k) : Window(limit, k)[i] = b
<1> DEFINE end == EffectiveEnd(k)
           lo == end - Duration(limit)
           T == {b \in bars : lo <= b /\ b <= end}
           past == {t \in bars : t <= end}
           near == {t \in past : 2 * (end - t) <= 3 * (limit + 1) * PeriodMs}
<1>1. /\ Horizon \in Nat /\ now \in Nat /\ limit \in Nat
      /\ \A b \in bars : b \in Int /\ b \in Times /\ b \in 1 .. Horizon
  BY CandlesAssumption DEF Clock, CandlesAssumption, Times
<1>2. end \in 0 .. now
  BY <1>1 DEF EffectiveEnd, StartIsPast, First
<1>3. near = past \/ Cardinality(near) > limit
  BY <1>2 DEF Roomy
<1>4. Duration(limit) \in Nat /\ \A x \in Int : x <= Duration(limit) <=> 2 * x <= 3 * (limit + 1) * PeriodMs
  BY <1>1, DurationIs
<1>5. end \in Int /\ lo \in Int
  BY <1>1, <1>2, <1>4
<1>6. \A b \in bars : lo <= b <=> end - b <= Duration(limit)
  <2> SUFFICES ASSUME NEW b \in bars PROVE end - Duration(limit) <= b <=> end - b <= Duration(limit)
    OBVIOUS
  <2>1. b \in Int /\ Duration(limit) \in Int
    BY <1>1, <1>4
  <2> HIDE DEF end
  <2> QED
    BY <1>5, <2>1
<1>7. \A b \in bars : lo <= b <=> 2 * (end - b) <= 3 * (limit + 1) * PeriodMs
  <2> SUFFICES ASSUME NEW b \in bars
               PROVE  lo <= b <=> 2 * (end - b) <= 3 * (limit + 1) * PeriodMs
    OBVIOUS
  <2> HIDE DEF end, lo
  <2>1. end - b \in Int
    BY <1>1, <1>5
  <2>2. end - b <= Duration(limit) <=> 2 * (end - b) <= 3 * (limit + 1) * PeriodMs
    BY <1>4, <2>1
  <2> QED
    BY <1>6, <2>2 DEF end, lo
<1>8. near = T
  BY <1>7
<1>9. Window(limit, k) = Latest(T)
  BY DEF Window
<1>10. past = {t \in bars : t <= end} /\ near = T
  BY <1>8
<1> HIDE DEF end, lo
<1>11. \A t \in T : t \in 1 .. Horizon
  BY <1>1
<1> HIDE DEF T, near, past
<1>12. /\ Latest(T) \in Seq(T) /\ Len(Latest(T)) = Cardinality(T)
       /\ \A t \in T : \E i \in 1 .. Cardinality(T) : Latest(T)[i] = t
       /\ Cardinality(T) \in Nat
  BY <1>1, <1>11, LatestSorts
<1>13. T = past
  BY <1>1, <1>3, <1>8, <1>9, <1>12
<1>14. DOMAIN Latest(T) = 1 .. Cardinality(T)
  BY <1>12
<1>15. \A b \in bars : b <= end => b \in T
  BY <1>13, <1>10
<1>16. \A b \in bars : b <= end => \E i \in DOMAIN Latest(T) : Latest(T)[i] = b
  BY <1>12, <1>14, <1>15
<1> QED
  BY <1>9, <1>16 DEF end

-----------------------------------------------------------------------------
(* The answers of the providers *)

\* What a page is about is not after now.
LEMMA UpToIsPast ==
    ASSUME Clock, NEW k \in 0 .. First, NEW L \in SUBSET bars, NEW b \in bars, UpTo("stocks", k, L, b)
    PROVE  b <= EffectiveEnd(k)
BY DEF Clock, UpTo, EffectiveEnd

\* A page of Alpaca has no more candles than it was asked for.
AtMostAsked(limit, n) == IF n < ItemsToFetch(limit) THEN n ELSE ItemsToFetch(limit)

LEMMA AtMostAskedIs ==
    ASSUME NEW limit \in Nat \ {0}, NEW n \in Nat
    PROVE  /\ AtMostAsked(limit, n) \in 0 .. n
           /\ AtMostAsked(limit, n) \in Nat
           /\ AtMostAsked(limit, n) <= limit + 1
           /\ AtMostAsked(limit, n) <= limit => AtMostAsked(limit, n) = n
BY DEF AtMostAsked, ItemsToFetch

LEMMA StockPagesFit ==
    ASSUME Clock, bars # {}, NEW k \in 0 .. First, StartIsPast(now, k),
           NEW limit \in Limits, NEW page \in StockPages(limit, k)
    PROVE  page \in Page /\ PageFits(bars, now, "stocks", k, page)
<1> DEFINE end == EffectiveEnd(k)
           lo == end - Duration(limit)
           window == Window(limit, k)
           n == Len(window)
           sent == AtMostAsked(limit, n)
<1>1. /\ Horizon \in Nat /\ now \in Nat /\ limit \in Nat \ {0} /\ limit \in Nat
      /\ \A b \in bars : b \in Int /\ b \in Times
  BY CandlesAssumption DEF Clock, CandlesAssumption
<1>2. end \in Int /\ lo \in Int
  <2>1. end \in Int
    BY <1>1 DEF EffectiveEnd, First
  <2>2. Duration(limit) \in Int
    BY <1>1, DurationIs
  <2> HIDE DEF end
  <2> QED
    BY <2>1, <2>2
<1>3. /\ Descends(window, end)
      /\ \A i, j \in DOMAIN window : i < j => window[j] < window[i]
  BY <1>1, <1>2, LatestDescends DEF Window
<1>4. Len(window) \in Nat /\ DOMAIN window = 1 .. Len(window)
  BY <1>3 DEF Descends
<1>5. /\ sent \in 0 .. Len(window) /\ sent \in Nat /\ sent <= limit + 1
      /\ sent <= limit => sent = Len(window)
  BY <1>1, <1>4, AtMostAskedIs
<1>6. n \in Nat /\ sent <= n /\ \A i \in 1 .. sent : i \in DOMAIN window
  <2>1. n \in Nat /\ sent \in 0 .. n
    BY <1>1, <1>4, AtMostAskedIs
  <2> HIDE DEF sent, n
  <2>2. \A i \in 1 .. sent : i \in 1 .. n
    BY <2>1
  <2>3. DOMAIN window = 1 .. n
    BY <1>4 DEF n
  <2> QED
    BY <2>1, <2>2, <2>3
<1>7. \/ page = StockPage(limit, SubSeq(window, 1, sent), TRUE)
      \/ \E l \in 1 .. (sent - 1) : \E m \in 1 .. AtMostAsked(limit, n - l) :
           page = StockPage(limit, Repeated(limit, window, l, m), FALSE)
  <2>1. \/ page \in {StockPage(limit, SubSeq(window, 1, sent), TRUE)}
        \/ page \in UNION {{StockPage(limit, Repeated(limit, window, l, m), FALSE)
                              : m \in 1 .. AtMostAsked(limit, n - l)} : l \in 1 .. (sent - 1)}
    BY DEF StockPages, AtMostAsked
  <2> HIDE DEF sent, window, n
  <2>2. CASE page \in UNION {{StockPage(limit, Repeated(limit, window, l, m), FALSE)
                                : m \in 1 .. AtMostAsked(limit, n - l)} : l \in 1 .. (sent - 1)}
    <3>1. PICK l \in 1 .. (sent - 1) :
            page \in {StockPage(limit, Repeated(limit, window, l, m), FALSE)
                        : m \in 1 .. AtMostAsked(limit, n - l)}
      BY <2>2
    <3>2. PICK m \in 1 .. AtMostAsked(limit, n - l) :
            page = StockPage(limit, Repeated(limit, window, l, m), FALSE)
      BY <3>1
    <3> QED
      BY <3>2
  <2> QED
    BY <2>1, <2>2
<1> HIDE DEF sent, window, n
<1>8. CASE page = StockPage(limit, SubSeq(window, 1, sent), TRUE)
  <2> DEFINE times == SubSeq(window, 1, sent)
  <2>1. Descends(times, end) /\ Len(times) = sent /\ \A i \in 1 .. sent : times[i] = window[i]
    BY <1>3, <1>5, PrefixDescends
  <2>2. DOMAIN times = 1 .. sent
    BY <2>1 DEF Descends
  <2> HIDE DEF times
  <2>3. \A i, j \in DOMAIN times : i < j => times[j] < times[i]
    <3> SUFFICES ASSUME NEW i \in 1 .. sent, NEW j \in 1 .. sent, i < j
                 PROVE  times[j] < times[i]
      BY <2>2
    <3>1. i \in DOMAIN window /\ j \in DOMAIN window
      BY <1>6
    <3> QED
      BY <1>3, <2>1, <3>1
  <2>4. /\ page \in Page
        /\ PageIsContiguous(bars, "stocks", k, page)
        /\ page.next = Null => Len(times) <= limit /\ \A i \in DOMAIN times : times[i] \in Listed(page)
        /\ ChangesOf(bars, "stocks", page)
    BY <1>1, <1>8, <2>1, <2>3, StockPageFits DEF times
  <2>5. PageEnds(bars, now, "stocks", k, page)
    <3> DEFINE L == Listed(page)
    <3>1. SUFFICES ASSUME page.next = Null, Roomy(bars, now)
                   PROVE  (k = First => L # {}) /\ \A b \in bars : UpTo("stocks", k, L, b) => b \in L
      BY DEF PageEnds
    <3>2. sent = Len(window) /\ Len(window) <= limit
      BY <1>5, <2>1, <2>4, <3>1
    <3>3. \A b \in bars : b <= end => \E i \in 1 .. sent : window[i] = b
      BY <1>4, <3>1, <3>2, WindowReachesBack DEF window
    <3>4. \A b \in bars : b <= end => b \in L
      BY <2>1, <2>2, <2>4, <3>1, <3>3
    <3>5. L \subseteq bars
      BY <2>4 DEF PageIsContiguous
    <3>6. k = First => \A b \in bars : b <= end
      BY DEF Clock, EffectiveEnd
    <3> QED
      BY <3>4, <3>5, <3>6, UpToIsPast
  <2> QED
    BY <2>4, <2>5 DEF PageFits
<1>9. ASSUME NEW l \in 1 .. (sent - 1), NEW m \in 1 .. AtMostAsked(limit, n - l),
             page = StockPage(limit, Repeated(limit, window, l, m), FALSE)
      PROVE  page \in Page /\ PageFits(bars, now, "stocks", k, page)
  <2> DEFINE times == Repeated(limit, window, l, m)
  <2>1. /\ m \in Nat \ {0} /\ l \in Nat \ {0}
        /\ l + m <= Len(window) /\ l < ItemsToFetch(limit)
    <3>1. l \in Nat \ {0} /\ l < limit + 1 /\ n \in Nat /\ n - l \in Nat
      BY <1>1, <1>5, <1>6
    <3>2. AtMostAsked(limit, n - l) \in Nat /\ AtMostAsked(limit, n - l) <= n - l
      BY <1>1, <3>1, AtMostAskedIs
    <3>3. m \in Nat \ {0} /\ m <= n - l
      BY <3>1, <3>2
    <3> QED
      BY <3>1, <3>3 DEF n, ItemsToFetch
  <2>2. Descends(times, end) /\ Len(times) > limit
    BY <1>1, <1>3, <2>1, RepeatedDescends
  <2> HIDE DEF times
  <2>3. /\ page \in Page
        /\ page.whole = FALSE
        /\ PageIsContiguous(bars, "stocks", k, page)
        /\ page.next = Null => Len(times) <= limit
    BY <1>1, <1>9, <2>2, StockPageFits DEF times
  <2>4. page.next # Null
    <3>1. Len(times) \in Nat
      BY <2>2 DEF Descends
    <3> QED
      BY <1>1, <2>2, <2>3, <3>1
  <2> QED
    BY <2>3, <2>4 DEF PageFits, PageEnds, ChangesOf
<1> QED
  BY <1>7, <1>8, <1>9

LEMMA CryptoPageFits ==
    ASSUME Clock, bars # {}, NEW k \in 0 .. First
    PROVE  CryptoPage(k) \in Page /\ PageFits(bars, now, "crypto", k, CryptoPage(k))
<1> DEFINE page == CryptoPage(k)
           end == To(k) - 1
           times == Latest({t \in bars : t < To(k)})
           n == Len(times)
           count == IF n > UpbitLimit THEN UpbitLimit ELSE n
           L == Listed(page)
<1>1. /\ Horizon \in Nat /\ now \in Nat /\ UpbitLimit \in Nat \ {0}
      /\ \A b \in bars : b \in Int /\ b \in Times /\ 1 <= b /\ b <= Horizon /\ b <= now
  BY CandlesAssumption DEF Clock, CandlesAssumption, Times
<1>2. end \in Int /\ To(k) \in Int
  BY <1>1 DEF To, First
<1>3. {t \in bars : t < To(k)} = {b \in bars : 0 <= b /\ b <= end}
  BY <1>1, <1>2
<1>4. /\ times \in Seq(bars)
      /\ \A i, j \in DOMAIN times : i < j => times[j] < times[i]
      /\ \A i \in DOMAIN times : times[i] <= end
      /\ \A b \in bars : b <= end => \E i \in DOMAIN times : times[i] = b
  <2> DEFINE lo == 0
             T == {b \in bars : lo <= b /\ b <= end}
  <2>0. lo \in Int
    OBVIOUS
  <2> HIDE DEF lo
  <2>1. /\ Descends(Latest(T), end)
        /\ \A i, j \in DOMAIN Latest(T) : i < j => Latest(T)[j] < Latest(T)[i]
        /\ \A b \in T : \E i \in DOMAIN Latest(T) : Latest(T)[i] = b
    BY <1>1, <1>2, <2>0, LatestDescends
  <2>2. \A b \in bars : b <= end => b \in T
    BY <1>1 DEF lo
  <2>3. times = Latest(T)
    BY <1>3 DEF lo
  <2> HIDE DEF T, times
  <2> QED
    BY <2>1, <2>2, <2>3 DEF Descends
<1>5. page = [candles |-> [i \in 1 .. count |-> [time |-> times[i], against |-> Sent]],
              next |-> IF n > UpbitLimit THEN times[UpbitLimit + 1] ELSE Null,
              whole |-> TRUE, failed |-> FALSE]
  BY DEF CryptoPage, UpbitNext
<1> HIDE DEF page, times
<1>6. n \in Nat /\ DOMAIN times = 1 .. n
  BY <1>4
<1> HIDE DEF end, n
<1>7. \A i \in 1 .. n : times[i] \in bars /\ times[i] \in Int /\ times[i] <= end
  <2>1. \A i \in 1 .. n : times[i] \in bars
    BY <1>4, <1>6
  <2> QED
    BY <1>1, <1>4, <1>6, <2>1
<1>8. /\ count \in 0 .. n /\ count \in Nat
      /\ (n <= UpbitLimit => count = n)
      /\ (n > UpbitLimit => count = UpbitLimit)
      /\ \A i \in 1 .. count : i \in 1 .. n /\ i \in Nat /\ i <= count
  BY <1>1, <1>6
<1> HIDE DEF count
<1>9. /\ DOMAIN page.candles = 1 .. count
      /\ \A i \in 1 .. count : page.candles[i].time = times[i]
  BY <1>5
<1>10. L = {times[i] : i \in 1 .. count}
  BY <1>9 DEF Listed
<1>11. page.candles \in Seq(Candle)
  <2>1. \A i \in 1 .. count : times[i] \in Times
    BY <1>1, <1>7, <1>8
  <2>2. \A i \in 1 .. count : [time |-> times[i], against |-> Sent] \in Candle
    BY <2>1 DEF Candle
  <2> QED
    BY <1>5, <1>8, <2>2
<1>12. /\ page.next = Null => n <= UpbitLimit
       /\ page.next # Null => /\ n > UpbitLimit /\ count = UpbitLimit
                              /\ UpbitLimit + 1 \in 1 .. n /\ page.next = times[UpbitLimit + 1]
  <2>1. CASE n > UpbitLimit
    <3>1. UpbitLimit + 1 \in 1 .. n
      BY <1>1, <1>6, <2>1
    <3>2. times[UpbitLimit + 1] \in bars /\ times[UpbitLimit + 1] # Null
      BY <1>1, <1>7, <3>1 DEF Null
    <3> QED
      BY <1>5, <1>8, <2>1, <3>1, <3>2
  <2>2. CASE ~(n > UpbitLimit)
    BY <1>1, <1>5, <1>6, <2>2
  <2> QED
    BY <2>1, <2>2
<1>13. page \in Page
  <2>1. page.next \in {Null} \cup 0 .. Horizon
    BY <1>1, <1>7, <1>12
  <2>2. /\ page.whole = TRUE /\ page.failed = FALSE
        /\ page = [candles |-> page.candles, next |-> page.next, whole |-> page.whole, failed |-> page.failed]
    BY <1>5
  <2> QED
    BY <1>11, <2>1, <2>2 DEF Page
<1>14. L \subseteq bars => \A b \in bars : UpTo("crypto", k, L, b) => b <= end
  BY <1>1 DEF end, To, UpTo, First
<1>15. \A b \in bars : b <= end => \E i \in 1 .. n : times[i] = b
  BY <1>4, <1>6 DEF end
<1>16. L \subseteq bars
  BY <1>7, <1>8, <1>10
<1>17. PageIsContiguous(bars, "crypto", k, page)
  <2>1. ASSUME page.next # Null PROVE L # {} /\ \A t \in L : page.next < t
    <3>1. \A i \in 1 .. count : times[UpbitLimit + 1] < times[i]
      <4> SUFFICES ASSUME NEW i \in 1 .. count PROVE times[UpbitLimit + 1] < times[i]
        OBVIOUS
      <4>1. i \in 1 .. n /\ UpbitLimit + 1 \in 1 .. n /\ i < UpbitLimit + 1
        BY <1>1, <1>8, <1>12, <2>1
      <4> QED
        BY <1>4, <1>6, <4>1
    <3>2. 1 \in 1 .. count
      BY <1>1, <1>12, <2>1
    <3> QED
      BY <1>10, <1>12, <2>1, <3>1, <3>2
  <2>2. k # First => \A t \in L : UpTo("crypto", k, L, t)
    <3>1. k # First => end = k - 1
      BY DEF end, To
    <3>2. \A i \in 1 .. count : times[i] <= end /\ times[i] \in Int
      BY <1>7, <1>8
    <3> QED
      BY <1>10, <3>1, <3>2 DEF UpTo
  <2>3. ASSUME NEW b \in bars \ L, UpTo("crypto", k, L, b)
        PROVE  page.next # Null /\ b <= page.next
    <3>1. b <= end
      BY <1>16, <2>3, <1>14
    <3>2. PICK i \in 1 .. n : times[i] = b
      BY <1>15, <3>1
    <3>3. i \notin 1 .. count /\ i \in Nat /\ count < i
      BY <1>6, <1>8, <1>10, <2>3, <3>2
    <3>4. page.next # Null
      BY <1>6, <1>8, <1>12, <1>1, <3>3
    <3>5. i = UpbitLimit + 1 \/ UpbitLimit + 1 < i
      BY <1>1, <1>12, <3>3, <3>4
    <3> QED
      <4>1. CASE i = UpbitLimit + 1
        BY <1>1, <1>12, <3>2, <3>4, <4>1
      <4>2. CASE UpbitLimit + 1 < i
        <5>1. times[i] < times[UpbitLimit + 1]
          BY <1>4, <1>6, <1>12, <3>4, <4>2
        <5>2. times[UpbitLimit + 1] \in Int
          BY <1>7, <1>12, <3>4
        <5> QED
          BY <1>1, <1>12, <3>2, <3>4, <5>1, <5>2
      <4> QED
        BY <3>5, <4>1, <4>2
  <2> QED
    BY <1>16, <2>1, <2>2, <2>3 DEF PageIsContiguous
<1>18. PageEnds(bars, now, "crypto", k, page)
  <2> SUFFICES ASSUME page.next = Null
               PROVE  (k = First => L # {}) /\ \A b \in bars : UpTo("crypto", k, L, b) => b \in L
    BY DEF PageEnds
  <2>1. count = n
    BY <1>8, <1>12
  <2>2. \A b \in bars : b <= end => b \in L
    BY <1>10, <1>15, <2>1
  <2>3. k = First => \A b \in bars : b <= end
    BY <1>1 DEF end, To
  <2> QED
    BY <1>16, <2>2, <2>3, <1>14
<1>19. ChangesOf(bars, "crypto", page)
  BY DEF ChangesOf
<1> QED
  BY <1>13, <1>17, <1>18, <1>19 DEF PageFits, page

\* The answer to an error has nothing, and ends nothing.
LEMMA NoCandlesFits ==
    ASSUME Horizon \in Nat, NEW times, NEW end, NEW a, NEW k
    PROVE  NoCandles \in Page /\ PageFits(times, end, a, k, NoCandles)
<1>1. /\ NoCandles \in Page
      /\ NoCandles.candles = <<>> /\ NoCandles.next = Null /\ NoCandles.failed
  <2>1. NoPage \in Page /\ NoPage.candles = <<>> /\ NoPage.next = Null
    BY DEF NoPage, Page
  <2> QED
    BY <2>1 DEF NoCandles, Page
<1>2. DOMAIN NoCandles.candles = {} /\ Listed(NoCandles) = {}
  BY <1>1 DEF Listed
<1> QED
  BY <1>1, <1>2 DEF PageFits, PageIsContiguous, PageEnds, ChangesOf

-----------------------------------------------------------------------------
(* An answer goes on where the last one ended *)

LEMMA AnsweredIs ==
    ASSUME NEW rd \in Reader, NEW page \in Page, Listed(page) \subseteq Times
    PROVE  LET new == Answered(rd, page) IN
           /\ new \in Reader
           /\ new.asset = rd.asset /\ new.limit = rd.limit /\ new.step = "idle"
           /\ new.key = page.next
           /\ new.seen = rd.seen \cup Listed(page)
           /\ new.failed = (rd.failed \/ page.failed)
           /\ Lost(new) = Lost(rd)
<1>1. NoPage \in Page /\ Null \in {Null} \cup 0 .. First
  BY DEF NoPage, Page
<1>2. page.next \in {Null} \cup 0 .. First
  BY CandlesAssumption DEF Page, First, CandlesAssumption
<1>3. rd.seen \cup Listed(page) \in SUBSET Times
  BY DEF Reader
<1>4. "idle" \in Steps /\ (rd.failed \/ page.failed) \in BOOLEAN
  BY DEF Steps
<1> QED
  BY <1>1, <1>2, <1>3, <1>4, Zenon DEF Answered, Listed, Reader, Lost

LEMMA AnswerFits ==
    ASSUME NEW end \in Int, NEW times \in SUBSET Times, times # {},
           \A b \in times : b \in Int /\ 1 <= b /\ b <= end,
           NEW rd \in Reader, NEW page \in Page, Asks(rd),
           rd.asset = "stocks" => rd.limit \in Limits,
           ScrollFits(times, rd), PageFits(times, end, rd.asset, rd.key, page)
    PROVE  Answered(rd, page) \in Reader /\ ReaderFits(times, end, Answered(rd, page))
<1> DEFINE L == Listed(page)
           new == Answered(rd, page)
           k == rd.key
           lost == Lost(rd)
           a == rd.asset
<1>1. /\ L \subseteq times
      /\ page.next # Null => L # {} /\ \A t \in L : page.next < t
      /\ k # First => \A t \in L : UpTo(a, k, L, t)
      /\ \A b \in times \ L : UpTo(a, k, L, b) =>
           IF page.next = Null THEN \A t \in L : b < t ELSE b <= page.next
  BY DEF PageFits, PageIsContiguous
<1>2. /\ new \in Reader
      /\ new.asset = a /\ new.limit = rd.limit /\ new.step = "idle"
      /\ new.key = page.next
      /\ new.seen = rd.seen \cup L
      /\ new.failed = (rd.failed \/ page.failed)
      /\ Lost(new) = lost
  BY <1>1, AnsweredIs
<1>3. /\ k = First => rd.seen = {}
      /\ k # First => rd.seen # {}
      /\ rd.seen \subseteq times
      /\ \A t \in rd.seen : k < t
      /\ \A b \in times \ (rd.seen \cup lost), u \in rd.seen : b < u => b <= k
      /\ a = "crypto" /\ k # First => k \in lost
  BY DEF ScrollFits, Asks
<1>4. k \in Int /\ page.next \in Int /\ page.next # First /\ Null = -1 /\ Null # First
  BY CandlesAssumption DEF Reader, Page, First, Null, CandlesAssumption
<1>5. /\ \A t \in L : t \in times /\ t \in Int /\ 1 <= t /\ t <= end
      /\ \A t \in rd.seen : t \in times /\ t \in Int /\ 1 <= t /\ t <= end
  BY <1>1, <1>3
<1>13. k # First => \A t \in L : t <= k
  BY <1>1, <1>4, <1>5 DEF UpTo
\* Between the start and what was seen there is nothing but the start.
<1>14. ASSUME NEW b \in times \ lost, b <= k, k # First PROVE UpTo(a, k, L, b)
  <2>1. a = "crypto" => b # k
    BY <1>3, <1>14
  <2> QED
    BY <1>4, <1>14, <2>1 DEF UpTo
<1> HIDE DEF new, L, k, lost, a
<1>6. StartIsPast(end, new.key)
  <2>1. CASE page.next = Null
    <3>1. PICK b \in times : TRUE
      OBVIOUS
    <3>2. b \in Int /\ 1 <= b /\ b <= end
      BY <3>1
    <3> QED
      BY <1>2, <1>4, <2>1, <3>2 DEF StartIsPast
  <2>2. CASE page.next # Null
    <3>1. PICK t \in L : page.next < t
      BY <1>1, <2>2
    <3>2. t \in Int /\ t <= end
      BY <1>5
    <3> QED
      BY <1>2, <1>4, <3>1, <3>2 DEF StartIsPast
  <2> QED
    BY <2>1, <2>2
<1>7. \A t \in new.seen : new.key < t
  <2> SUFFICES ASSUME NEW t \in rd.seen \cup L PROVE page.next < t
    BY <1>2
  <2>1. CASE page.next = Null
    BY <1>4, <1>5, <2>1
  <2>2. CASE t \in L
    BY <1>1, <2>1, <2>2
  <2>3. CASE page.next # Null /\ t \in rd.seen
    <3>1. PICK u \in L : page.next < u
      BY <1>1, <2>3
    <3>2. u <= k /\ k < t
      BY <1>3, <1>13, <2>3
    <3> QED
      BY <1>4, <1>5, <3>1, <3>2
  <2> QED
    BY <2>1, <2>2, <2>3
<1>8. ASSUME NEW b \in times \ (new.seen \cup lost), NEW u \in new.seen, b < u
      PROVE  IF new.key = Null THEN \A t \in new.seen : b < t ELSE b <= new.key
  <2>1. b \in times \ lost /\ b \notin L /\ b \notin rd.seen /\ b \in Int /\ (u \in rd.seen \/ u \in L)
    BY <1>2, <1>8
  <2>2. UpTo(a, k, L, b) /\ (k # First => b <= k)
    <3>1. CASE k = First
      BY <1>3, <1>5, <1>8, <2>1, <3>1 DEF UpTo
    <3>2. CASE k # First /\ u \in rd.seen
      BY <1>3, <1>8, <1>14, <2>1, <3>2
    <3>3. CASE k # First /\ u \in L
      <4>1. u <= k /\ b <= k
        BY <1>4, <1>5, <1>8, <1>13, <2>1, <3>3
      <4> QED
        BY <1>14, <2>1, <3>3, <4>1
    <3> QED
      BY <2>1, <3>1, <3>2, <3>3
  <2>3. IF page.next = Null THEN \A t \in L : b < t ELSE b <= page.next
    BY <1>1, <2>1, <2>2
  <2>4. \A t \in rd.seen : b < t
    <3> SUFFICES ASSUME NEW t \in rd.seen PROVE b < t
      OBVIOUS
    <3>1. k # First /\ k < t
      BY <1>3
    <3> QED
      BY <1>4, <1>5, <2>1, <2>2, <3>1
  <2> QED
    BY <1>2, <2>3, <2>4
<1>9. ScrollFits(times, new)
  <2>1. new.key # First
    BY <1>2, <1>4
  <2>2. new.key # Null => new.seen # {}
    BY <1>1, <1>2
  <2>3. new.seen \subseteq times
    BY <1>2, <1>5
  <2> QED
    BY <1>2, <1>7, <1>8, <2>1, <2>2, <2>3 DEF ScrollFits
<1>10. ScrollEnds(times, end, new)
  <2>1. SUFFICES ASSUME new.key = Null, ~new.failed, new.asset = "stocks" => Roomy(times, end)
                 PROVE  new.seen # {} /\ \A b \in times \ lost : \E t \in new.seen : t <= b
    BY <1>2 DEF ScrollEnds
  <2>2. page.next = Null /\ ~page.failed /\ (a = "stocks" => Roomy(times, end))
    BY <1>2, <2>1
  <2>3. (k = First => L # {}) /\ \A c \in times : UpTo(a, k, L, c) => c \in L
    BY <2>2 DEF PageFits, PageEnds, L, k, a
  <2>4. new.seen # {}
    BY <1>2, <1>3, <2>3
  <2>5. ASSUME NEW b \in times \ lost PROVE \E t \in new.seen : t <= b
    <3>1. CASE UpTo(a, k, L, b)
      <4>1. b \in new.seen /\ b <= b
        BY <1>2, <2>3, <3>1
      <4> QED
        BY <4>1
    <3>2. CASE ~UpTo(a, k, L, b) /\ k = First
      <4>1. PICK t \in L : ~(b <= t)
        BY <2>3, <3>2 DEF UpTo
      <4> QED
        BY <1>2, <1>5, <4>1
    <3>3. CASE ~UpTo(a, k, L, b) /\ k # First
      <4>1. PICK t \in rd.seen : TRUE
        BY <1>3, <3>3
      <4>2. ~(b <= k)
        BY <1>14, <3>3
      <4>3. b \in rd.seen \/ ~(b < t)
        BY <1>3, <4>1, <4>2
      <4> QED
        BY <1>2, <1>5, <4>1, <4>3
    <3> QED
      BY <3>1, <3>2, <3>3
  <2> QED
    BY <2>4, <2>5
<1>11. new.step = "idle" /\ (new.asset = "stocks" => new.limit \in Limits)
  BY <1>2 DEF a
<1> QED
  BY <1>2, <1>6, <1>9, <1>10, <1>11 DEF ReaderFits, new

-----------------------------------------------------------------------------
(* Time passes *)

\* A later candle, or none.
Grows(times, end, later) ==
    /\ \A b \in times : b \in Int /\ b <= end
    /\ later = times \/ later = times \cup {end + 1}

LEMMA RoomyBefore ==
    ASSUME NEW end \in Int, NEW times, NEW later, Grows(times, end, later), Roomy(later, end + 1)
    PROVE  Roomy(times, end)
<1> SUFFICES ASSUME NEW limit \in Limits, NEW last \in 0 .. end
             PROVE  LET past == {t \in times : t <= last}
                        near == {t \in past : 2 * (last - t) <= 3 * (limit + 1) * PeriodMs}
                    IN  near = past \/ Cardinality(near) > limit
  BY DEF Roomy
<1>1. {t \in later : t <= last} = {t \in times : t <= last}
  BY DEF Grows
<1>2. last \in 0 .. end + 1
  OBVIOUS
<1> QED
  BY <1>1, <1>2 DEF Roomy

LEMMA PageStaysFit ==
    ASSUME NEW end \in Int, NEW times, NEW later, Grows(times, end, later),
           NEW a, NEW k \in 0 .. First, StartIsPast(end, k), NEW page \in Page,
           PageFits(times, end, a, k, page)
    PROVE  PageFits(later, end + 1, a, k, page)
<1> DEFINE L == Listed(page)
<1>1. times \subseteq later /\ \A b \in later : b \in times \/ b = end + 1
  BY DEF Grows
<1>2. L \subseteq times /\ \A t \in L : t \in Int /\ t <= end
  BY DEF PageFits, PageIsContiguous, Grows
<1>3. \A b \in later : UpTo(a, k, L, b) => b \in times
  <2> SUFFICES ASSUME NEW b, b = end + 1, UpTo(a, k, L, b) PROVE FALSE
    BY <1>1
  <2> QED
    BY <1>2 DEF UpTo, StartIsPast
<1>4. PageIsContiguous(later, a, k, page)
  BY <1>1, <1>3 DEF PageFits, PageIsContiguous
<1>5. PageEnds(later, end + 1, a, k, page)
  BY <1>3, RoomyBefore DEF PageFits, PageEnds
<1>6. ASSUME NEW t \in L PROVE Before(later, t) = Before(times, t)
  <2>1. {b \in later : b < t} = {b \in times : b < t}
    <3>1. t \in Int /\ t <= end
      BY <1>2
    <3>2. \A b \in later : b < t => b \in times
      BY <1>1, <3>1
    <3> QED
      BY <1>1, <3>2
  <2> QED
    BY <2>1, Zenon DEF Before
<1>7. \A i \in DOMAIN page.candles : page.candles[i].time \in L
  BY DEF Listed
<1>8. ChangesOf(later, a, page)
  BY <1>6, <1>7 DEF PageFits, ChangesOf
<1> QED
  BY <1>4, <1>5, <1>8 DEF PageFits

LEMMA ReaderStaysFit ==
    ASSUME NEW end \in Int, NEW times, NEW later, Grows(times, end, later), times # {},
           NEW rd \in Reader, ReaderFits(times, end, rd)
    PROVE  ReaderFits(later, end + 1, rd)
<1>1. times \subseteq later /\ \A b \in later : b \in times \/ b = end + 1
  BY DEF Grows
<1>2. rd.key \in Int /\ (rd.key # Null => rd.key \in 0 .. First)
  BY CandlesAssumption DEF Reader, First, Null, CandlesAssumption
<1>3. StartIsPast(end + 1, rd.key)
  BY <1>2 DEF ReaderFits, StartIsPast
<1>4. rd.step = "store" => PageFits(later, end + 1, rd.asset, rd.key, rd.page)
  <2> SUFFICES ASSUME rd.step = "store" PROVE PageFits(later, end + 1, rd.asset, rd.key, rd.page)
    OBVIOUS
  <2>1. rd.key # Null /\ PageFits(times, end, rd.asset, rd.key, rd.page) /\ StartIsPast(end, rd.key)
    BY DEF ReaderFits, Asks
  <2>2. rd.page \in Page
    BY DEF Reader
  <2> QED
    BY <1>2, <2>1, <2>2, PageStaysFit
<1>5. rd.seen \subseteq times /\ \A t \in rd.seen : t \in Int /\ t <= end
  BY DEF ReaderFits, ScrollFits, Grows
<1>6. ScrollFits(later, rd)
  <2>1. ASSUME NEW b \in later \ (rd.seen \cup Lost(rd)), NEW u \in rd.seen, b < u
        PROVE  b \in times
    BY <1>1, <1>5, <2>1
  <2> QED
    BY <1>1, <2>1 DEF ReaderFits, ScrollFits
<1>7. ScrollEnds(later, end + 1, rd)
  <2> SUFFICES ASSUME rd.key = Null, ~rd.failed, rd.asset = "stocks" => Roomy(later, end + 1)
               PROVE  rd.seen # {} /\ \A b \in later \ Lost(rd) : \E t \in rd.seen : t <= b
    BY DEF ScrollEnds
  <2>1. rd.seen # {} /\ \A c \in times \ Lost(rd) : \E t \in rd.seen : t <= c
    BY RoomyBefore DEF ReaderFits, ScrollEnds
  <2>2. ASSUME NEW b \in later \ Lost(rd) PROVE \E t \in rd.seen : t <= b
    <3>1. CASE b \in times
      BY <2>1, <3>1
    <3>2. CASE b = end + 1
      <4>1. PICK t \in rd.seen : TRUE
        BY <2>1
      <4> QED
        BY <1>5, <3>2, <4>1
    <3> QED
      BY <1>1, <3>1, <3>2
  <2> QED
    BY <2>1, <2>2
<1> QED
  BY <1>3, <1>4, <1>6, <1>7 DEF ReaderFits

-----------------------------------------------------------------------------
(* The invariant *)

LEMMA InvariantClock ==
    ASSUME TypeOK
    PROVE  /\ Clock
           /\ \A b \in bars : b \in Int /\ 1 <= b /\ b <= now
           /\ \A r \in Readers : reader[r] \in Reader
BY CandlesAssumption DEF TypeOK, Clock, Times, CandlesAssumption

LEMMA ScrollsAreReaders ==
    ASSUME NEW rd \in Scrolls
    PROVE  /\ rd \in Reader
           /\ rd.key = First /\ rd.seen = {} /\ rd.step = "idle"
           /\ rd.asset = "stocks" => rd.limit \in Limits
<1>1. \E a \in Assets, limit \in Limits \cup {UpbitLimit} : rd = NewScroll(a, limit)
  BY DEF Scrolls, Assets
<1>2. PICK a \in Assets, limit \in Limits \cup {UpbitLimit} : rd = NewScroll(a, limit)
  BY <1>1
<1>5. rd.asset = "stocks" => rd.limit \in Limits
  BY DEF Scrolls, NewScroll
<1>3. NoPage \in Page
  BY DEF NoPage, Page
<1>4. First \in 0 .. First /\ "idle" \in Steps
  BY CandlesAssumption DEF First, Steps, CandlesAssumption
<1> QED
  BY <1>2, <1>3, <1>4, <1>5 DEF NewScroll, Reader

\* A reader that starts over has nothing.
LEMMA ScrollsFit ==
    ASSUME NEW times, times # {}, NEW end, NEW rd \in Scrolls
    PROVE  ReaderFits(times, end, rd)
<1>1. /\ rd.key = First /\ rd.seen = {} /\ rd.step = "idle"
      /\ rd.asset = "stocks" => rd.limit \in Limits
  BY ScrollsAreReaders
<1>2. First # Null
  BY CandlesAssumption DEF First, Null, CandlesAssumption
<1> QED
  BY <1>1, <1>2 DEF ReaderFits, StartIsPast, ScrollFits, ScrollEnds

LEMMA InitIInv == Init => IInv
<1> SUFFICES ASSUME Init PROVE IInv
  OBVIOUS
<1>1. bars \in Histories /\ now = Start /\ pages = <<>> /\ reader \in [Readers -> Scrolls]
  BY DEF Init
<1>2. now \in 0 .. Horizon /\ bars \subseteq 1 .. now /\ bars # {}
  BY <1>1, CandlesAssumption DEF CandlesAssumption
<1>3. DOMAIN pages = {} /\ pages \in [DOMAIN pages -> Page]
  BY <1>1
<1>4. reader \in [Readers -> Reader]
  BY <1>1, ScrollsAreReaders
<1>5. \A r \in Readers : ReaderFits(bars, now, reader[r])
  BY <1>1, <1>2, ScrollsFit
<1> QED
  BY <1>2, <1>3, <1>4, <1>5 DEF IInv, TypeOK

\* A reader that is only further with its request.
LEMMA SameScroll ==
    ASSUME NEW times, NEW end, NEW rd, NEW new,
           new.key = rd.key, new.asset = rd.asset, new.seen = rd.seen,
           new.failed = rd.failed, new.seams = rd.seams
    PROVE  /\ Asks(rd) => Asks(new)
           /\ ScrollFits(times, rd) => ScrollFits(times, new)
           /\ ScrollEnds(times, end, rd) => ScrollEnds(times, end, new)
<1>1. Lost(new) = Lost(rd)
  BY Zenon DEF Lost
<1> QED
  BY <1>1, Zenon DEF Asks, ScrollFits, ScrollEnds

\* A step of a reader: what it and the cache have afterwards fits the candles.
LEMMA ReaderStep ==
    ASSUME IInv, NEW r \in Readers, UNCHANGED <<now, bars>>,
           reader' = [reader EXCEPT ![r] = reader'[r]], reader'[r] \in Reader,
           ReaderFits(bars, now, reader'[r]),
           DOMAIN pages' \subseteq Keys, pages' \in [DOMAIN pages' -> Page],
           \A k \in DOMAIN pages' :
             StartIsPast(now, k[2]) /\ PageFits(bars, now, k[1], k[2], pages'[k])
    PROVE  IInv'
<1>1. reader \in [Readers -> Reader] /\ \A q \in Readers : ReaderFits(bars, now, reader[q])
  BY DEF IInv, TypeOK
<1>2. reader' \in [Readers -> Reader] /\ \A q \in Readers : q # r => reader'[q] = reader[q]
  BY <1>1
<1>3. \A q \in Readers : ReaderFits(bars', now', reader'[q])
  BY <1>1, <1>2
<1>4. TypeOK'
  BY <1>2 DEF IInv, TypeOK
<1> QED
  BY <1>3, <1>4 DEF IInv

LEMMA NextIInv == IInv /\ [Next]_vars => IInv'
<1> SUFFICES ASSUME IInv, [Next]_vars PROVE IInv'
  OBVIOUS
<1>1. /\ TypeOK /\ Clock /\ bars # {}
      /\ \A b \in bars : b \in Int /\ 1 <= b /\ b <= now
      /\ bars \in SUBSET Times /\ now \in Int /\ Horizon \in Nat
  BY InvariantClock, CandlesAssumption DEF IInv, Clock, CandlesAssumption
<1>2. /\ DOMAIN pages \subseteq Keys /\ pages \in [DOMAIN pages -> Page]
      /\ \A k \in DOMAIN pages :
           StartIsPast(now, k[2]) /\ PageFits(bars, now, k[1], k[2], pages[k])
  BY DEF IInv, TypeOK
<1>3. reader \in [Readers -> Reader] /\ \A q \in Readers : ReaderFits(bars, now, reader[q])
  BY DEF IInv, TypeOK
<1>4. \A rd \in Reader : rd.key # Null => rd.key \in 0 .. First
  BY DEF Reader
<1>5. ASSUME NEW r \in Readers, Ask(r) PROVE IInv'
  <2> DEFINE rd == reader[r]
             new == [rd EXCEPT !.step = "lookup", !.seams = Seams(rd)]
  <2>1. rd \in Reader /\ ReaderFits(bars, now, rd) /\ rd.key # Null
    BY <1>3, <1>5 DEF Ask
  <2>2. reader' = [reader EXCEPT ![r] = new]
    BY <1>3, <1>5 DEF Ask
  <2>3. reader'[r] = new
    BY <1>3, <2>2
  <2>4. Seams(rd) \in SUBSET (0 .. Horizon) /\ rd.seams \subseteq Seams(rd)
    BY <1>1, <1>4, <2>1 DEF Seams, Reader, First
  <2>5. /\ new \in Reader
        /\ new.key = rd.key /\ new.asset = rd.asset /\ new.limit = rd.limit
        /\ new.seen = rd.seen /\ new.failed = rd.failed
        /\ new.step = "lookup" /\ new.seams = Seams(rd)
    BY <2>1, <2>4 DEF Reader, Steps
  <2>6. Lost(rd) \subseteq Lost(new) /\ Asks(new)
    BY <2>1, <2>4, <2>5 DEF Lost, Asks, Seams
  <2> HIDE DEF new, rd
  <2>7. ScrollFits(bars, new)
    BY <2>1, <2>5, <2>6 DEF ReaderFits, ScrollFits
  <2>8. ScrollEnds(bars, now, new)
    BY <2>1, <2>5 DEF ScrollEnds
  <2>9. ReaderFits(bars, now, reader'[r])
    BY <2>1, <2>3, <2>5, <2>6, <2>7, <2>8, Zenon DEF ReaderFits
  <2> QED
    BY <1>2, <1>5, <2>2, <2>3, <2>5, <2>9, ReaderStep DEF Ask
<1>6. ASSUME NEW r \in Readers, Reopen(r) PROVE IInv'
  <2>1. PICK scroll \in Scrolls : reader' = [reader EXCEPT ![r] = scroll]
    BY <1>6 DEF Reopen
  <2>2. reader'[r] = scroll
    BY <1>3, <2>1
  <2>3. reader'[r] \in Reader /\ ReaderFits(bars, now, reader'[r])
    BY <1>1, <2>2, ScrollsAreReaders, ScrollsFit
  <2> QED
    BY <1>2, <1>6, <2>1, <2>2, <2>3, ReaderStep DEF Reopen
<1>7. ASSUME NEW r \in Readers, ReadCache(r) PROVE IInv'
  <2> DEFINE k == CacheKey(r)
             rd == reader[r]
  <2>1. /\ rd \in Reader /\ ReaderFits(bars, now, rd) /\ rd.step = "lookup"
        /\ Asks(rd) /\ (rd.asset = "stocks" => rd.limit \in Limits)
    BY <1>3, <1>7 DEF ReadCache, ReaderFits
  <2>2. UNCHANGED <<now, bars, pages>>
    BY <1>7 DEF ReadCache
  <2>3. CASE k \in DOMAIN pages
    <3>1. pages[k] \in Page /\ PageFits(bars, now, rd.asset, rd.key, pages[k])
      BY <1>2, <2>3 DEF CacheKey
    <3>2. reader' = [reader EXCEPT ![r] = Answered(rd, pages[k])]
      BY <1>7, <2>3 DEF ReadCache
    <3>3. reader'[r] = Answered(rd, pages[k])
      BY <1>3, <3>2
    <3>4. ScrollFits(bars, rd)
      BY <2>1 DEF ReaderFits
    <3> HIDE DEF k, rd
    <3>5. reader'[r] \in Reader /\ ReaderFits(bars, now, reader'[r])
      BY <1>1, <2>1, <3>1, <3>3, <3>4, AnswerFits
    <3> QED
      BY <1>2, <2>2, <3>2, <3>3, <3>5, ReaderStep
  <2>4. CASE k \notin DOMAIN pages
    <3>1. reader' = [reader EXCEPT ![r] = [rd EXCEPT !.step = "fetch"]]
      BY <1>7, <2>4 DEF ReadCache
    <3>2. reader'[r] = [rd EXCEPT !.step = "fetch"]
      BY <1>3, <3>1
    <3>3. /\ reader'[r] \in Reader
          /\ reader'[r].key = rd.key /\ reader'[r].asset = rd.asset
          /\ reader'[r].seen = rd.seen /\ reader'[r].failed = rd.failed
          /\ reader'[r].limit = rd.limit /\ reader'[r].seams = rd.seams
          /\ reader'[r].step = "fetch"
      BY <2>1, <3>2 DEF Reader, Steps
    <3>4. ReaderFits(bars, now, reader'[r])
      BY <2>1, <3>3, SameScroll DEF ReaderFits
    <3> QED
      BY <1>2, <2>2, <3>1, <3>2, <3>3, <3>4, ReaderStep
  <2> QED
    BY <2>3, <2>4
<1>8. ASSUME NEW r \in Readers, NEW page \in Page, reader[r].step = "fetch",
             PageFits(bars, now, reader[r].asset, reader[r].key, page),
             reader' = [reader EXCEPT ![r].step = "store", ![r].page = page],
             UNCHANGED <<now, bars, pages>>
      PROVE  IInv'
  <2>1. reader[r] \in Reader /\ ReaderFits(bars, now, reader[r])
    BY <1>3
  <2>2. reader' = [reader EXCEPT ![r] = [reader[r] EXCEPT !.step = "store", !.page = page]]
    BY <1>3, <1>8
  <2>3. reader'[r] = [reader[r] EXCEPT !.step = "store", !.page = page]
    BY <1>3, <2>2
  <2>4. /\ reader'[r] \in Reader
        /\ reader'[r].key = reader[r].key /\ reader'[r].asset = reader[r].asset
        /\ reader'[r].seen = reader[r].seen /\ reader'[r].failed = reader[r].failed
        /\ reader'[r].limit = reader[r].limit /\ reader'[r].seams = reader[r].seams
        /\ reader'[r].step = "store" /\ reader'[r].page = page
    BY <2>1, <2>3 DEF Reader, Steps
  <2>5. Asks(reader[r])
    BY <1>8, <2>1 DEF ReaderFits
  <2>6. ReaderFits(bars, now, reader'[r])
    BY <1>8, <2>1, <2>4, <2>5, SameScroll DEF ReaderFits
  <2> QED
    BY <1>2, <1>8, <2>2, <2>3, <2>4, <2>6, ReaderStep
<1>9. ASSUME NEW r \in Readers, FetchStock(r) PROVE IInv'
  <2> DEFINE limit == reader[r].limit
             k == reader[r].key
  <2>1. PICK page \in StockPages(limit, k) :
          reader' = [reader EXCEPT ![r].step = "store", ![r].page = page]
    BY <1>9 DEF FetchStock
  <2>2. reader[r].step = "fetch" /\ reader[r].asset = "stocks" /\ UNCHANGED <<now, bars, pages>>
    BY <1>9 DEF FetchStock
  <2>3. limit \in Limits /\ k \in 0 .. First /\ StartIsPast(now, k)
    <3>1. reader[r] \in Reader /\ ReaderFits(bars, now, reader[r])
      BY <1>3
    <3> QED
      BY <2>2, <3>1 DEF Reader, ReaderFits, Asks
  <2> HIDE DEF limit
  <2>4. page \in Page /\ PageFits(bars, now, "stocks", k, page)
    BY <1>1, <2>3, StockPagesFit
  <2> QED
    BY <1>8, <2>1, <2>2, <2>4
<1>10. ASSUME NEW r \in Readers, FetchCrypto(r) PROVE IInv'
  <2> DEFINE k == reader[r].key
  <2>1. PICK page \in {CryptoPage(k), NoCandles} :
          reader' = [reader EXCEPT ![r].step = "store", ![r].page = page]
    BY <1>10 DEF FetchCrypto
  <2>2. reader[r].step = "fetch" /\ reader[r].asset = "crypto" /\ UNCHANGED <<now, bars, pages>>
    BY <1>10 DEF FetchCrypto
  <2>3. k \in 0 .. First
    BY <1>3, <1>4, <2>2 DEF ReaderFits, Asks
  <2>4. page \in Page /\ PageFits(bars, now, "crypto", k, page)
    BY <1>1, <2>3, CryptoPageFits, NoCandlesFits
  <2> QED
    BY <1>8, <2>1, <2>2, <2>4
<1>11. ASSUME NEW r \in Readers, Fails(r) PROVE IInv'
  <2>1. reader[r] \in Reader /\ ReaderFits(bars, now, reader[r])
    BY <1>3
  <2>2. reader' = [reader EXCEPT ![r] = Rejected(reader[r])] /\ UNCHANGED <<now, bars, pages>>
    BY <1>11 DEF Fails
  <2>3. reader'[r] = [reader[r] EXCEPT !.step = "idle", !.page = NoPage]
    BY <1>3, <2>2 DEF Rejected
  <2>4. NoPage \in Page
    BY DEF NoPage, Page
  <2>5. /\ reader'[r] \in Reader
        /\ reader'[r].key = reader[r].key /\ reader'[r].asset = reader[r].asset
        /\ reader'[r].seen = reader[r].seen /\ reader'[r].failed = reader[r].failed
        /\ reader'[r].limit = reader[r].limit /\ reader'[r].seams = reader[r].seams
        /\ reader'[r].step = "idle"
    BY <2>1, <2>3, <2>4 DEF Reader, Steps
  <2>6. ReaderFits(bars, now, reader'[r])
    BY <2>1, <2>5, SameScroll DEF ReaderFits
  <2> QED
    BY <1>2, <2>2, <2>3, <2>5, <2>6, ReaderStep DEF Rejected
<1>12. ASSUME NEW r \in Readers, Store(r) PROVE IInv'
  <2> DEFINE rd == reader[r]
             k == CacheKey(r)
  <2>1. /\ rd \in Reader /\ rd.page \in Page /\ rd.asset \in Assets
        /\ Asks(rd) /\ (rd.asset = "stocks" => rd.limit \in Limits)
        /\ rd.key \in 0 .. First /\ StartIsPast(now, rd.key)
        /\ PageFits(bars, now, rd.asset, rd.key, rd.page) /\ ScrollFits(bars, rd)
    <3>1. rd \in Reader /\ ReaderFits(bars, now, rd) /\ rd.step = "store"
      BY <1>3, <1>12 DEF Store
    <3> QED
      BY <1>4, <3>1 DEF Reader, ReaderFits, Asks
  <2>2. PICK kept \in SUBSET (DOMAIN pages \ {k}) :
          pages' = [l \in kept \cup {k} |-> IF l = k THEN rd.page ELSE pages[l]]
    BY <1>12 DEF Store
  <2>3. reader' = [reader EXCEPT ![r] = Answered(rd, rd.page)] /\ UNCHANGED <<now, bars>>
    BY <1>12 DEF Store
  <2>4. reader'[r] = Answered(rd, rd.page)
    BY <1>3, <2>3
  <2>5. k = <<rd.asset, rd.key>> /\ k \in Keys
    BY <2>1 DEF CacheKey, Keys
  <2> HIDE DEF rd, k
  <2>6. reader'[r] \in Reader /\ ReaderFits(bars, now, reader'[r])
    BY <1>1, <2>1, <2>4, AnswerFits
  <2>7. DOMAIN pages' = kept \cup {k} /\ \A l \in DOMAIN pages' : l = k \/ l \in DOMAIN pages
    BY <2>2
  <2>8. \A l \in DOMAIN pages' : pages'[l] = IF l = k THEN rd.page ELSE pages[l]
    BY <2>2
  <2>9. DOMAIN pages' \subseteq Keys /\ pages' \in [DOMAIN pages' -> Page]
    BY <1>2, <2>1, <2>2, <2>5, <2>7
  <2>10. ASSUME NEW l \in DOMAIN pages'
         PROVE  StartIsPast(now, l[2]) /\ PageFits(bars, now, l[1], l[2], pages'[l])
    <3>1. CASE l = k
      BY <2>1, <2>5, <2>8, <3>1
    <3>2. CASE l # k
      BY <1>2, <2>7, <2>8, <3>2
    <3> QED
      BY <3>1, <3>2
  <2> QED
    BY <2>3, <2>4, <2>6, <2>9, <2>10, ReaderStep
<1>13. ASSUME NEW k \in Keys, Expire(k) PROVE IInv'
  <2>1. pages' = [l \in DOMAIN pages \ {k} |-> pages[l]] /\ UNCHANGED <<now, bars, reader>>
    BY <1>13 DEF Expire, Without
  <2>2. DOMAIN pages' \subseteq DOMAIN pages /\ \A l \in DOMAIN pages' : pages'[l] = pages[l]
    BY <2>1
  <2>3. pages' \in [DOMAIN pages' -> Page]
    BY <1>2, <2>1
  <2>4. TypeOK'
    BY <1>1, <1>2, <2>1, <2>2, <2>3 DEF TypeOK
  <2>5. \A l \in DOMAIN pages' : StartIsPast(now', l[2]) /\ PageFits(bars', now', l[1], l[2], pages'[l])
    BY <1>2, <2>1, <2>2
  <2> QED
    BY <1>1, <1>3, <2>1, <2>4, <2>5 DEF IInv
<1>14. ASSUME Pass PROVE IInv'
  <2>1. now' = now + 1 /\ bars' \in {bars, bars \cup {now + 1}} /\ now < Horizon /\ UNCHANGED <<pages, reader>>
    BY <1>14 DEF Pass
  <2>2. Grows(bars, now, bars')
    BY <1>1, <2>1 DEF Grows
  <2>3. now' \in 0 .. Horizon /\ bars' \subseteq 1 .. now' /\ bars' # {}
    BY <1>1, <2>1 DEF TypeOK
  <2>4. \A q \in Readers : ReaderFits(bars', now', reader'[q])
    BY <1>1, <1>3, <2>1, <2>2, ReaderStaysFit
  <2>5. ASSUME NEW k \in DOMAIN pages
        PROVE  StartIsPast(now', k[2]) /\ PageFits(bars', now', k[1], k[2], pages'[k])
    <3>1. /\ k[2] \in 0 .. First /\ StartIsPast(now, k[2])
          /\ pages[k] \in Page /\ PageFits(bars, now, k[1], k[2], pages[k])
      BY <1>2 DEF Keys
    <3>2. StartIsPast(now', k[2])
      BY <1>1, <2>1, <3>1 DEF StartIsPast, First
    <3> QED
      BY <1>1, <2>1, <2>2, <3>1, <3>2, PageStaysFit
  <2>6. TypeOK'
    BY <1>1, <1>2, <1>3, <2>1, <2>3 DEF TypeOK
  <2> QED
    BY <2>1, <2>3, <2>4, <2>5, <2>6 DEF IInv
<1>15. CASE UNCHANGED vars
  BY <1>15 DEF vars, IInv, TypeOK
<1> QED
  BY <1>5, <1>6, <1>7, <1>9, <1>10, <1>11, <1>12, <1>13, <1>14, <1>15 DEF Next

LEMMA InvariantHolds == Spec => []IInv
BY InitIInv, NextIInv, PTL DEF Spec

-----------------------------------------------------------------------------
(* Theorems *)

LEMMA HasMin ==
    ASSUME NEW S, S # {}, \A x \in S : x \in Nat
    PROVE  Min(S) \in S /\ \A y \in S : Min(S) <= y
<1>1. S \subseteq Nat
  OBVIOUS
<1>2. \E m \in S : \A y \in S : ~(<<y, m>> \in OpToRel(<, Nat))
  BY <1>1, NatLessThanWellFounded, WFMin, Zenon
<1>3. PICK m \in S : \A y \in S : ~(y < m)
  BY <1>1, <1>2 DEF OpToRel
<1>4. \E x \in S : \A y \in S : x <= y
  BY <1>3
<1> QED
  BY <1>4, Zenon DEF Min

\* The state of Candles has the declared types, whatever pages are answered,
\* cached and expire.
THEOREM TypeCorrect == Spec => []TypeOK
<1>1. IInv => TypeOK
  BY DEF IInv
<1> QED
  BY <1>1, InvariantHolds, PTL

\* Whoever follows nextDateTime has every candle between the newest and the
\* oldest it has, each once: whatever limits others gave for the pages it was
\* served from the cache, and whatever appeared, failed and expired meanwhile.
\* Of a coin it is without the candles that were a nextDateTime, and no others.
THEOREM ScrollStaysContiguous == Spec => []ScrollIsContiguous
<1>1. IInv => ScrollIsContiguous
  <2> SUFFICES ASSUME IInv, NEW r \in Readers, reader[r].seen # {}
               PROVE  LET rd == reader[r] IN
                      /\ rd.key < Min(rd.seen)
                      /\ rd.seen \subseteq bars
                      /\ \A b \in bars \ Lost(rd) :
                           b <= Max(rd.seen) /\ b > (IF rd.key = Null THEN Min(rd.seen) - 1 ELSE rd.key)
                             => b \in rd.seen
    BY DEF ScrollIsContiguous
  <2> DEFINE rd == reader[r]
             S == rd.seen
             low == IF rd.key = Null THEN Min(S) - 1 ELSE rd.key
  <2>1. ScrollFits(bars, rd) /\ rd \in Reader /\ Horizon \in Nat
    BY InvariantClock, CandlesAssumption DEF IInv, ReaderFits, CandlesAssumption
  <2>2. \A b \in bars : b \in Int /\ b \in 1 .. Horizon /\ b \in Nat
    BY InvariantClock, CandlesAssumption DEF IInv, TypeOK, CandlesAssumption
  <2>3. S \subseteq bars /\ S # {} /\ (\A t \in S : rd.key < t) /\ rd.key \in Int
    BY <2>1 DEF ScrollFits, Reader, First, Null
  <2>4. \A b \in bars \ (S \cup Lost(rd)), u \in S : b < u =>
          IF rd.key = Null THEN \A t \in S : b < t ELSE b <= rd.key
    BY <2>1 DEF ScrollFits
  <2> HIDE DEF S, rd
  <2>5. Max(S) \in S /\ \A t \in S : t <= Max(S)
    <3>1. \A t \in S : t \in 1 .. Horizon
      BY <2>2, <2>3
    <3> QED
      BY <2>1, <2>3, <3>1, HasMax
  <2>6. Min(S) \in S /\ \A t \in S : Min(S) <= t
    <3>1. \A t \in S : t \in Nat
      BY <2>2, <2>3
    <3> QED
      BY <2>3, <3>1, HasMin
  <2>7. Max(S) \in Int /\ Min(S) \in Int /\ \A t \in S : t \in Int
    BY <2>2, <2>3, <2>5, <2>6
  <2>8. ASSUME NEW b \in bars \ Lost(rd), b <= Max(S), b > low PROVE b \in S
    <3> SUFFICES ASSUME b \notin S PROVE FALSE
      OBVIOUS
    <3>1. b \in bars \ (S \cup Lost(rd)) /\ b \in Int /\ b < Max(S)
      BY <2>2, <2>5, <2>7, <2>8
    <3>2. CASE rd.key = Null
      BY <2>4, <2>5, <2>6, <2>7, <2>8, <3>1, <3>2
    <3>3. CASE rd.key # Null
      <4>1. b <= rd.key
        BY <2>4, <2>5, <3>1, <3>3
      <4>2. b > rd.key
        BY <2>8, <3>3 DEF low
      <4> QED
        BY <2>3, <3>1, <4>1, <4>2
    <3> QED
      BY <3>2, <3>3
  <2> QED
    BY <2>3, <2>6, <2>8 DEF S, rd
<1> QED
  BY <1>1, InvariantHolds, PTL

\* When nextDateTime is null and no outage was hidden, the reader has the oldest
\* candle there is that was not lost between pages: of a coin always, of a stock
\* if its pauses fit the windows of AlpacaStockProvider, whatever the timeframe,
\* the limits and the moment the pages were made in.
THEOREM NullStaysTheEnd == Spec => []NullIsTheEnd
<1>1. IInv => NullIsTheEnd
  <2> SUFFICES ASSUME IInv, NEW r \in Readers, reader[r].key = Null, ~reader[r].failed,
                      reader[r].asset = "stocks" => Roomy(bars, now)
               PROVE  /\ reader[r].seen # {}
                      /\ \A b \in bars \ Lost(reader[r]) : Min(reader[r].seen) <= b
    BY DEF NullIsTheEnd
  <2> DEFINE S == reader[r].seen
             lost == Lost(reader[r])
  <2>1. ReaderFits(bars, now, reader[r])
    BY DEF IInv
  <2>2. \A b \in bars : b \in Nat
    BY InvariantClock, CandlesAssumption DEF IInv, TypeOK, CandlesAssumption
  <2>3. S \subseteq bars /\ S # {} /\ \A b \in bars \ lost : \E t \in S : t <= b
    BY <2>1 DEF ReaderFits, ScrollFits, ScrollEnds
  <2> HIDE DEF S, lost
  <2>4. Min(S) \in S /\ \A t \in S : Min(S) <= t /\ t \in Int
    <3>1. \A t \in S : t \in Nat
      BY <2>2, <2>3
    <3> QED
      BY <2>3, <3>1, HasMin
  <2>5. ASSUME NEW b \in bars \ lost PROVE Min(S) <= b
    <3>1. PICK t \in S : t <= b
      BY <2>3
    <3> QED
      BY <2>2, <2>4, <3>1
  <2> QED
    BY <2>3, <2>5 DEF S, lost
<1> QED
  BY <1>1, InvariantHolds, PTL

\* Every change of a stock in the cache is taken against the candle before, also at the end
\* of a page, unless Alpaca sent the page in pieces or nothing older was found.
THEOREM ChangesStayRight == Spec => []ChangeIsAgainstPrevious
<1>1. IInv => ChangeIsAgainstPrevious
  BY DEF IInv, PageFits, ChangesOf, ChangeIsAgainstPrevious
<1> QED
  BY <1>1, InvariantHolds, PTL

-----------------------------------------------------------------------------
(* Candles implements ScrollBack *)

\* Where what a start asks for ends.
From(a, k) == IF k = First \/ a = "crypto" THEN k ELSE k + 1

\* A page is a stretch of the history that begins at its start; between it and
\* its nextDateTime there is nothing.
LEMMA PageIsStretch ==
    ASSUME Clock, Horizon \in Nat, NEW a \in Assets, NEW k \in 0 .. First, StartIsPast(now, k),
           NEW page \in Page, PageIsContiguous(bars, a, k, page)
    PROVE  \E oldest \in 1 .. Horizon + 1, from \in 0 .. Horizon + 1 :
             /\ From(a, k) \in {First, from}
             /\ Listed(page) = {b \in bars : oldest <= b /\ b < from}
             /\ page.next # Null => Listed(page) # {} /\ page.next = oldest - 1
<1> DEFINE L == Listed(page)
           end == From(a, k)
<1>1. /\ L \subseteq bars
      /\ page.next # Null => L # {} /\ \A t \in L : page.next < t
      /\ k # First => \A t \in L : UpTo(a, k, L, t)
      /\ \A b \in bars \ L : UpTo(a, k, L, b) =>
           IF page.next = Null THEN \A t \in L : b < t ELSE b <= page.next
  BY DEF PageIsContiguous
<1>2. \A b \in bars : b \in Int /\ b \in 1 .. Horizon /\ b \in Nat
  BY DEF Clock, Times
<1>3. page.next \in {Null} \cup 0 .. Horizon
  BY DEF Page
<1>4. /\ k = First => end = First
      /\ k # First => /\ end \in 0 .. Horizon + 1
                      /\ \A b \in bars : UpTo(a, k, L, b) <=> b < end
  BY <1>2 DEF From, First, UpTo, Clock, StartIsPast
<1> HIDE DEF L, end
<1>5. CASE L = {}
  <2>1. page.next = Null
    BY <1>1, <1>5
  <2> DEFINE from == IF k = First THEN 0 ELSE end
  <2>2. from \in 0 .. Horizon + 1 /\ end \in {First, from}
    <3>1. CASE k = First
      BY <1>4, <3>1
    <3>2. CASE k # First
      BY <1>4, <3>2
    <3> QED
      BY <3>1, <3>2
  <2>3. {b \in bars : Horizon + 1 <= b /\ b < from} = {}
    BY <1>2, <2>2
  <2>4. Horizon + 1 \in 1 .. Horizon + 1
    OBVIOUS
  <2> HIDE DEF from
  <2> QED
    BY <1>5, <2>1, <2>2, <2>3, <2>4 DEF L, end
<1>6. CASE L # {}
  <2>1. Max(L) \in L /\ \A t \in L : t <= Max(L)
    <3>1. \A t \in L : t \in 1 .. Horizon
      BY <1>1, <1>2
    <3> QED
      BY <1>6, <3>1, HasMax
  <2>2. Min(L) \in L /\ \A t \in L : Min(L) <= t
    <3>1. \A t \in L : t \in Nat
      BY <1>1, <1>2
    <3> QED
      BY <1>6, <3>1, HasMin
  <2>3. /\ Max(L) \in 1 .. Horizon /\ Min(L) \in 1 .. Horizon
        /\ \A t \in L : t \in 1 .. Horizon /\ t \in Int
    BY <1>1, <1>2, <2>1, <2>2
  <2> DEFINE from == IF k = First THEN Max(L) + 1 ELSE end
             oldest == IF page.next = Null THEN Min(L) ELSE page.next + 1
  <2>4. from \in 0 .. Horizon + 1 /\ end \in {First, from}
    BY <1>4, <2>3
  <2>5. oldest \in 1 .. Horizon + 1 /\ (page.next # Null => page.next = oldest - 1)
    BY <1>3, <2>3 DEF Null
  <2>6. ASSUME NEW t \in L PROVE t \in bars /\ oldest <= t /\ t < from
    <3>1. t < from
      BY <1>1, <1>4, <2>1, <2>3
    <3>2. oldest <= t
      BY <1>1, <1>3, <2>2, <2>3
    <3> QED
      BY <1>1, <3>1, <3>2
  <2>7. ASSUME NEW b \in bars, oldest <= b, b < from PROVE b \in L
    <3> SUFFICES ASSUME b \notin L PROVE FALSE
      OBVIOUS
    <3>1. UpTo(a, k, L, b)
      <4>1. CASE k = First
        <5>1. b <= Max(L)
          BY <1>2, <2>3, <2>7, <4>1
        <5> QED
          BY <2>1, <4>1, <5>1 DEF UpTo
      <4>2. CASE k # First
        BY <1>4, <2>7, <4>2
      <4> QED
        BY <4>1, <4>2
    <3>2. IF page.next = Null THEN b < Min(L) ELSE b <= page.next
      BY <1>1, <2>2, <3>1
    <3>3. b \in Int
      BY <1>2
    <3> QED
      BY <1>3, <2>3, <2>7, <3>2, <3>3
  <2>8. L = {b \in bars : oldest <= b /\ b < from}
    BY <2>6, <2>7
  <2> HIDE DEF from, oldest
  <2> QED
    BY <1>6, <2>4, <2>5, <2>8 DEF L, end
<1> QED
  BY <1>5, <1>6

\* What ScrollBack sees of a step of one reader.
LEMMA SeenStep ==
    ASSUME IInv, NEW r \in Readers, NEW new, reader' = [reader EXCEPT ![r] = new]
    PROVE  /\ [q \in Readers |-> Place(reader'[q])]
                = [[q \in Readers |-> Place(reader[q])] EXCEPT ![r] = Place(new)]
           /\ [q \in Readers |-> reader'[q].seen]
                = [[q \in Readers |-> reader[q].seen] EXCEPT ![r] = new.seen]
           /\ [q \in Readers |-> reader'[q].asset = "crypto"]
                = [[q \in Readers |-> reader[q].asset = "crypto"] EXCEPT ![r] = (new.asset = "crypto")]
<1>1. reader \in [Readers -> Reader]
  BY DEF IInv, TypeOK
<1>2. \A q \in Readers : reader'[q] = IF q = r THEN new ELSE reader[q]
  BY <1>1
<1>3. /\ \A q \in Readers : Place(reader'[q]) = IF q = r THEN Place(new) ELSE Place(reader[q])
      /\ \A q \in Readers : reader'[q].seen = IF q = r THEN new.seen ELSE reader[q].seen
      /\ \A q \in Readers : (reader'[q].asset = "crypto")
                              = IF q = r THEN new.asset = "crypto" ELSE reader[q].asset = "crypto"
  BY <1>2
<1>4. [q \in Readers |-> Place(reader'[q])]
        = [[q \in Readers |-> Place(reader[q])] EXCEPT ![r] = Place(new)]
  BY <1>3
<1>5. [q \in Readers |-> reader'[q].seen]
        = [[q \in Readers |-> reader[q].seen] EXCEPT ![r] = new.seen]
  BY <1>3
<1>6. [q \in Readers |-> reader'[q].asset = "crypto"]
        = [[q \in Readers |-> reader[q].asset = "crypto"] EXCEPT ![r] = (new.asset = "crypto")]
  BY <1>3
<1> QED
  BY <1>4, <1>5, <1>6

LEMMA UnseenStep ==
    ASSUME IInv, NEW r \in Readers, NEW new, reader' = [reader EXCEPT ![r] = new],
           new.key = reader[r].key, new.seen = reader[r].seen, new.asset = reader[r].asset,
           UNCHANGED bars
    PROVE  UNCHANGED History!vars
<1>1. reader \in [Readers -> Reader]
  BY DEF IInv, TypeOK
<1>2. \A q \in Readers : /\ reader'[q].key = reader[q].key
                         /\ reader'[q].seen = reader[q].seen
                         /\ reader'[q].asset = reader[q].asset
  BY <1>1
<1>3. \A q \in Readers : Place(reader'[q]) = Place(reader[q])
  BY <1>2 DEF Place
<1> QED
  BY <1>2, <1>3 DEF History!vars

LEMMA AnswerGives ==
    ASSUME IInv, NEW r \in Readers, NEW page \in Page, reader[r].key # Null,
           PageFits(bars, now, reader[r].asset, reader[r].key, page),
           reader' = [reader EXCEPT ![r] = Answered(reader[r], page)], UNCHANGED bars
    PROVE  History!Next
<1> DEFINE rd == reader[r]
           L == Listed(page)
           new == Answered(rd, page)
<1>1. /\ Clock /\ Horizon \in Nat /\ rd \in Reader /\ ScrollFits(bars, rd)
      /\ bars \subseteq Times /\ StartIsPast(now, rd.key)
  BY InvariantClock, CandlesAssumption DEF IInv, ReaderFits, CandlesAssumption, Clock
<1>2. rd.key \in 0 .. First /\ rd.asset \in Assets
  BY <1>1 DEF Reader
<1>3. PageIsContiguous(bars, rd.asset, rd.key, page)
  BY DEF PageFits
<1>4. PICK oldest \in 1 .. Horizon + 1, from \in 0 .. Horizon + 1 :
        /\ From(rd.asset, rd.key) \in {First, from}
        /\ L = {b \in bars : oldest <= b /\ b < from}
        /\ page.next # Null => L # {} /\ page.next = oldest - 1
  BY <1>1, <1>2, <1>3, PageIsStretch
<1>5. L \subseteq bars /\ (rd.key # First => \A t \in L : t <= rd.key)
  BY <1>2, <1>3, <1>1 DEF PageIsContiguous, UpTo, Clock
<1>6. L \cap rd.seen = {}
  <2>1. rd.key = First => rd.seen = {}
    BY <1>1 DEF ScrollFits
  <2>2. \A t \in rd.seen : rd.key < t /\ t \in Int
    BY <1>1 DEF ScrollFits, Clock
  <2> QED
    BY <1>2, <1>5, <2>1, <2>2
<1>7. new.key = page.next /\ new.seen = rd.seen \cup L /\ new.asset = rd.asset
  BY <1>1, <1>5, AnsweredIs
<1>8. Place(rd) = From(rd.asset, rd.key)
  BY <1>2 DEF Place, From
<1>9. /\ page.next = Null => Place(new) = Null
      /\ page.next # Null => Place(new) = IF rd.asset = "crypto" THEN oldest - 1 ELSE oldest
  <2>1. page.next # Null => page.next # First /\ page.next + 1 = oldest
    BY <1>1, <1>4 DEF Page, First
  <2> QED
    BY <1>4, <1>7, <2>1 DEF Place
<1> HIDE DEF new, L
<1>10. /\ [q \in Readers |-> Place(reader'[q])]
            = [[q \in Readers |-> Place(reader[q])] EXCEPT ![r] = Place(new)]
       /\ [q \in Readers |-> reader'[q].seen]
            = [[q \in Readers |-> reader[q].seen] EXCEPT ![r] = @ \cup L]
       /\ [q \in Readers |-> reader'[q].asset = "crypto"]
            = [q \in Readers |-> reader[q].asset = "crypto"]
  <2>1. reader' = [reader EXCEPT ![r] = new]
    BY DEF new
  <2>2. /\ [q \in Readers |-> Place(reader'[q])]
             = [[q \in Readers |-> Place(reader[q])] EXCEPT ![r] = Place(new)]
        /\ [q \in Readers |-> reader'[q].seen]
             = [[q \in Readers |-> reader[q].seen] EXCEPT ![r] = new.seen]
        /\ [q \in Readers |-> reader'[q].asset = "crypto"]
             = [[q \in Readers |-> reader[q].asset = "crypto"] EXCEPT ![r] = (new.asset = "crypto")]
    BY <2>1, SeenStep
  <2>3. [q \in Readers |-> reader[q].seen][r] = rd.seen
    OBVIOUS
  <2>4. [[q \in Readers |-> reader[q].asset = "crypto"] EXCEPT ![r] = (new.asset = "crypto")]
          = [q \in Readers |-> reader[q].asset = "crypto"]
    BY <1>7, Zenon
  <2> QED
    BY <1>7, <2>2, <2>3, <2>4
<1>11. L = History!Stretch(oldest, from)
  BY <1>4 DEF History!Stretch
<1>12. History!Seam(r, oldest, oldest)
  BY <1>1 DEF History!Seam, History!Stretch, Times
<1>13. rd.asset = "crypto" => History!Seam(r, oldest - 1, oldest)
  <2>1. rd.asset = "crypto" => [q \in Readers |-> reader[q].asset = "crypto"][r]
    OBVIOUS
  <2>2. \A b, c \in History!Stretch(oldest - 1, oldest) : b = c
    <3>1. \A b \in History!Stretch(oldest - 1, oldest) : b \in Int /\ oldest - 1 <= b /\ b < oldest
      BY <1>1 DEF History!Stretch, Times
    <3> QED
      BY <3>1
  <2> QED
    BY <2>1, <2>2 DEF History!Seam
<1>14. [q \in Readers |-> Place(reader[q])][r] \in {First, from}
  BY <1>4, <1>8
<1>15. History!Stretch(oldest, from) \cap [q \in Readers |-> reader[q].seen][r] = {}
  BY <1>6, <1>11
<1>16. [q \in Readers |-> reader'[q].seen]
         = [[q \in Readers |-> reader[q].seen] EXCEPT ![r] = @ \cup History!Stretch(oldest, from)]
  BY <1>10, <1>11
<1>17. UNCHANGED <<bars, [q \in Readers |-> reader[q].asset = "crypto"]>>
  BY <1>10
<1>18. [q \in Readers |-> Place(reader'[q])]
         = [[q \in Readers |-> Place(reader[q])] EXCEPT ![r] = Place(new)]
  BY <1>10
<1>19. History!Give(r, oldest, from)
  <2>1. CASE page.next = Null
    BY <1>9, <1>14, <1>15, <1>16, <1>17, <1>18, <2>1 DEF History!Give
  <2>2. CASE page.next # Null
    <3>1. PICK rest \in 0 .. oldest : Place(new) = rest /\ History!Seam(r, rest, oldest)
      <4>1. CASE rd.asset = "crypto"
        <5>1. oldest - 1 \in 0 .. oldest
          OBVIOUS
        <5> QED
          BY <1>9, <1>13, <2>2, <4>1, <5>1
      <4>2. CASE rd.asset # "crypto"
        <5>1. oldest \in 0 .. oldest
          OBVIOUS
        <5> QED
          BY <1>9, <1>12, <2>2, <4>2, <5>1
      <4> QED
        BY <4>1, <4>2
    <3>2. History!Stretch(oldest, from) # {}
      BY <1>4, <1>11, <2>2
    <3> QED
      BY <1>14, <1>15, <1>16, <1>17, <1>18, <3>1, <3>2 DEF History!Give
  <2> QED
    BY <2>1, <2>2
<1> QED
  BY <1>19 DEF History!Next

LEMMA InitHistory == Init => History!Init
<1> SUFFICES ASSUME Init PROVE History!Init
  OBVIOUS
<1>1. bars \subseteq 1 .. Horizon
  BY InitIInv, InvariantClock, CandlesAssumption DEF IInv, Clock, Times
<1>2. \A r \in Readers : reader[r].key = First /\ reader[r].seen = {}
  BY ScrollsAreReaders DEF Init
<1>3. \A r \in Readers : Place(reader[r]) = First
  BY <1>2 DEF Place
<1> QED
  BY <1>1, <1>2, <1>3 DEF History!Init

LEMMA StepHistory == IInv /\ [Next]_vars => [History!Next]_(History!vars)
<1> SUFFICES ASSUME IInv, [Next]_vars PROVE [History!Next]_(History!vars)
  OBVIOUS
<1>1. /\ DOMAIN pages \subseteq Keys /\ pages \in [DOMAIN pages -> Page]
      /\ \A k \in DOMAIN pages : PageFits(bars, now, k[1], k[2], pages[k])
      /\ reader \in [Readers -> Reader] /\ \A q \in Readers : ReaderFits(bars, now, reader[q])
  BY DEF IInv, TypeOK
<1>2. ASSUME NEW r \in Readers, Ask(r) PROVE UNCHANGED History!vars
  <2> DEFINE new == [reader[r] EXCEPT !.step = "lookup", !.seams = Seams(reader[r])]
  <2>1. reader' = [reader EXCEPT ![r] = new] /\ UNCHANGED bars
    BY <1>1, <1>2 DEF Ask
  <2>2. /\ new.key = reader[r].key
        /\ new.seen = reader[r].seen
        /\ new.asset = reader[r].asset
    BY <1>1 DEF Reader
  <2> HIDE DEF new
  <2> QED
    BY <2>1, <2>2, UnseenStep
<1>3. ASSUME NEW r \in Readers, Reopen(r) PROVE History!Next
  <2>1. PICK scroll \in Scrolls : reader' = [reader EXCEPT ![r] = scroll]
    BY <1>3 DEF Reopen
  <2>2. scroll.key = First /\ scroll.seen = {}
    BY ScrollsAreReaders
  <2>3. Place(scroll) = First
    BY <2>2 DEF Place
  <2>4. /\ [q \in Readers |-> Place(reader'[q])]
             = [[q \in Readers |-> Place(reader[q])] EXCEPT ![r] = Place(scroll)]
        /\ [q \in Readers |-> reader'[q].seen]
             = [[q \in Readers |-> reader[q].seen] EXCEPT ![r] = scroll.seen]
        /\ [q \in Readers |-> reader'[q].asset = "crypto"]
             = [[q \in Readers |-> reader[q].asset = "crypto"]
                  EXCEPT ![r] = (scroll.asset = "crypto")]
    BY <2>1, SeenStep
  <2>5. \E coin \in BOOLEAN :
          [q \in Readers |-> reader'[q].asset = "crypto"]
            = [[q \in Readers |-> reader[q].asset = "crypto"] EXCEPT ![r] = coin]
    <3>1. (scroll.asset = "crypto") \in BOOLEAN
      OBVIOUS
    <3> QED
      BY <2>4, <3>1, Zenon
  <2>6. History!StartOver(r)
    BY <1>3, <2>2, <2>3, <2>4, <2>5 DEF Reopen, History!StartOver
  <2> QED
    BY <2>6 DEF History!Next
<1>4. ASSUME NEW r \in Readers, ReadCache(r) PROVE History!Next \/ UNCHANGED History!vars
  <2>1. /\ reader[r] \in Reader /\ ReaderFits(bars, now, reader[r])
        /\ reader[r].step = "lookup" /\ UNCHANGED bars
    BY <1>1, <1>4 DEF ReadCache
  <2>2. reader[r].key # Null
    BY <2>1 DEF ReaderFits, Asks
  <2>3. CASE CacheKey(r) \in DOMAIN pages
    <3>1. /\ pages[CacheKey(r)] \in Page
          /\ PageFits(bars, now, reader[r].asset, reader[r].key, pages[CacheKey(r)])
      BY <1>1, <2>3 DEF CacheKey
    <3>2. reader' = [reader EXCEPT ![r] = Answered(reader[r], pages[CacheKey(r)])]
      BY <1>4, <2>3 DEF ReadCache
    <3> QED
      BY <2>1, <2>2, <3>1, <3>2, AnswerGives
  <2>4. CASE CacheKey(r) \notin DOMAIN pages
    <3>1. reader' = [reader EXCEPT ![r] = [reader[r] EXCEPT !.step = "fetch"]]
      BY <1>4, <2>4 DEF ReadCache
    <3>2. /\ [reader[r] EXCEPT !.step = "fetch"].key = reader[r].key
          /\ [reader[r] EXCEPT !.step = "fetch"].seen = reader[r].seen
          /\ [reader[r] EXCEPT !.step = "fetch"].asset = reader[r].asset
      BY <2>1 DEF Reader
    <3> QED
      BY <2>1, <3>1, <3>2, UnseenStep
  <2> QED
    BY <2>3, <2>4
<1>5. ASSUME NEW r \in Readers, FetchStock(r) \/ FetchCrypto(r) PROVE UNCHANGED History!vars
  <2>1. PICK page : reader' = [reader EXCEPT ![r].step = "store", ![r].page = page]
    BY <1>5 DEF FetchStock, FetchCrypto
  <2>2. reader' = [reader EXCEPT ![r] = [reader[r] EXCEPT !.step = "store", !.page = page]]
    BY <1>1, <2>1
  <2>3. /\ [reader[r] EXCEPT !.step = "store", !.page = page].key = reader[r].key
        /\ [reader[r] EXCEPT !.step = "store", !.page = page].seen = reader[r].seen
        /\ [reader[r] EXCEPT !.step = "store", !.page = page].asset = reader[r].asset
    BY <1>1 DEF Reader
  <2>4. UNCHANGED bars
    BY <1>5 DEF FetchStock, FetchCrypto
  <2> QED
    BY <2>2, <2>3, <2>4, UnseenStep
<1>6. ASSUME NEW r \in Readers, Fails(r) PROVE UNCHANGED History!vars
  <2>1. reader' = [reader EXCEPT ![r] = Rejected(reader[r])] /\ UNCHANGED bars
    BY <1>6 DEF Fails
  <2>2. /\ Rejected(reader[r]).key = reader[r].key
        /\ Rejected(reader[r]).seen = reader[r].seen
        /\ Rejected(reader[r]).asset = reader[r].asset
    BY <1>1 DEF Reader, Rejected
  <2> QED
    BY <2>1, <2>2, UnseenStep
<1>7. ASSUME NEW r \in Readers, Store(r) PROVE History!Next
  <2>1. /\ reader[r] \in Reader /\ ReaderFits(bars, now, reader[r]) /\ reader[r].step = "store"
        /\ reader' = [reader EXCEPT ![r] = Answered(reader[r], reader[r].page)]
        /\ UNCHANGED bars
    BY <1>1, <1>7 DEF Store
  <2>2. /\ reader[r].page \in Page /\ reader[r].key # Null
        /\ PageFits(bars, now, reader[r].asset, reader[r].key, reader[r].page)
    BY <2>1 DEF Reader, ReaderFits, Asks
  <2> QED
    BY <2>1, <2>2, AnswerGives
<1>8. ASSUME NEW k \in Keys, Expire(k) PROVE UNCHANGED History!vars
  BY <1>8 DEF Expire, History!vars
<1>9. ASSUME Pass PROVE History!Next \/ UNCHANGED History!vars
  <2>1. /\ now < Horizon /\ bars' \in {bars, bars \cup {now + 1}} /\ reader' = reader
        /\ now \in 0 .. Horizon /\ bars \subseteq 1 .. now /\ Horizon \in Nat
    BY <1>9, CandlesAssumption DEF Pass, IInv, TypeOK, CandlesAssumption
  <2>2. CASE bars' = bars
    BY <2>1, <2>2 DEF History!vars
  <2>3. CASE bars' = bars \cup {now + 1}
    <3>1. now + 1 \in 1 .. Horizon /\ \A b \in bars : b < now + 1
      BY <2>1
    <3>2. \A r \in Readers : Place(reader[r]) \in {First, Null} \/ Place(reader[r]) <= now + 1
      <4> TAKE r \in Readers
      <4>1. reader[r].key \in {Null} \cup 0 .. First /\ StartIsPast(now, reader[r].key)
        BY <1>1 DEF Reader, ReaderFits
      <4> QED
        BY <2>1, <4>1 DEF StartIsPast, First, Place
    <3>3. [r \in Readers |-> Place(reader[r])]' = [r \in Readers |-> Place(reader[r])]
      BY <2>1
    <3>4. /\ [r \in Readers |-> reader[r].seen]' = [r \in Readers |-> reader[r].seen]
          /\ [r \in Readers |-> reader[r].asset = "crypto"]'
               = [r \in Readers |-> reader[r].asset = "crypto"]
      BY <2>1
    <3>5. History!Trade(now + 1)
      BY <2>3, <3>1, <3>2, <3>3, <3>4 DEF History!Trade
    <3> QED
      BY <3>1, <3>5 DEF History!Next
  <2> QED
    BY <2>1, <2>2, <2>3
<1>10. CASE UNCHANGED vars
  BY <1>10 DEF vars, History!vars
<1> QED
  BY <1>2, <1>3, <1>4, <1>5, <1>6, <1>7, <1>8, <1>9, <1>10 DEF Next

\* Whoever follows nextDateTime is only ever given the next stretch of the
\* history, from where the last answer ended, nothing left out, nothing twice.
THEOREM CandlesScrollBack == Spec => ScrollsBack
BY InitHistory, StepHistory, InvariantHolds, PTL DEF Spec, ScrollsBack, History!Spec

=============================================================================
