------------------------ MODULE MetricsFramesProofs ------------------------
(***************************************************************************)
(* Proofs about LatencyHistogram and MetricsFrames: no tick count falls    *)
(* outside the buckets, and the counts of the buckets add up.              *)
(***************************************************************************)
EXTENDS MetricsFrames, NumberLemmas, SequenceTheorems, TLAPS

-----------------------------------------------------------------------------
(* Powers of two.                                                          *)

PowStep(g, n) == IF n = 0 THEN 1 ELSE 2 * g[n - 1]

\* The recursion has a solution on 0 .. W.
LEMMA PowExists == \E g : g = [n \in 0 .. W |-> PowStep(g, n)]
  <1> DEFINE Ok(m) == \E g : g = [n \in 0 .. m |-> PowStep(g, n)]
             Bad == {m \in Nat : ~Ok(m)}
  <1>1. Ok(0)
    <2> DEFINE g == [n \in 0 .. 0 |-> 1]
    <2>1. \A n \in 0 .. 0 : PowStep(g, n) = 1
      BY DEF PowStep
    <2>2. g = [n \in 0 .. 0 |-> PowStep(g, n)]
      BY <2>1
    <2> QED
      BY <2>2
  <1>2. ASSUME NEW m \in Nat, Ok(m) PROVE Ok(m + 1)
    <2>1. PICK h : h = [n \in 0 .. m |-> PowStep(h, n)]
      BY <1>2
    <2> DEFINE g == [n \in 0 .. m + 1 |-> PowStep(h, n)]
    <2>2. \A n \in 0 .. m : n \in 0 .. m + 1 /\ g[n] = h[n]
      BY <2>1
    <2>3. \A n \in 0 .. m + 1 : n # 0 => n - 1 \in 0 .. m
      OBVIOUS
    <2> HIDE DEF g
    <2>4. \A n \in 0 .. m + 1 : PowStep(g, n) = PowStep(h, n)
      BY <2>2, <2>3 DEF PowStep
    <2>5. g = [n \in 0 .. m + 1 |-> PowStep(g, n)]
      BY <2>4 DEF g
    <2> QED
      BY <2>5
  <1> HIDE DEF Ok
  <1>3. Bad = {}
    <2> SUFFICES ASSUME Bad # {} PROVE FALSE
      OBVIOUS
    <2>1. PICK m \in Bad : \A k \in Bad : m <= k
      BY LeastNumber
    <2>2. m # 0 /\ m \in Nat
      BY <1>1, <2>1
    <2>3. m - 1 \in Nat /\ m - 1 \notin Bad
      BY <2>1, <2>2
    <2>4. Ok((m - 1) + 1)
      BY <1>2, <2>3
    <2> QED
      BY <2>1, <2>2, <2>4
  <1>4. Ok(W)
    BY <1>3, HistogramAssumption
  <1> QED
    BY <1>4 DEF Ok

\* Each power of two is twice the one before.
LEMMA PowTwice ==
    /\ pow2[0] = 1
    /\ \A n \in 0 .. W : n # 0 => pow2[n] = 2 * pow2[n - 1]
  <1>1. pow2 = CHOOSE g : g = [n \in 0 .. W |-> PowStep(g, n)]
    BY DEF pow2, PowStep
  <1>2. pow2 = [n \in 0 .. W |-> PowStep(pow2, n)]
    BY <1>1, PowExists
  <1>3. 0 \in 0 .. W
    BY HistogramAssumption
  <1> QED
    BY <1>2, <1>3 DEF PowStep

\* Powers of two are positive and grow.
LEMMA PowGrows ==
    \A n \in 0 .. W : pow2[n] \in Nat \ {0} /\ \A m \in 0 .. n : pow2[m] <= pow2[n]
  <1> DEFINE Ok(n) == pow2[n] \in Nat \ {0} /\ \A m \in 0 .. n : pow2[m] <= pow2[n]
             Bad == {n \in 0 .. W : ~Ok(n)}
  <1> SUFFICES ASSUME Bad # {} PROVE FALSE
    OBVIOUS
  <1>1. W \in Nat /\ Bad \in SUBSET Nat
    BY HistogramAssumption
  <1>2. PICK n \in Bad : \A k \in Bad : n <= k
    BY <1>1, LeastNumber
  <1>3. n \in 0 .. W /\ ~Ok(n)
    BY <1>2
  <1>4. CASE n = 0
    <2>1. pow2[0] = 1 /\ 0 .. 0 = {0}
      BY PowTwice
    <2> QED
      BY <1>3, <1>4, <2>1
  <1>5. CASE n # 0
    <2>1. n - 1 \in 0 .. W /\ n - 1 \notin Bad
      BY <1>1, <1>2, <1>3, <1>5
    <2>2. Ok(n - 1) /\ pow2[n] = 2 * pow2[n - 1]
      BY <1>3, <1>5, <2>1, PowTwice
    <2>3. pow2[n] \in Nat \ {0} /\ pow2[n - 1] \in Nat /\ pow2[n - 1] <= pow2[n]
      BY <2>2
    <2>4. ASSUME NEW m \in 0 .. n PROVE pow2[m] <= pow2[n]
      <3>1. CASE m = n
        BY <2>3, <3>1
      <3>2. CASE m # n
        <4>1. m \in 0 .. n - 1 /\ m \in 0 .. W /\ m \notin Bad
          BY <1>1, <1>2, <1>3, <2>4, <3>2
        <4>2. pow2[m] <= pow2[n - 1] /\ pow2[m] \in Nat
          BY <2>2, <4>1
        <4> QED
          BY <2>3, <4>2
      <3> QED
        BY <3>1, <3>2
    <2> QED
      BY <1>3, <2>3, <2>4
  <1> QED
    BY <1>4, <1>5

\* The constants: sub-buckets, buckets and the largest tick count.
LEMMA Sizes ==
    /\ SUB_BITS \in Nat /\ W \in Nat /\ SUB_BITS < W
    /\ SUB \in Nat \ {0} /\ MaxTicks \in Nat /\ SUB <= MaxTicks + 1 /\ MaxTicks + 1 = pow2[W]
    /\ SUB = pow2[SUB_BITS]
  <1>1. SUB_BITS \in 0 .. W /\ W \in 0 .. W /\ SUB_BITS \in Nat /\ W \in Nat /\ SUB_BITS < W
    BY HistogramAssumption
  <1>2. pow2[W] \in Nat \ {0} /\ pow2[SUB_BITS] \in Nat \ {0} /\ pow2[SUB_BITS] <= pow2[W]
    BY <1>1, PowGrows
  <1> QED
    BY <1>1, <1>2 DEF SUB, MaxTicks

\* A tick count has a highest bit that is set.
LEMMA MsbRight ==
    ASSUME NEW v \in 1 .. MaxTicks
    PROVE  msb(v) \in 0 .. W - 1 /\ pow2[msb(v)] <= v /\ v < pow2[msb(v) + 1]
  <1> DEFINE Above == {n \in 0 .. W : v < pow2[n]}
  <1>1. v \in Nat /\ v >= 1 /\ v < pow2[W] /\ W \in Nat /\ \A n \in 0 .. W : pow2[n] \in Nat
    BY Sizes, PowGrows
  <1>2. W \in Above /\ Above \in SUBSET Nat
    BY <1>1
  <1>3. PICK n \in Above : \A k \in Above : n <= k
    BY <1>2, LeastNumber
  <1>4. n \in 0 .. W /\ v < pow2[n]
    BY <1>3
  <1>5. n # 0
    BY <1>1, <1>4, PowTwice
  <1>6. n - 1 \in 0 .. W - 1 /\ n - 1 \in 0 .. W /\ (n - 1) + 1 = n
    BY <1>1, <1>4, <1>5
  <1>7. n - 1 \notin Above
    BY <1>1, <1>3, <1>4
  <1>8. pow2[n - 1] <= v
    BY <1>1, <1>6, <1>7
  <1>9. \E b \in 0 .. W - 1 : pow2[b] <= v /\ v < pow2[b + 1]
    BY <1>4, <1>6, <1>8
  <1> QED
    BY <1>9 DEF msb

\* a whole rows of S places and part of the next lie within b rows.
LEMMA RowsFit ==
    ASSUME NEW S \in Nat \ {0}, NEW a \in Nat, NEW b \in Nat, a < b, NEW r \in 0 .. S - 1
    PROVE  (a * S) + r \in 0 .. (b * S) - 1
  <1>1. PICK c \in Nat : b = a + 1 + c
    <2>1. b - a - 1 \in Nat /\ b = a + 1 + (b - a - 1)
      OBVIOUS
    <2> QED
      BY <2>1
  <1>2. b * S = (a * S) + S + (c * S)
    BY <1>1
  <1>3. a * S \in Nat /\ c * S \in Nat
    OBVIOUS
  <1> QED
    BY <1>2, <1>3

-----------------------------------------------------------------------------
(* What a bucket stands for.                                               *)

\* A shift by SUB_BITS + k places is a shift by SUB_BITS and one by k.
LEMMA PowSum ==
    \A k \in 0 .. W - SUB_BITS : pow2[SUB_BITS + k] = SUB * pow2[k]
  <1> DEFINE Bad == {k \in 0 .. W - SUB_BITS : pow2[SUB_BITS + k] # SUB * pow2[k]}
  <1> SUFFICES ASSUME Bad # {} PROVE FALSE
    OBVIOUS
  <1>1. SUB_BITS \in Nat /\ W \in Nat /\ SUB_BITS < W /\ SUB \in Nat /\ SUB = pow2[SUB_BITS]
    BY Sizes
  <1>2. Bad \in SUBSET Nat
    BY <1>1
  <1>3. PICK k \in Bad : \A j \in Bad : k <= j
    BY <1>2, LeastNumber
  <1>4. k \in 0 .. W - SUB_BITS /\ pow2[SUB_BITS + k] # SUB * pow2[k]
    BY <1>3
  <1>5. CASE k = 0
    <2>1. SUB_BITS + k = SUB_BITS /\ SUB * 1 = SUB
      BY <1>1, <1>5
    <2> QED
      BY <1>1, <1>4, <1>5, <2>1, PowTwice
  <1>6. CASE k # 0
    <2>1. /\ k - 1 \in 0 .. W - SUB_BITS /\ k - 1 \notin Bad /\ k - 1 \in 0 .. W
          /\ SUB_BITS + (k - 1) = SUB_BITS + k - 1 /\ SUB_BITS + k \in 0 .. W /\ SUB_BITS + k # 0
          /\ k \in 0 .. W
      BY <1>1, <1>3, <1>4, <1>6
    <2>2. PICK p \in Nat : p = pow2[k - 1]
      BY <2>1, PowGrows
    <2>3. pow2[SUB_BITS + k - 1] = SUB * p
      BY <2>1, <2>2
    <2>4. pow2[SUB_BITS + k] = 2 * (SUB * p) /\ pow2[k] = 2 * p
      <3>1. PICK n \in 0 .. W : n = SUB_BITS + k /\ n # 0
        BY <2>1
      <3>2. pow2[n] = 2 * pow2[n - 1] /\ pow2[k] = 2 * pow2[k - 1]
        BY <1>6, <2>1, <3>1, PowTwice
      <3>3. pow2[n - 1] = SUB * p
        <4>1. n - 1 = SUB_BITS + k - 1
          BY <1>1, <1>4, <3>1
        <4> QED
          BY <2>3, <4>1
      <3>4. pow2[n] = 2 * (SUB * p)
        BY <3>2, <3>3
      <3>5. pow2[k] = 2 * p
        BY <2>2, <3>2
      <3> QED
        BY <3>1, <3>4, <3>5
    <2>5. 2 * (SUB * p) = SUB * (2 * p)
      BY <1>1
    <2> QED
      BY <1>4, <2>4, <2>5
  <1> QED
    BY <1>5, <1>6

\* Quotient and remainder are the only ones.
LEMMA DivModIs ==
    ASSUME NEW m \in Nat \ {0}, NEW q \in Int, NEW r \in 0 .. m - 1
    PROVE  ((q * m) + r) \div m = q /\ ((q * m) + r) % m = r
  <1>1. PICK a \in Int : a = (q * m) + r
    OBVIOUS
  <1>2. a % m = r
    BY <1>1, DivModUnique
  <1>3. PICK d \in Int : d = a \div m
    BY DivMod
  <1>4. a = (m * d) + r
    BY <1>2, <1>3, DivMod
  <1>5. d = q
    <2>1. m * (d - q) = 0
      BY <1>1, <1>4
    <2> QED
      BY <2>1
  <1> QED
    BY <1>1, <1>2, <1>3, <1>5

\* Above the lowest octave: v lies in octave k of the log region, its quotient by the
\* width 2^k of a bucket is SUB and the number of its bucket within the octave.
Placed(v, k, p, r) ==
    /\ k \in 0 .. W - SUB_BITS - 1 /\ p \in Nat \ {0} /\ p = pow2[k] /\ r \in 0 .. SUB - 1
    /\ bucketOf(v) = ((k + 1) * SUB) + r
    /\ (SUB + r) * p <= v /\ v < ((SUB + r) * p) + p /\ SUB * p <= v

\* Every such tick count has its place.
LEMMA HasPlace ==
    ASSUME NEW v \in 0 .. MaxTicks, ~(v < SUB)
    PROVE  \E k, p, r : Placed(v, k, p, r)
  <1>1. /\ SUB_BITS \in Nat /\ W \in Nat /\ SUB_BITS < W /\ v \in Nat
        /\ SUB \in Nat \ {0} /\ MaxTicks \in Nat /\ SUB = pow2[SUB_BITS]
    BY Sizes
  <1>2. v \in 1 .. MaxTicks
    BY <1>1
  <1>3. PICK b \in 0 .. W - 1 : b = msb(v) /\ pow2[b] <= v /\ v < pow2[b + 1]
    BY <1>2, MsbRight
  <1>4. b >= SUB_BITS
    <2> SUFFICES ASSUME b < SUB_BITS PROVE FALSE
      BY <1>1, <1>3
    <2>1. b + 1 \in 0 .. SUB_BITS /\ SUB_BITS \in 0 .. W /\ b + 1 \in 0 .. W
      BY <1>1
    <2>2. pow2[b + 1] <= SUB /\ pow2[b + 1] \in Nat
      BY <1>1, <2>1, PowGrows
    <2> QED
      BY <1>1, <1>3, <2>2
  <1>5. PICK k \in 0 .. W - SUB_BITS - 1 : k = b - SUB_BITS
    BY <1>1, <1>4
  <1>6. /\ k \in 0 .. W - SUB_BITS /\ k + 1 \in 0 .. W - SUB_BITS /\ k \in 0 .. W /\ k + 1 \in 0 .. W
        /\ SUB_BITS + k = b /\ SUB_BITS + (k + 1) = b + 1 /\ (k + 1) - 1 = k /\ k + 1 # 0
    BY <1>1, <1>5
  <1>7. PICK p \in Nat \ {0} : p = pow2[k]
    BY <1>6, PowGrows
  <1>8. pow2[b] = SUB * p /\ pow2[k + 1] = 2 * p /\ pow2[b + 1] = SUB * (2 * p)
    <2>1. pow2[k + 1] = 2 * p
      BY <1>6, <1>7, PowTwice
    <2> QED
      BY <1>6, <1>7, <2>1, PowSum
  <1>9. PICK q \in Int, e \in 0 .. p - 1 : q = v \div p /\ v = (p * q) + e
    <2>1. v \in Int
      BY <1>1
    <2>2. v \div p \in Int /\ (v % p) \in 0 .. p - 1 /\ v = (p * (v \div p)) + (v % p)
      BY <2>1, DivMod
    <2> QED
      BY <2>2
  <1>10. SUB * p <= v /\ v < SUB * (2 * p)
    BY <1>3, <1>8
  <1>11. q >= SUB
    <2> SUFFICES ASSUME q + 1 <= SUB PROVE FALSE
      BY <1>1, <1>9
    <2>1. PICK c \in Nat : SUB = q + 1 + c
      <3>1. SUB - q - 1 \in Nat /\ SUB = q + 1 + (SUB - q - 1)
        BY <1>1
      <3> QED
        BY <3>1
    <2>2. SUB * p = (p * q) + p + (c * p) /\ c * p \in Nat
      BY <2>1
    <2> QED
      BY <1>9, <1>10, <2>2
  <1>12. q < 2 * SUB
    <2> SUFFICES ASSUME q >= 2 * SUB PROVE FALSE
      BY <1>1, <1>9
    <2>1. PICK c \in Nat : q = (2 * SUB) + c
      <3>1. q - (2 * SUB) \in Nat /\ q = (2 * SUB) + (q - (2 * SUB))
        BY <1>1
      <3> QED
        BY <3>1
    <2>2. p * q = (SUB * (2 * p)) + (c * p)
      BY <1>1, <2>1
    <2>3. PICK x \in Nat, y \in Nat : x = SUB * (2 * p) /\ y = c * p
      BY <1>1
    <2>4. v = x + y + e /\ v < x
      BY <1>9, <1>10, <2>2, <2>3
    <2> QED
      BY <1>1, <2>3, <2>4
  <1>13. PICK r \in 0 .. SUB - 1 : q = SUB + r
    <2>1. q - SUB \in 0 .. SUB - 1 /\ q = SUB + (q - SUB)
      BY <1>1, <1>9, <1>11, <1>12
    <2> QED
      BY <2>1
  <1>14. q % SUB = r
    <2>1. q \in 0 .. (2 * SUB) - 1 /\ ~(q < SUB) /\ q - SUB = r
      BY <1>1, <1>12, <1>13
    <2> QED
      BY <1>1, <2>1, ModOnce
  <1>15. bucketOf(v) = ((k + 1) * SUB) + r
    BY <1>3, <1>5, <1>7, <1>9, <1>14 DEF bucketOf
  <1>16. p * q = (SUB + r) * p
    BY <1>1, <1>13
  <1>17. (SUB + r) * p <= v /\ v < ((SUB + r) * p) + p
    BY <1>1, <1>9, <1>16
  <1>18. Placed(v, k, p, r)
    BY <1>7, <1>10, <1>15, <1>17 DEF Placed
  <1> QED
    BY <1>18

\* Every tick count has a bucket, up to the largest.
LEMMA BucketRight ==
    ASSUME NEW v \in 0 .. MaxTicks
    PROVE  bucketOf(v) \in 0 .. NB - 1
  <1>1. SUB_BITS \in Nat /\ W \in Nat /\ SUB_BITS < W /\ v \in Nat /\ SUB \in Nat \ {0}
    BY Sizes
  <1>2. PICK rows \in Nat : rows = W - SUB_BITS + 1 /\ NB = rows * SUB /\ 0 < rows
    BY <1>1 DEF NB
  <1>3. CASE v < SUB
    <2>1. v \in 0 .. SUB - 1
      BY <1>1, <1>3
    <2>2. (0 * SUB) + v \in 0 .. (rows * SUB) - 1
      BY <1>1, <1>2, <2>1, RowsFit
    <2>3. (0 * SUB) + v = v
      BY <1>1
    <2> QED
      BY <1>2, <1>3, <2>2, <2>3 DEF bucketOf
  <1>4. CASE ~(v < SUB)
    <2>1. PICK k, p, r : Placed(v, k, p, r)
      BY <1>4, HasPlace
    <2>2. PICK j \in Nat : j = k + 1 /\ j < rows /\ r \in 0 .. SUB - 1 /\ bucketOf(v) = (j * SUB) + r
      BY <1>1, <1>2, <2>1 DEF Placed
    <2>3. (j * SUB) + r \in 0 .. (rows * SUB) - 1
      BY <1>1, <2>2, RowsFit
    <2> QED
      BY <1>2, <2>2, <2>3
  <1> QED
    BY <1>3, <1>4

\* latency_histogram.hpp, on bucketOf: "value -> bucket index (monotonic in value)".  The
\* running sums of percentile() follow the order of the values because of it.
THEOREM BucketMonotonic ==
    \A v, u \in 0 .. MaxTicks : v <= u => bucketOf(v) <= bucketOf(u)
  <1> SUFFICES ASSUME NEW v \in 0 .. MaxTicks, NEW u \in 0 .. MaxTicks, v <= u
               PROVE  bucketOf(v) <= bucketOf(u)
    OBVIOUS
  <1>1. SUB_BITS \in Nat /\ W \in Nat /\ SUB_BITS < W /\ v \in Nat /\ u \in Nat /\ SUB \in Nat \ {0}
    BY Sizes
  <1>2. CASE u < SUB
    <2>1. v < SUB
      BY <1>1, <1>2
    <2> QED
      BY <1>2, <2>1 DEF bucketOf
  <1>3. CASE ~(u < SUB)
    <2>1. PICK l, s, t : Placed(u, l, s, t)
      BY <1>3, HasPlace
    <2>2. /\ l \in 0 .. W - SUB_BITS - 1 /\ l \in Nat /\ s \in Nat \ {0} /\ s = pow2[l] /\ t \in 0 .. SUB - 1
          /\ bucketOf(u) = ((l + 1) * SUB) + t /\ u < ((SUB + t) * s) + s
      BY <1>1, <2>1 DEF Placed
    <2>3. CASE v < SUB
      <3>1. (l + 1) * SUB = (l * SUB) + SUB /\ l * SUB \in Nat
        BY <1>1, <2>2
      <3>2. v <= ((l + 1) * SUB) + t
        BY <1>1, <2>2, <2>3, <3>1
      <3>3. bucketOf(v) = v
        BY <2>3 DEF bucketOf
      <3> QED
        BY <2>2, <3>2, <3>3
    <2>4. CASE ~(v < SUB)
      <3>1. PICK k, p, r : Placed(v, k, p, r)
        BY <2>4, HasPlace
      <3>2. /\ k \in 0 .. W - SUB_BITS - 1 /\ k \in Nat /\ p \in Nat \ {0} /\ p = pow2[k] /\ r \in 0 .. SUB - 1
            /\ bucketOf(v) = ((k + 1) * SUB) + r /\ (SUB + r) * p <= v /\ SUB * p <= v
        BY <1>1, <3>1 DEF Placed
      <3>3. CASE k < l
        <4>1. PICK j \in Nat, i \in Nat : j = k + 1 /\ i = l + 1 /\ j < i
          BY <2>2, <3>2, <3>3
        <4>2. (j * SUB) + r \in 0 .. (i * SUB) - 1
          BY <1>1, <3>2, <4>1, RowsFit
        <4>3. i * SUB \in Nat
          BY <1>1
        <4>4. (j * SUB) + r <= (i * SUB) + t
          BY <1>1, <2>2, <4>2, <4>3
        <4> QED
          BY <2>2, <3>2, <4>1, <4>4
      <3>4. CASE k = l
        <4>1. p = s
          BY <2>2, <3>2, <3>4
        <4>2. r <= t
          <5> SUFFICES ASSUME t + 1 <= r PROVE FALSE
            BY <1>1, <2>2, <3>2
          <5>1. PICK c \in Nat : r = t + 1 + c
            <6>1. r - t - 1 \in Nat /\ r = t + 1 + (r - t - 1)
              BY <1>1, <2>2, <3>2
            <6> QED
              BY <6>1
          <5>2. (SUB + r) * p = ((SUB + t) * p) + p + (c * p)
            BY <1>1, <2>2, <3>2, <5>1
          <5>3. PICK x \in Nat, y \in Nat : x = (SUB + t) * p /\ y = c * p
            BY <1>1, <2>2, <3>2
          <5>4. x + p + y <= v /\ u < x + p
            BY <2>2, <3>2, <4>1, <5>2, <5>3
          <5>5. p \in Nat
            BY <3>2
          <5> QED
            BY <1>1, <5>4, <5>5
        <4>3. (l + 1) * SUB \in Nat
          BY <1>1, <2>2
        <4>4. ((l + 1) * SUB) + r <= ((l + 1) * SUB) + t
          BY <1>1, <2>2, <3>2, <4>2, <4>3
        <4> QED
          BY <2>2, <3>2, <3>4, <4>4
      <3>5. CASE l < k
        <4>1. l + 1 \in 0 .. k /\ k \in 0 .. W /\ l + 1 \in 0 .. W /\ l + 1 # 0 /\ (l + 1) - 1 = l
          BY <1>1, <2>2, <3>2, <3>5
        <4>2. pow2[l + 1] <= pow2[k] /\ pow2[l + 1] = 2 * s
          BY <2>2, <4>1, PowTwice, PowGrows
        <4>3. PICK c \in Nat : p = (2 * s) + c
          <5>1. 2 * s <= p
            BY <3>2, <4>2
          <5>2. p - (2 * s) \in Nat /\ p = (2 * s) + (p - (2 * s))
            BY <2>2, <3>2, <5>1
          <5> QED
            BY <5>2
        <4>4. PICK d \in Nat : SUB = t + 1 + d
          <5>1. SUB - t - 1 \in Nat /\ SUB = t + 1 + (SUB - t - 1)
            BY <1>1, <2>2
          <5> QED
            BY <5>1
        <4>5. SUB * p = ((SUB + t) * s) + s + (d * s) + (SUB * c)
          <5>1. SUB * p = (SUB * s) + (SUB * s) + (SUB * c)
            BY <1>1, <2>2, <4>3
          <5>2. SUB * s = (t * s) + s + (d * s)
            BY <2>2, <4>4
          <5>3. (SUB + t) * s = (SUB * s) + (t * s)
            BY <1>1, <2>2
          <5>4. PICK a1 \in Nat, a2 \in Nat, a3 \in Nat, a4 \in Nat :
                    a1 = SUB * s /\ a2 = t * s /\ a3 = d * s /\ a4 = SUB * c
            BY <1>1, <2>2
          <5> QED
            BY <2>2, <5>1, <5>2, <5>3, <5>4
        <4>6. PICK x \in Nat, y \in Nat, z \in Nat : x = (SUB + t) * s /\ y = d * s /\ z = SUB * c
          BY <1>1, <2>2
        <4>7. x + s + y + z <= v /\ u < x + s
          BY <2>2, <3>2, <4>5, <4>6
        <4>8. s \in Nat
          BY <2>2
        <4> QED
          BY <1>1, <4>7, <4>8
      <3> QED
        BY <2>2, <3>2, <3>3, <3>4, <3>5
    <2> QED
      BY <2>3, <2>4
  <1> QED
    BY <1>2, <1>3

\* The lower bound of the bucket of a value, which percentile() returns for it, is not
\* above the value, and below it by less than one part in SUB: exact in the lowest
\* octave, for every width and every number of sub-buckets.
THEOREM BucketClose == \A v \in 0 .. MaxTicks : Close(valueOf(bucketOf(v)), v)
  <1> TAKE v \in 0 .. MaxTicks
  <1>1. SUB_BITS \in Nat /\ W \in Nat /\ SUB_BITS < W /\ v \in Nat /\ SUB \in Nat \ {0}
    BY Sizes
  <1>2. CASE v < SUB
    <2>1. valueOf(bucketOf(v)) = v
      BY <1>2 DEF bucketOf, valueOf
    <2> QED
      BY <1>1, <2>1 DEF Close
  <1>3. CASE ~(v < SUB)
    <2>1. PICK k, p, r : Placed(v, k, p, r)
      BY <1>3, HasPlace
    <2>2. /\ k \in Nat /\ p \in Nat \ {0} /\ p = pow2[k] /\ r \in 0 .. SUB - 1
          /\ bucketOf(v) = ((k + 1) * SUB) + r
          /\ (SUB + r) * p <= v /\ v < ((SUB + r) * p) + p /\ SUB * p <= v
      BY <1>1, <2>1 DEF Placed
    <2>3. PICK b \in Nat : b = ((k + 1) * SUB) + r /\ ~(b < SUB)
      <3>1. (k + 1) * SUB = (k * SUB) + SUB /\ k * SUB \in Nat
        BY <1>1, <2>2
      <3> QED
        BY <1>1, <2>2, <3>1
    <2>4. b \div SUB = k + 1 /\ b % SUB = r
      <3>1. PICK j \in Int : j = k + 1
        BY <2>2
      <3>2. ((j * SUB) + r) \div SUB = j /\ ((j * SUB) + r) % SUB = r
        BY <1>1, <2>2, DivModIs
      <3> QED
        BY <2>3, <3>1, <3>2
    <2>5. (k + 1) - 1 = k
      BY <2>2
    <2>6. valueOf(b) = (SUB + r) * p
      BY <2>2, <2>3, <2>4, <2>5 DEF valueOf
    <2>7. PICK x \in Nat : x = (SUB + r) * p /\ x <= v /\ v < x + p
      BY <1>1, <2>2
    <2>8. (v - x) * SUB < v
      <3>1. PICK c \in Nat : p = (v - x) + 1 + c
        <4>1. p - (v - x) - 1 \in Nat /\ p = (v - x) + 1 + (p - (v - x) - 1)
          BY <1>1, <2>2, <2>7
        <4> QED
          BY <4>1
      <3>2. SUB * p = ((v - x) * SUB) + SUB + (c * SUB) /\ c * SUB \in Nat
        BY <1>1, <2>7, <3>1
      <3>3. (v - x) * SUB \in Int
        BY <1>1, <2>7
      <3> QED
        BY <1>1, <2>2, <3>2, <3>3
    <2>9. Close(x, v)
      BY <2>7, <2>8 DEF Close
    <2> QED
      BY <2>2, <2>3, <2>6, <2>7, <2>9
  <1> QED
    BY <1>2, <1>3

-----------------------------------------------------------------------------
(* Histograms.                                                             *)

\* The sum of two functions is the sum of their sums.
LEMMA SumPlus ==
    ASSUME NEW S, IsFiniteSet(S), NEW f, NEW g, NEW h,
           \A x \in S : f[x] \in Nat /\ g[x] \in Nat /\ h[x] = f[x] + g[x]
    PROVE  SumOver(h, S) = SumOver(f, S) + SumOver(g, S)
  <1> DEFINE G == {T \in SUBSET S : SumOver(h, T) = SumOver(f, T) + SumOver(g, T)}
  <1>1. ASSUME NEW T \in SUBSET S, \A x \in T : T \ {x} \in G PROVE T \in G
    <2>1. IsFiniteSet(T)
      BY FS_Subset
    <2>2. CASE T = {}
      <3>1. SumOver(h, {}) = 0 /\ SumOver(f, {}) = 0 /\ SumOver(g, {}) = 0
        BY SumEmpty
      <3> QED
        BY <2>2, <3>1
    <2>3. CASE T # {}
      <3>1. PICK y \in T : TRUE
        BY <2>3
      <3>2. IsFiniteSet(T \ {y}) /\ y \in S
        BY <2>1, FS_RemoveElement
      <3>3. /\ \A x \in T : f[x] \in Int /\ g[x] \in Int /\ h[x] \in Int
            /\ \A x \in T \ {y} : f[x] \in Nat /\ g[x] \in Nat
        OBVIOUS
      <3>4. /\ SumOver(f, T) = f[y] + SumOver(f, T \ {y})
            /\ SumOver(g, T) = g[y] + SumOver(g, T \ {y})
            /\ SumOver(h, T) = h[y] + SumOver(h, T \ {y})
        BY <2>1, <3>3, SumRemove
      <3>5. SumOver(f, T \ {y}) \in Nat /\ SumOver(g, T \ {y}) \in Nat
        BY <3>2, <3>3, SumType
      <3>6. SumOver(h, T \ {y}) = SumOver(f, T \ {y}) + SumOver(g, T \ {y})
        BY <1>1, <3>1
      <3>7. f[y] \in Nat /\ g[y] \in Nat /\ h[y] = f[y] + g[y]
        BY <3>2
      <3>8. SumOver(h, T) = SumOver(f, T) + SumOver(g, T)
        BY <3>4, <3>5, <3>6, <3>7
      <3> QED
        BY <3>8
    <2> QED
      BY <2>2, <2>3
  <1> HIDE DEF G
  <1>2. \A T \in SUBSET S : T \in G
    BY <1>1, SubsetInduction
  <1> QED
    BY <1>2 DEF G

\* The greater and the lesser of two tick counts.
LEMMA ExtremesOfTwo ==
    ASSUME NEW a \in 0 .. MaxTicks, NEW b \in 0 .. MaxTicks
    PROVE  Max({a, b}) \in 0 .. MaxTicks /\ Min({a, b}) \in 0 .. MaxTicks
  <1>1. a \in Int /\ b \in Int
    BY Sizes
  <1>2. \E x \in {a, b} : \A y \in {a, b} : x >= y
    BY <1>1
  <1>3. \E x \in {a, b} : \A y \in {a, b} : x <= y
    BY <1>1
  <1>4. Max({a, b}) \in {a, b}
    BY <1>2 DEF Max
  <1>5. Min({a, b}) \in {a, b}
    BY <1>3 DEF Min
  <1> QED
    BY <1>4, <1>5

Buckets == 0 .. NB - 1
Ticks == 0 .. MaxTicks

\* A histogram whose buckets add up to its count.
HistOK(h) ==
    /\ h.bucket \in [Buckets -> Nat] /\ h.count \in Nat /\ SumOver(h.bucket, Buckets) = h.count
    /\ h.sum \in Nat /\ h.max \in Ticks /\ h.min \in Ticks

\* The buckets are finitely many.
LEMMA BucketsFinite == IsFiniteSet(Buckets) /\ NB \in Nat /\ \A f : SumFunctionOnSet(f, Buckets) = SumOver(f, Buckets)
  <1>1. NB \in Nat
    <2>1. W - SUB_BITS + 1 \in Nat /\ SUB \in Nat
      BY Sizes
    <2> QED
      BY <2>1 DEF NB
  <1>2. IsFiniteSet(0 .. NB - 1)
    BY <1>1, FS_Interval
  <1>3. \A f : SumFunctionOnSet(f, Buckets) = SumOver(f, Buckets)
    BY DEF SumFunctionOnSet, FoldFunctionOnSet, SumOver, MapThenSumSet
  <1> QED
    BY <1>1, <1>2, <1>3 DEF Buckets

\* reset().
LEMMA EmptyOK == HistOK(Empty)
  <1> DEFINE z == [b \in Buckets |-> 0]
  <1>1. z \in [Buckets -> Nat]
    OBVIOUS
  <1>2. \A x \in Buckets : z[x] \in Nat /\ z[x] = z[x] + z[x]
    OBVIOUS
  <1> HIDE DEF z
  <1>3. SumOver(z, Buckets) = SumOver(z, Buckets) + SumOver(z, Buckets) /\ SumOver(z, Buckets) \in Nat
    BY <1>2, SumPlus, SumType, BucketsFinite
  <1>4. SumOver(z, Buckets) = 0
    <2>1. PICK k \in Nat : k = SumOver(z, Buckets)
      BY <1>3
    <2>2. k = k + k
      BY <1>3, <2>1
    <2>3. k = 0
      BY <2>2
    <2> QED
      BY <2>1, <2>3
  <1>5. /\ Empty.bucket = z /\ Empty.count = 0 /\ Empty.sum = 0 /\ Empty.max = 0 /\ Empty.min = MaxTicks
    BY DEF Empty, z, Buckets
  <1>6. 0 \in Ticks /\ MaxTicks \in Ticks
    BY Sizes DEF Ticks
  <1> QED
    BY <1>1, <1>4, <1>5, <1>6 DEF HistOK

\* record().
LEMMA RecordOK ==
    ASSUME NEW h, HistOK(h), NEW v \in Ticks
    PROVE  HistOK(record(h, v))
  <1>1. /\ h.bucket \in [Buckets -> Nat] /\ h.count \in Nat /\ SumOver(h.bucket, Buckets) = h.count
        /\ h.sum \in Nat /\ h.max \in Ticks /\ h.min \in Ticks /\ v \in Nat
    BY Sizes DEF HistOK, Ticks
  <1>2. PICK c \in Buckets : c = bucketOf(v)
    BY BucketRight DEF Buckets, Ticks
  <1>3. PICK f \in [Buckets -> Nat] : f = h.bucket
    BY <1>1
  <1>4. PICK g : g = [f EXCEPT ![c] = @ + 1]
    OBVIOUS
  <1>5. /\ g \in [Buckets -> Nat] /\ g[c] = f[c] + 1 /\ g[c] \in Int /\ f[c] \in Nat
        /\ \A x \in Buckets \ {c} : g[x] = f[x]
    BY <1>4
  <1>6. SumOver(g, Buckets) = SumOver(f, Buckets) + (g[c] - f[c])
    <2>1. \A x \in Buckets : f[x] \in Int
      OBVIOUS
    <2> QED
      BY <1>5, <2>1, SumChange, BucketsFinite
  <1>7. SumOver(g, Buckets) = h.count + 1
    BY <1>1, <1>3, <1>5, <1>6
  <1>8. /\ record(h, v).bucket = g /\ record(h, v).count = h.count + 1 /\ record(h, v).sum = h.sum + v
        /\ record(h, v).max = Max({h.max, v}) /\ record(h, v).min = Min({h.min, v})
    BY <1>2, <1>3, <1>4 DEF record
  <1>9. Max({h.max, v}) \in Ticks /\ Min({h.min, v}) \in Ticks
    BY <1>1, ExtremesOfTwo DEF Ticks
  <1>10. h.count + 1 \in Nat /\ h.sum + v \in Nat
    BY <1>1
  <1> QED
    BY <1>5, <1>7, <1>8, <1>9, <1>10 DEF HistOK

\* merge().
LEMMA MergeOK ==
    ASSUME NEW h, HistOK(h), NEW o, HistOK(o)
    PROVE  HistOK(merge(h, o))
  <1>1. /\ h.bucket \in [Buckets -> Nat] /\ h.count \in Nat /\ SumOver(h.bucket, Buckets) = h.count
        /\ h.sum \in Nat /\ h.max \in Ticks /\ h.min \in Ticks
        /\ o.bucket \in [Buckets -> Nat] /\ o.count \in Nat /\ SumOver(o.bucket, Buckets) = o.count
        /\ o.sum \in Nat /\ o.max \in Ticks /\ o.min \in Ticks
    BY DEF HistOK
  <1>2. PICK f \in [Buckets -> Nat], e \in [Buckets -> Nat] : f = h.bucket /\ e = o.bucket
    BY <1>1
  <1>3. PICK g : g = [b \in Buckets |-> f[b] + e[b]]
    OBVIOUS
  <1>4. g \in [Buckets -> Nat] /\ \A x \in Buckets : f[x] \in Nat /\ e[x] \in Nat /\ g[x] = f[x] + e[x]
    BY <1>3
  <1>5. SumOver(g, Buckets) = h.count + o.count
    BY <1>1, <1>2, <1>4, SumPlus, BucketsFinite
  <1>6. /\ merge(h, o).bucket = g /\ merge(h, o).count = h.count + o.count
        /\ merge(h, o).sum = h.sum + o.sum
        /\ merge(h, o).max = Max({h.max, o.max}) /\ merge(h, o).min = Min({h.min, o.min})
    BY <1>2, <1>3 DEF merge, Buckets
  <1>7. Max({h.max, o.max}) \in Ticks /\ Min({h.min, o.min}) \in Ticks
    BY <1>1, ExtremesOfTwo DEF Ticks
  <1>8. h.count + o.count \in Nat /\ h.sum + o.sum \in Nat
    BY <1>1
  <1> QED
    BY <1>4, <1>5, <1>6, <1>7, <1>8 DEF HistOK

-----------------------------------------------------------------------------
(* The aggregator.                                                         *)

\* An event's latency is a tick count, whatever the difference of the time stamps.
LEMMA LatencyIsTicks ==
    ASSUME NEW cycles \in Elapsed
    PROVE  latencyOf(cycles) \in Ticks
  <1>1. cycles \in Int /\ MaxTicks + 1 \in Nat \ {0} /\ MaxTicks + 1 - 1 = MaxTicks
    BY Sizes, FramesAssumption
  <1>2. PICK m \in Nat \ {0} : m = MaxTicks + 1
    BY <1>1
  <1>3. cycles % m \in 0 .. m - 1
    BY <1>1, DivMod
  <1>4. m - 1 = MaxTicks
    BY <1>2, Sizes
  <1>5. latencyOf(cycles) = cycles % m
    BY <1>2 DEF latencyOf
  <1> QED
    BY <1>3, <1>4, <1>5 DEF Ticks

\* The inductive invariant: the histograms, the counters, and what was reported of drops.
FramesInv ==
    /\ DOMAIN win_ = Ops /\ DOMAIN cum_ = Ops
    /\ win_ = [op \in Ops |-> win_[op]] /\ cum_ = [op \in Ops |-> cum_[op]]
    /\ \A op \in Ops : HistOK(win_[op]) /\ HistOK(cum_[op])
    /\ snaps_ \in Nat /\ trades_ \in Nat /\ sent_ \in Nat /\ errors_ \in Nat
    /\ best_bid_ \in Nat /\ best_ask_ \in Nat
    /\ drops_ \in Nat /\ last_drops_alert_ \in 0 .. drops_

\* The invariant holds before the first event.
LEMMA FramesInit ==
    ASSUME Init
    PROVE  FramesInv
  <1>1. win_ = [op \in Ops |-> Empty] /\ cum_ = [op \in Ops |-> Empty]
    BY DEF Init
  <1>2. \A op \in Ops : HistOK(win_[op]) /\ HistOK(cum_[op])
    BY <1>1, EmptyOK
  <1>3. /\ snaps_ \in Nat /\ trades_ \in Nat /\ sent_ \in Nat /\ errors_ \in Nat
        /\ best_bid_ \in Nat /\ best_ask_ \in Nat
        /\ drops_ \in Nat /\ last_drops_alert_ \in 0 .. drops_
    BY DEF Init
  <1> QED
    BY <1>1, <1>2, <1>3 DEF FramesInv

\* The invariant implies the types.
LEMMA FramesTypes ==
    ASSUME FramesInv
    PROVE  FramesTypeOK
  <1>1. ASSUME NEW h, HistOK(h)
        PROVE  /\ h.bucket \in [0 .. NB - 1 -> Nat] /\ SumFunction(h.bucket) = h.count
               /\ h.sum \in Nat /\ h.max \in 0 .. MaxTicks /\ h.min \in 0 .. MaxTicks
    <2>1. h.bucket \in [Buckets -> Nat] /\ SumOver(h.bucket, Buckets) = h.count
      BY <1>1 DEF HistOK
    <2>2. DOMAIN h.bucket = Buckets
      BY <2>1
    <2>3. SumFunction(h.bucket) = h.count
      BY <2>1, <2>2, BucketsFinite DEF SumFunction
    <2> QED
      BY <1>1, <2>1, <2>3 DEF HistOK, Buckets, Ticks
  <1>2. ASSUME NEW op \in Ops, NEW h \in {win_[op], cum_[op]}
        PROVE  /\ h.bucket \in [0 .. NB - 1 -> Nat] /\ SumFunction(h.bucket) = h.count
               /\ h.sum \in Nat /\ h.max \in 0 .. MaxTicks /\ h.min \in 0 .. MaxTicks
    <2>1. HistOK(h)
      BY <1>2 DEF FramesInv
    <2> QED
      BY <1>1, <2>1
  <1>3. {snaps_, trades_, sent_, errors_, best_bid_, best_ask_} \subseteq Nat
    BY DEF FramesInv
  <1>4. last_drops_alert_ \in 0 .. drops_
    BY DEF FramesInv
  <1> QED
    BY <1>2, <1>3, <1>4 DEF FramesTypeOK

\* A step that leaves the histograms' shape alone and keeps each of them in order.
LEMMA HistogramsKept ==
    ASSUME NEW w, NEW c, win_' = [op \in Ops |-> w[op]], cum_' = [op \in Ops |-> c[op]],
           \A op \in Ops : HistOK(w[op]) /\ HistOK(c[op]),
           snaps_' \in Nat /\ trades_' \in Nat /\ sent_' \in Nat /\ errors_' \in Nat,
           best_bid_' \in Nat /\ best_ask_' \in Nat,
           drops_' \in Nat /\ last_drops_alert_' \in 0 .. drops_'
    PROVE  FramesInv'
  <1>1. DOMAIN win_' = Ops /\ DOMAIN cum_' = Ops
    OBVIOUS
  <1>2. \A op \in Ops : win_'[op] = w[op] /\ cum_'[op] = c[op]
    OBVIOUS
  <1>3. win_' = [op \in Ops |-> win_'[op]] /\ cum_' = [op \in Ops |-> cum_'[op]]
    BY <1>2
  <1>4. \A op \in Ops : HistOK(win_'[op]) /\ HistOK(cum_'[op])
    BY <1>2
  <1> QED
    BY <1>1, <1>3, <1>4 DEF FramesInv, HistOK, Buckets, Ticks

\* Every event and every frame keeps the invariant.
LEMMA FramesStep ==
    ASSUME FramesInv, [Next]_vars
    PROVE  FramesInv'
  <1>1. /\ win_ = [op \in Ops |-> win_[op]] /\ cum_ = [op \in Ops |-> cum_[op]]
        /\ \A op \in Ops : HistOK(win_[op]) /\ HistOK(cum_[op])
        /\ DOMAIN win_ = Ops /\ DOMAIN cum_ = Ops
    BY DEF FramesInv
  <1>2. /\ snaps_ \in Nat /\ trades_ \in Nat /\ sent_ \in Nat /\ errors_ \in Nat
        /\ best_bid_ \in Nat /\ best_ask_ \in Nat
        /\ drops_ \in Nat /\ last_drops_alert_ \in 0 .. drops_
    BY DEF FramesInv
  <1>3. ASSUME NEW o \in Ops, NEW cycles \in Elapsed, ingestLatency(o, cycles)
        PROVE  FramesInv'
    <2>1. PICK t \in Ticks : t = latencyOf(cycles)
      BY LatencyIsTicks
    <2>2. /\ win_' = [win_ EXCEPT ![o] = record(win_[o], t)] /\ cum_' = cum_
          /\ UNCHANGED <<bookVars, drops_, sent_, errors_, last_drops_alert_>>
      BY <1>3, <2>1 DEF ingestLatency, Between
    <2>3. PICK w : w = [op \in Ops |-> IF op = o THEN record(win_[o], t) ELSE win_[op]]
      OBVIOUS
    <2>4. win_' = [op \in Ops |-> w[op]]
      BY <1>1, <2>2, <2>3
    <2>5. HistOK(record(win_[o], t))
      BY <1>1, RecordOK
    <2>6. \A op \in Ops : HistOK(w[op]) /\ HistOK(cum_[op])
      BY <1>1, <2>3, <2>5
    <2>7. cum_' = [op \in Ops |-> cum_[op]]
      BY <1>1, <2>2
    <2>8. /\ snaps_' \in Nat /\ trades_' \in Nat /\ sent_' \in Nat /\ errors_' \in Nat
          /\ best_bid_' \in Nat /\ best_ask_' \in Nat
          /\ drops_' \in Nat /\ last_drops_alert_' \in 0 .. drops_'
      BY <1>2, <2>2 DEF bookVars
    <2> QED
      BY <2>4, <2>6, <2>7, <2>8, HistogramsKept
  <1>4. ASSUME win_' = win_, cum_' = cum_,
               /\ snaps_' \in Nat /\ trades_' \in Nat /\ sent_' \in Nat /\ errors_' \in Nat
               /\ best_bid_' \in Nat /\ best_ask_' \in Nat
               /\ drops_' \in Nat /\ last_drops_alert_' \in 0 .. drops_'
        PROVE  FramesInv'
    <2>1. win_' = [op \in Ops |-> win_[op]] /\ cum_' = [op \in Ops |-> cum_[op]]
      BY <1>1, <1>4
    <2> QED
      BY <1>1, <1>4, <2>1, HistogramsKept
  <1>5. ASSUME NEW quote \in Quotes, ingestSnapshot(quote)
        PROVE  FramesInv'
    <2>1. quote[1] \in Nat /\ quote[2] \in Nat
      BY FramesAssumption
    <2>2. /\ win_' = win_ /\ cum_' = cum_ /\ best_bid_' = quote[1] /\ best_ask_' = quote[2]
          /\ snaps_' = snaps_ + 1
          /\ UNCHANGED <<trades_, drops_, sent_, errors_, last_drops_alert_>>
      BY <1>5 DEF ingestSnapshot, Between
    <2> QED
      BY <1>2, <1>4, <2>1, <2>2
  <1>6. CASE ingestTrade
    <2>1. /\ win_' = win_ /\ cum_' = cum_ /\ trades_' = trades_ + 1
          /\ UNCHANGED <<snaps_, best_bid_, best_ask_, drops_, sent_, errors_, last_drops_alert_>>
      BY <1>6 DEF ingestTrade, Between
    <2> QED
      BY <1>2, <1>4, <2>1
  <1>7. CASE Drop
    <2>1. /\ win_' = win_ /\ cum_' = cum_ /\ drops_' = drops_ + 1
          /\ UNCHANGED <<bookVars, sent_, errors_, last_drops_alert_>>
      BY <1>7 DEF Drop, Between
    <2> QED
      BY <1>2, <1>4, <2>1 DEF bookVars
  <1>8. ASSUME NEW d \in last_drops_alert_ .. drops_, NEW view \in Ladders,
               NEW delivered \in BOOLEAN, render(d, view, delivered)
        PROVE  FramesInv'
    <2>1. PICK c : c = [op \in Ops |-> merge(cum_[op], win_[op])]
      OBVIOUS
    <2>2. PICK w : w = [op \in Ops |-> IF c[op].count = 0 THEN win_[op] ELSE Empty]
      OBVIOUS
    <2>3. /\ cum_' = c /\ win_' = w
          /\ last_drops_alert_' = d /\ UNCHANGED <<bookVars, drops_>>
          /\ sent_' = IF delivered THEN sent_ + 1 ELSE sent_
          /\ errors_' = IF delivered THEN errors_ ELSE errors_ + 1
      BY <1>8, <2>1, <2>2 DEF render, send
    <2>4. win_' = [op \in Ops |-> w[op]] /\ cum_' = [op \in Ops |-> c[op]]
      BY <2>1, <2>2, <2>3
    <2>5. \A op \in Ops : HistOK(c[op])
      BY <1>1, <2>1, MergeOK
    <2>6. \A op \in Ops : HistOK(w[op])
      BY <1>1, <2>2, EmptyOK
    <2>7. /\ snaps_' \in Nat /\ trades_' \in Nat /\ best_bid_' \in Nat /\ best_ask_' \in Nat
          /\ drops_' \in Nat /\ last_drops_alert_' \in 0 .. drops_'
      BY <1>2, <2>3 DEF bookVars
    <2>8. sent_' \in Nat /\ errors_' \in Nat
      BY <1>2, <2>3
    <2> QED
      BY <2>4, <2>5, <2>6, <2>7, <2>8, HistogramsKept
  <1>9. CASE UNCHANGED vars
    <2>1. UNCHANGED <<win_, cum_, bookVars, drops_, sent_, errors_, last_drops_alert_>>
      BY <1>9 DEF vars, frameVars
    <2> QED
      BY <1>2, <1>4, <2>1 DEF bookVars
  <1> QED
    BY <1>3, <1>5, <1>6, <1>7, <1>8, <1>9 DEF Next

\* The type invariant, for every W and SUB_BITS, every tick count and every sequence of
\* events and frames: bucketOf stays within the NB buckets of latency_histogram.hpp, the
\* counts of the buckets add up to the number of values recorded and merged, and render
\* never reports more drops than the recorder counted.
THEOREM FramesTypeCorrect == Spec => []FramesTypeOK
  <1>1. Init => FramesInv
    BY FramesInit
  <1>2. FramesInv /\ [Next]_vars => FramesInv'
    BY FramesStep
  <1>3. FramesInv => FramesTypeOK
    BY FramesTypes
  <1> QED
    BY <1>1, <1>2, <1>3, PTL DEF Spec
=============================================================================
