-------------------------- MODULE LatencyHistogram --------------------------
(***************************************************************************)
(* The log-linear histogram of src/metrics/include/latency_histogram.hpp:  *)
(* its operations on a histogram, a record of the counts of its buckets,   *)
(* the number and sum of the values, their maximum and their minimum.      *)
(***************************************************************************)
EXTENDS Integers, FiniteSetsExt, Functions

CONSTANTS
    SUB_BITS,   \* 2^SUB_BITS sub-buckets in an octave (5)
    W           \* width of a tick count (32)

ASSUME HistogramAssumption == SUB_BITS \in Nat /\ W \in Nat /\ SUB_BITS < W

\* 1 << n.
pow2[n \in 0 .. W] == IF n = 0 THEN 1 ELSE 2 * pow2[n - 1]

SUB == pow2[SUB_BITS]
NB == (W - SUB_BITS + 1) * SUB
MaxTicks == pow2[W] - 1

-----------------------------------------------------------------------------
\* Position of the highest bit that is set.
msb(v) == CHOOSE b \in 0 .. W - 1 : pow2[b] <= v /\ v < pow2[b + 1]

\* MUTANT: octaves are counted from one instead of from the linear one.
bucketOf_Octave(v) ==
    IF v < SUB THEN v
    ELSE (msb(v) - SUB_BITS + 2) * SUB + ((v \div pow2[msb(v) - SUB_BITS]) % SUB)

\* MUTANT: the sub-bucket is taken from the lowest bits.
bucketOf_LowBits(v) ==
    IF v < SUB THEN v
    ELSE (msb(v) - SUB_BITS + 1) * SUB + (v % SUB)

\* The lowest octave is exact; above it an octave has SUB buckets.
bucketOf(v) ==
    IF v < SUB THEN v
    ELSE (msb(v) - SUB_BITS + 1) * SUB + ((v \div pow2[msb(v) - SUB_BITS]) % SUB)

\* Lower bound of a bucket.
valueOf(b) == IF b < SUB THEN b ELSE (SUB + (b % SUB)) * pow2[(b \div SUB) - 1]

\* A histogram after reset().
Empty == [bucket |-> [b \in 0 .. NB - 1 |-> 0], count |-> 0, sum |-> 0, max |-> 0, min |-> MaxTicks]

record(h, v) ==
    [bucket |-> [h.bucket EXCEPT ![bucketOf(v)] = @ + 1],
     count |-> h.count + 1, sum |-> h.sum + v,
     max |-> Max({h.max, v}), min |-> Min({h.min, v})]

merge(h, o) ==
    [bucket |-> [b \in 0 .. NB - 1 |-> h.bucket[b] + o.bucket[b]],
     count |-> h.count + o.count, sum |-> h.sum + o.sum,
     max |-> Max({h.max, o.max}), min |-> Min({h.min, o.min})]

\* The rank of the p-th percentile, p in thousandths: at least 1, at most the count.
\* The double 99.9 * 0.01 lies a little above 0.999, so its product is never a whole number.
rankOf(count, p) ==
    LET up == IF p = 999 THEN (p * count) \div 1000 + 1 ELSE (p * count + 999) \div 1000
    IN  Min({count, Max({1, up})})

\* Running sums of the counts.
accOf(counts) == LET acc[k \in DOMAIN counts] == counts[k] + IF k = 0 THEN 0 ELSE acc[k - 1] IN acc

\* Lower bound of the first bucket at which the running sum reaches the rank.
percentile(h, p) ==
    LET acc == accOf(h.bucket)
        reach == {b \in 0 .. NB - 1 : acc[b] >= rankOf(h.count, p)}
    IN  IF h.count = 0 THEN 0 ELSE IF reach = {} THEN h.max ELSE valueOf(Min(reach))
=============================================================================
