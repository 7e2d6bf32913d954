---------------------------- MODULE NumberLemmas ----------------------------
(***************************************************************************)
(* Facts about numbers that the proofs share: remainders, for the wrapping *)
(* counters of the metrics ring and of the depth seqlock, and sums over    *)
(* finite sets, for the running totals of the price levels and of the      *)
(* book.  The community modules define a sum by recursion over the subsets *)
(* of a set; what it computes is shown here by least counterexamples: a    *)
(* non-empty set of numbers has a least member.                            *)
(***************************************************************************)
EXTENDS Integers, FiniteSets, FiniteSetsExt, FiniteSetTheorems, WellFoundedInduction, TLAPS

-----------------------------------------------------------------------------
(* Remainders.                                                             *)

\* Division with remainder.
LEMMA DivMod ==
    ASSUME NEW m \in Nat \ {0}, NEW a \in Int
    PROVE  /\ a \div m \in Int
           /\ (a % m) \in 0 .. m - 1
           /\ a = (m * (a \div m)) + (a % m)
  OBVIOUS

\* Quotient and remainder are unique.
LEMMA DivModUnique ==
    ASSUME NEW m \in Nat \ {0}, NEW a \in Int, NEW q \in Int, NEW r \in 0 .. m - 1,
           a = (m * q) + r
    PROVE  a % m = r
  <1>1. ASSUME NEW q2 \in Int, NEW r2 \in 0 .. m - 1, (m * q) + r = (m * q2) + r2
        PROVE  r2 = r
    BY <1>1
  <1>2. QED
    BY <1>1, DivMod

\* Adding a multiple of the modulus does not change the remainder.
LEMMA ModPeriod ==
    ASSUME NEW m \in Nat \ {0}, NEW a \in Int, NEW k \in Int
    PROVE  (a + (m * k)) % m = a % m
  <1> DEFINE q == a \div m
             r == a % m
  <1>1. q \in Int /\ r \in 0 .. m - 1 /\ a = (m * q) + r
    BY DivMod
  <1> HIDE DEF q, r
  <1>2. a + (m * k) \in Int /\ a + (m * k) = (m * (q + k)) + r
    BY <1>1
  <1>3. (a + (m * k)) % m = r
    BY <1>1, <1>2, DivModUnique
  <1>4. QED
    BY <1>3 DEF r

\* Two numbers less than m apart have different remainders.
LEMMA ModDistinct ==
    ASSUME NEW m \in Nat \ {0}, NEW a \in Int, NEW b \in Int, b < a, a < b + m
    PROVE  a % m # b % m
  <1> SUFFICES ASSUME a % m = b % m PROVE FALSE
    OBVIOUS
  <1> DEFINE qa == a \div m
             qb == b \div m
             d == qa - qb
  <1>1. /\ qa \in Int /\ qb \in Int
        /\ a = (m * qa) + (a % m) /\ b = (m * qb) + (b % m)
        /\ (a % m) \in Int /\ (b % m) \in Int
    BY DivMod
  <1>2. a - b = (m * qa) - (m * qb)
    BY <1>1
  <1>3. (m * qa) - (m * qb) = m * d
    BY <1>1
  <1> HIDE DEF qa, qb
  <1>4. d \in Int /\ m * d > 0 /\ m * d < m
    BY <1>1, <1>2, <1>3
  <1> HIDE DEF d
  <1>5. QED
    BY <1>4

\* The remainder of a number less than twice the modulus.
LEMMA ModOnce ==
    ASSUME NEW m \in Nat \ {0}, NEW x \in 0 .. (2 * m) - 1
    PROVE  x % m = IF x < m THEN x ELSE x - m
  <1>1. CASE x < m
    <2>1. x = (m * 0) + x /\ x \in 0 .. m - 1
      BY <1>1
    <2>2. QED
      BY <1>1, <2>1, DivModUnique
  <1>2. CASE x >= m
    <2>1. x = (m * 1) + (x - m) /\ x - m \in 0 .. m - 1
      BY <1>2
    <2>2. QED
      BY <1>2, <2>1, DivModUnique
  <1>3. QED
    BY <1>1, <1>2

-----------------------------------------------------------------------------
(* Induction.                                                              *)

\* A non-empty set of natural numbers has a least member.
LEMMA LeastNumber ==
    ASSUME NEW T \in SUBSET Nat, T # {}
    PROVE  \E m \in T : \A k \in T : m <= k
  <1> DEFINE R == OpToRel(<, Nat)
  <1>1. IsWellFoundedOn(R, Nat)
    BY NatLessThanWellFounded
  <1>2. \A x, y \in Nat : x < y => <<x, y>> \in R
    BY DEF OpToRel
  <1> HIDE DEF R
  <1>3. PICK m \in T : \A k \in T : ~(<<k, m>> \in R)
    BY <1>1, WFMin
  <1>4. T \subseteq Nat /\ \A k \in T : ~(k < m)
    BY <1>2, <1>3, Zenon
  <1>5. \A k \in T : m <= k
    BY <1>4
  <1>6. QED
    BY <1>5

\* Induction over the subsets of a finite set: a collection that holds every subset
\* which it holds without any one of its elements holds them all.
LEMMA SubsetInduction ==
    ASSUME NEW S, IsFiniteSet(S), NEW G,
           \A T \in SUBSET S : (\A x \in T : T \ {x} \in G) => T \in G
    PROVE  \A T \in SUBSET S : T \in G
  <1> SUFFICES ASSUME NEW T0 \in SUBSET S, T0 \notin G PROVE FALSE
    OBVIOUS
  <1> DEFINE Bad == {n \in Nat : \E T \in SUBSET S : T \notin G /\ Cardinality(T) = n}
  <1>1. \A T \in SUBSET S : IsFiniteSet(T) /\ Cardinality(T) \in Nat
    BY FS_Subset, FS_CardinalityType
  <1>2. Bad # {} /\ Bad \in SUBSET Nat
    BY <1>1
  <1>3. PICK m \in Bad : \A k \in Bad : m <= k
    BY <1>2, LeastNumber
  <1>4. PICK T \in SUBSET S : T \notin G /\ Cardinality(T) = m
    BY <1>3
  <1> HIDE DEF Bad
  <1>5. ASSUME NEW x \in T PROVE T \ {x} \in G
    <2>1. T \ {x} \in SUBSET S
      BY <1>4
    <2>2. Cardinality(T \ {x}) = m - 1 /\ Cardinality(T \ {x}) \in Nat /\ m \in Nat
      <3>1. IsFiniteSet(T) /\ Cardinality(T \ {x}) \in Nat /\ m \in Nat
        BY <1>1, <1>2, <1>3, <2>1
      <3>2. Cardinality(T \ {x}) = Cardinality(T) - 1
        BY <1>5, <3>1, FS_RemoveElement
      <3>3. QED
        BY <1>4, <3>1, <3>2
    <2>3. Cardinality(T \ {x}) \notin Bad
      BY <1>3, <2>2
    <2>4. QED
      BY <2>1, <2>2, <2>3 DEF Bad
  <1>6. QED
    BY <1>4, <1>5

-----------------------------------------------------------------------------
(* What the recursion computes.                                            *)

\* The sum of f over S, as the models write it.
SumOver(f, S) == MapThenSumSet(LAMBDA o : f[o], S)

Pick(s) == CHOOSE x \in s : TRUE
SumStep(f, g, s) == IF s = {} THEN 0 ELSE f[Pick(s)] + g[s \ {Pick(s)}]

\* g is the recursion on the subsets of S.
IsSum(f, S, g) == g = [s \in SUBSET S |-> SumStep(f, g, s)]

\* The definition of the community modules, in these words.
LEMMA SumOverIs ==
    ASSUME NEW f, NEW S
    PROVE  SumOver(f, S) = (CHOOSE g : IsSum(f, S, g))[S]
  BY DEF SumOver, MapThenSumSet, MapThenFoldSet, IsSum, SumStep, Pick

LEMMA PickIn ==
    ASSUME NEW s, s # {}
    PROVE  Pick(s) \in s
  BY DEF Pick

\* The recursion has a solution on every finite set: extend it from the subsets of at
\* most m - 1 elements to those of at most m.
LEMMA SumExists ==
    ASSUME NEW S, IsFiniteSet(S), NEW f
    PROVE  \E g : IsSum(f, S, g)
  <1> DEFINE D(n) == {s \in SUBSET S : Cardinality(s) <= n}
             Ok(n) == \E g : g = [s \in D(n) |-> SumStep(f, g, s)]
             Bad == {n \in Nat : ~Ok(n)}
  <1>1. \A s \in SUBSET S : IsFiniteSet(s) /\ Cardinality(s) \in Nat /\ Cardinality(s) <= Cardinality(S)
    BY FS_Subset, FS_CardinalityType
  <1>2. Ok(0)
    <2> DEFINE g == [s \in D(0) |-> 0]
    <2>1. \A s \in D(0) : s = {}
      BY <1>1, FS_EmptySet
    <2>2. \A s \in D(0) : SumStep(f, g, s) = 0
      BY <2>1 DEF SumStep
    <2>3. g = [s \in D(0) |-> SumStep(f, g, s)]
      BY <2>2
    <2>4. QED
      BY <2>3
  <1>3. ASSUME NEW m \in Nat, Ok(m) PROVE Ok(m + 1)
    <2>1. PICK h : h = [s \in D(m) |-> SumStep(f, h, s)]
      BY <1>3
    <2> DEFINE g == [s \in D(m + 1) |-> SumStep(f, h, s)]
    <2>2. ASSUME NEW s \in D(m + 1), s # {}
          PROVE  s \ {Pick(s)} \in D(m) /\ s \ {Pick(s)} \in D(m + 1)
      <3>1. Pick(s) \in s /\ s \in SUBSET S /\ s \ {Pick(s)} \in SUBSET S
        BY <2>2, PickIn
      <3>2. Cardinality(s \ {Pick(s)}) = Cardinality(s) - 1 /\ Cardinality(s) \in Nat
        BY <1>1, <3>1, FS_RemoveElement
      <3>3. QED
        BY <1>3, <2>2, <3>1, <3>2
    <2>3. \A s \in D(m) : s \in D(m + 1)
      BY <1>1, <1>3
    <2>4. \A s \in D(m) : g[s] = h[s]
      BY <2>1, <2>3
    <2>5. \A s \in D(m + 1) : SumStep(f, g, s) = SumStep(f, h, s)
      <3> SUFFICES ASSUME NEW s \in D(m + 1) PROVE SumStep(f, g, s) = SumStep(f, h, s)
        OBVIOUS
      <3> HIDE DEF g, D
      <3>1. CASE s = {}
        BY <3>1 DEF SumStep
      <3>2. CASE s # {}
        BY <2>2, <2>4, <3>2 DEF SumStep
      <3>3. QED
        BY <3>1, <3>2
    <2>6. g = [s \in D(m + 1) |-> SumStep(f, g, s)]
      BY <2>5
    <2>7. QED
      BY <2>6
  <1> HIDE DEF Ok
  <1>4. Bad = {}
    <2> SUFFICES ASSUME Bad # {} PROVE FALSE
      OBVIOUS
    <2>1. PICK m \in Bad : \A k \in Bad : m <= k
      BY LeastNumber
    <2>2. m # 0 /\ m \in Nat
      BY <1>2, <2>1
    <2>3. m - 1 \in Nat /\ m - 1 \notin Bad
      BY <2>1, <2>2
    <2>4. Ok((m - 1) + 1)
      BY <1>3, <2>3
    <2>5. QED
      BY <2>1, <2>2, <2>4
  <1>5. Ok(Cardinality(S))
    BY <1>1, <1>4
  <1>6. D(Cardinality(S)) = SUBSET S
    BY <1>1
  <1>7. QED
    BY <1>5, <1>6 DEF Ok, IsSum

\* Solutions on two sets agree where both are defined.
LEMMA SumUnique ==
    ASSUME NEW S, IsFiniteSet(S), NEW R, S \subseteq R, NEW f, NEW g, NEW h,
           IsSum(f, S, g), IsSum(f, R, h)
    PROVE  \A T \in SUBSET S : g[T] = h[T]
  <1> DEFINE G == {T \in SUBSET S : g[T] = h[T]}
  <1>1. ASSUME NEW T \in SUBSET S, \A x \in T : T \ {x} \in G PROVE T \in G
    <2>1. g[T] = SumStep(f, g, T)
      BY DEF IsSum
    <2>2. h[T] = SumStep(f, h, T)
      <3>1. T \in SUBSET R
        OBVIOUS
      <3>2. QED
        BY <3>1 DEF IsSum
    <2>3. SumStep(f, g, T) = SumStep(f, h, T)
      <3>1. CASE T = {}
        BY <3>1 DEF SumStep
      <3>2. CASE T # {}
        <4>1. T \ {Pick(T)} \in G
          BY <1>1, <3>2, PickIn
        <4>2. QED
          BY <3>2, <4>1 DEF SumStep
      <3>3. QED
        BY <3>1, <3>2
    <2>4. QED
      BY <2>1, <2>2, <2>3
  <1> HIDE DEF G
  <1>2. \A T \in SUBSET S : T \in G
    BY <1>1, SubsetInduction
  <1>3. QED
    BY <1>2 DEF G

\* The sum over a finite set: nothing over the empty set, else the picked element's
\* value and the sum over the rest.
LEMMA SumOverStep ==
    ASSUME NEW S, IsFiniteSet(S), NEW f
    PROVE  SumOver(f, S) = IF S = {} THEN 0 ELSE f[Pick(S)] + SumOver(f, S \ {Pick(S)})
  <1> DEFINE g == CHOOSE g : IsSum(f, S, g)
             R == S \ {Pick(S)}
             h == CHOOSE h : IsSum(f, R, h)
  <1>1. IsSum(f, S, g)
    BY SumExists
  <1>2. IsFiniteSet(R) /\ R \subseteq S
    BY FS_RemoveElement
  <1>3. IsSum(f, R, h)
    BY <1>2, SumExists
  <1>4. SumOver(f, S) = g[S] /\ SumOver(f, R) = h[R]
    BY SumOverIs
  <1> HIDE DEF g, h, R
  <1>5. R \in SUBSET R
    OBVIOUS
  <1>6. h[R] = g[R]
    BY <1>1, <1>2, <1>3, <1>5, SumUnique
  <1>7. g[S] = SumStep(f, g, S)
    BY <1>1 DEF IsSum
  <1>8. QED
    BY <1>4, <1>6, <1>7 DEF SumStep, R

LEMMA SumEmpty ==
    ASSUME NEW f
    PROVE  SumOver(f, {}) = 0
  BY SumOverStep, FS_EmptySet

\* A sum of integers is an integer, of natural numbers a natural number.
LEMMA SumType ==
    ASSUME NEW S, IsFiniteSet(S), NEW f
    PROVE  /\ (\A x \in S : f[x] \in Int) => SumOver(f, S) \in Int
           /\ (\A x \in S : f[x] \in Nat) => SumOver(f, S) \in Nat
  <1>1. ASSUME NEW N \in {Nat, Int}, \A x \in S : f[x] \in N PROVE SumOver(f, S) \in N
    <2> DEFINE G == {T \in SUBSET S : SumOver(f, T) \in N}
    <2>0. 0 \in N /\ \A a, b \in N : a + b \in N
      OBVIOUS
    <2>1. ASSUME NEW T \in SUBSET S, \A x \in T : T \ {x} \in G PROVE T \in G
      <3>1. IsFiniteSet(T)
        BY FS_Subset
      <3>2. SumOver(f, T) = IF T = {} THEN 0 ELSE f[Pick(T)] + SumOver(f, T \ {Pick(T)})
        BY <3>1, SumOverStep
      <3>3. CASE T = {}
        BY <2>0, <3>2, <3>3
      <3>4. CASE T # {}
        <4>1. Pick(T) \in T
          BY <3>4, PickIn
        <4>2. f[Pick(T)] \in N /\ SumOver(f, T \ {Pick(T)}) \in N
          BY <1>1, <2>1, <4>1
        <4>3. f[Pick(T)] + SumOver(f, T \ {Pick(T)}) \in N
          BY <2>0, <4>2, Zenon
        <4>4. QED
          BY <3>2, <3>4, <4>3
      <3>5. QED
        BY <3>3, <3>4
    <2> HIDE DEF G
    <2>2. \A T \in SUBSET S : T \in G
      BY <2>1, SubsetInduction
    <2>3. S \in G
      BY <2>2
    <2>4. QED
      BY <2>3 DEF G
  <1>2. QED
    BY <1>1

\* Functions that agree on a set have the same sum over it.
LEMMA SumAgree ==
    ASSUME NEW S, IsFiniteSet(S), NEW f, NEW g, \A x \in S : f[x] = g[x]
    PROVE  SumOver(f, S) = SumOver(g, S)
  <1> DEFINE G == {T \in SUBSET S : SumOver(f, T) = SumOver(g, T)}
  <1>1. ASSUME NEW T \in SUBSET S, \A x \in T : T \ {x} \in G PROVE T \in G
    <2>1. IsFiniteSet(T)
      BY FS_Subset
    <2>2. /\ SumOver(f, T) = IF T = {} THEN 0 ELSE f[Pick(T)] + SumOver(f, T \ {Pick(T)})
          /\ SumOver(g, T) = IF T = {} THEN 0 ELSE g[Pick(T)] + SumOver(g, T \ {Pick(T)})
      BY <2>1, SumOverStep
    <2>3. CASE T = {}
      BY <2>2, <2>3
    <2>4. CASE T # {}
      <3>1. Pick(T) \in T
        BY <2>4, PickIn
      <3>2. f[Pick(T)] = g[Pick(T)] /\ SumOver(f, T \ {Pick(T)}) = SumOver(g, T \ {Pick(T)})
        BY <1>1, <3>1
      <3>3. QED
        BY <2>2, <2>4, <3>2
    <2>5. QED
      BY <2>3, <2>4
  <1> HIDE DEF G
  <1>2. \A T \in SUBSET S : T \in G
    BY <1>1, SubsetInduction
  <1>3. S \in G
    BY <1>2
  <1>4. QED
    BY <1>3 DEF G

\* The sum is any element's value and the sum over the others: the order of the
\* recursion does not matter.
LEMMA SumRemove ==
    ASSUME NEW S, IsFiniteSet(S), NEW f, \A x \in S : f[x] \in Int, NEW y \in S
    PROVE  SumOver(f, S) = f[y] + SumOver(f, S \ {y})
  <1> DEFINE G == {T \in SUBSET S : \A x \in T : SumOver(f, T) = f[x] + SumOver(f, T \ {x})}
  <1>1. ASSUME NEW T \in SUBSET S, \A x \in T : T \ {x} \in G PROVE T \in G
    <2> SUFFICES ASSUME NEW x \in T PROVE SumOver(f, T) = f[x] + SumOver(f, T \ {x})
      OBVIOUS
    <2> DEFINE p == Pick(T)
               U == (T \ {x}) \ {p}
    <2>1. IsFiniteSet(T) /\ p \in T /\ T # {}
      BY PickIn, FS_Subset
    <2>2. SumOver(f, T) = f[p] + SumOver(f, T \ {p})
      BY <2>1, SumOverStep
    <2>3. CASE x = p
      BY <2>2, <2>3
    <2>4. CASE x # p
      <3>1. p \in T \ {x} /\ x \in T \ {p} /\ (T \ {p}) \ {x} = U
        BY <2>1, <2>4
      <3>2. SumOver(f, T \ {x}) = f[p] + SumOver(f, U)
        BY <1>1, <3>1
      <3>3. SumOver(f, T \ {p}) = f[x] + SumOver(f, U)
        BY <1>1, <2>1, <3>1
      <3>4. f[p] \in Int /\ f[x] \in Int /\ SumOver(f, U) \in Int
        <4>1. IsFiniteSet(U) /\ \A z \in U : f[z] \in Int
          BY <2>1, FS_RemoveElement
        <4>2. QED
          BY <2>1, <4>1, SumType
      <3> HIDE DEF p, U
      <3>5. QED
        BY <2>2, <3>2, <3>3, <3>4
    <2>5. QED
      BY <2>3, <2>4
  <1> HIDE DEF G
  <1>2. \A T \in SUBSET S : T \in G
    BY <1>1, SubsetInduction
  <1>3. S \in G
    BY <1>2
  <1>4. QED
    BY <1>3 DEF G

\* A new element adds its value.
LEMMA SumAdd ==
    ASSUME NEW S, IsFiniteSet(S), NEW y, y \notin S, NEW f, \A x \in S : f[x] \in Int, f[y] \in Int
    PROVE  SumOver(f, S \cup {y}) = f[y] + SumOver(f, S)
  <1>1. IsFiniteSet(S \cup {y}) /\ (S \cup {y}) \ {y} = S /\ \A x \in S \cup {y} : f[x] \in Int
    BY FS_AddElement
  <1>2. QED
    BY <1>1, SumRemove

\* A change of one element's value changes the sum by the difference.
LEMMA SumChange ==
    ASSUME NEW S, IsFiniteSet(S), NEW y \in S, NEW f, \A x \in S : f[x] \in Int,
           NEW g, g[y] \in Int, \A x \in S \ {y} : g[x] = f[x]
    PROVE  SumOver(g, S) = SumOver(f, S) + (g[y] - f[y])
  <1>1. IsFiniteSet(S \ {y})
    BY FS_RemoveElement
  <1>2. SumOver(f, S) = f[y] + SumOver(f, S \ {y}) /\ SumOver(f, S \ {y}) \in Int
    BY <1>1, SumRemove, SumType
  <1>3. SumOver(g, S) = g[y] + SumOver(g, S \ {y})
    <2>1. \A x \in S : g[x] \in Int
      OBVIOUS
    <2>2. QED
      BY <2>1, SumRemove
  <1>4. SumOver(g, S \ {y}) = SumOver(f, S \ {y})
    BY <1>1, SumAgree
  <1>5. QED
    BY <1>2, <1>3, <1>4
=============================================================================
