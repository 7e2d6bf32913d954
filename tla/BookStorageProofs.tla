------------------------- MODULE BookStorageProofs -------------------------
(***************************************************************************)
(* The price levels, the pool, and both together.                          *)
(*                                                                         *)
(* The linked lists of the levels stay intact and the totals exact, for    *)
(* any number of levels, orders and quantities. The queue of a level, a    *)
(* history variable, says what the links should be; the work is in the     *)
(* removal of the k-th of n orders, which moves the later ones forward by  *)
(* one place and rewrites two links. The totals are sums over the orders   *)
(* of a level and follow from how an operation changes one order.          *)
(*                                                                         *)
(* The free list of the pool has every free slot once and no slot is       *)
(* handed out twice, for every initial capacity, chunk size and bound: the *)
(* list is treated apart from the state, what threading a chunk makes, and *)
(* what taking the head off a list and putting a slot in front of it do to *)
(* it. In the book's methods the slots in use are the orders that rest;    *)
(* from that, each method makes the calls each part expects, and what was  *)
(* proved of the parts holds of the whole.                                 *)
(***************************************************************************)
EXTENDS BookStorage, NumberLemmas, FiniteSetTheorems, TLAPS

ListInv == LevelTypeOK /\ ListIntact
LevelInv == ListInv /\ TotalsExact

-----------------------------------------------------------------------------
(* The queue.                                                              *)

\* A queue without its k-th element: length, elements and type.
LEMMA WithoutProperties ==
    ASSUME NEW S, NEW f \in Seq(S), NEW k \in 1 .. Len(f)
    PROVE  /\ Without(f, k) \in Seq(S)
           /\ Len(Without(f, k)) = Len(f) - 1
           /\ \A i \in 1 .. Len(f) - 1 : Without(f, k)[i] = IF i < k THEN f[i] ELSE f[i + 1]
<1> DEFINE n == Len(f) - 1
           g == [i \in 1 .. n |-> IF i < k THEN f[i] ELSE f[i + 1]]
<1>1. n \in Nat
  OBVIOUS
<1>2. g \in [1 .. n -> S]
  OBVIOUS
<1>3. g \in Seq(S) /\ Len(g) = n
  <2> HIDE DEF g, n
  <2>1. [1 .. n -> S] \subseteq Seq(S)
    BY <1>1
  <2> QED
    BY <1>1, <1>2, <2>1
<1>4. \A i \in 1 .. n : g[i] = IF i < k THEN f[i] ELSE f[i + 1]
  OBVIOUS
<1> QED
  BY <1>3, <1>4 DEF Without

\* The place of an element that is in the queue.
LEMMA PlaceProperties ==
    ASSUME NEW S, NEW f \in Seq(S), NEW o, \E k \in 1 .. Len(f) : f[k] = o
    PROVE  PlaceOf(f, o) \in 1 .. Len(f) /\ f[PlaceOf(f, o)] = o
BY DEF PlaceOf

-----------------------------------------------------------------------------
(* Additions.                                                              *)

\* PriceLevel::addOrder: linking a new order behind the tail keeps the lists intact.
LEMMA AddKeeps ==
    ASSUME ListInv, NEW l \in Levels, NEW o \in Orders, NEW q \in Quantities,
           at[o] = NULL, addOrder(l, o, q)
    PROVE  ListInv'
<1> USE LevelAssumption
<1> DEFINE f == fifo[l]
           n == Len(f)
           g == Append(f, o)
<1>1. /\ f \in Seq(Orders) /\ n \in Nat /\ at[o] = NULL /\ l # NULL
      /\ \A i \in 1 .. n : f[i] \in Orders
  BY DEF ListInv, LevelTypeOK, addOrder
<1>2. /\ g \in Seq(Orders) /\ Len(g) = n + 1 /\ g[n + 1] = o
      /\ \A i \in 1 .. n : g[i] = f[i]
  BY <1>1
<1>3. /\ fifo'[l] = g
      /\ \A m \in Levels \ {l} : fifo'[m] = fifo[m]
      /\ at'[o] = l /\ \A p \in Orders \ {o} : at'[p] = at[p]
  BY DEF ListInv, LevelTypeOK, addOrder
<1>4. LevelTypeOK'
  <2>1. fifo' \in [Levels -> Seq(Orders)]
    BY <1>2 DEF ListInv, LevelTypeOK, addOrder
  <2>2. /\ head_' \in [Levels -> Orders \cup {NULL}] /\ tail_' \in [Levels -> Orders \cup {NULL}]
        /\ next' \in [Orders -> Orders \cup {NULL}] /\ prev' \in [Orders -> Orders \cup {NULL}]
    BY DEF ListInv, LevelTypeOK, addOrder
  <2>3. q \in Nat
    OBVIOUS
  <2>4. /\ quantity' \in [Orders -> Nat] /\ at' \in [Orders -> Levels \cup {NULL}]
        /\ order_count_' \in [Levels -> Nat] /\ total_quantity_' \in [Levels -> Int]
    BY <2>3 DEF ListInv, LevelTypeOK, addOrder
  <2> QED
    BY <2>1, <2>2, <2>4 DEF LevelTypeOK
<1>5. \A m \in Levels : \A i \in 1 .. Len(fifo[m]) :
          /\ fifo[m][i] \in Orders /\ at[fifo[m][i]] = m /\ fifo[m][i] # o
  BY <1>1 DEF ListInv, LevelTypeOK, ListIntact, Placed
<1>6. tail_[l] = IF n = 0 THEN NULL ELSE f[n]
  BY DEF ListInv, ListIntact, EndsRight
<1>7. \A i, j \in 1 .. n : f[i] = f[j] => i = j
  BY DEF ListInv, ListIntact, Placed
<1> HIDE DEF f, n, g
<1>8. Placed'
  <2>1. ASSUME NEW m \in Levels, NEW i \in 1 .. Len(fifo'[m])
        PROVE  at'[fifo'[m][i]] = m
    <3>1. CASE m # l
      BY <3>1, <2>1, <1>3, <1>5
    <3>2. CASE m = l /\ i = n + 1
      BY <3>2, <1>2, <1>3
    <3>3. CASE m = l /\ i # n + 1
      <4>1. i \in 1 .. n /\ fifo'[m][i] = f[i]
        BY <3>3, <2>1, <1>1, <1>2, <1>3
      <4>2. f[i] \in Orders \ {o} /\ at[f[i]] = l
        BY <4>1, <1>5 DEF f, n
      <4> QED
        BY <4>1, <4>2, <3>3, <1>3
    <3> QED
      BY <3>1, <3>2, <3>3
  <2>2. ASSUME NEW p \in Orders, at'[p] # NULL
        PROVE  \E i \in 1 .. Len(fifo'[at'[p]]) : fifo'[at'[p]][i] = p
    <3>1. CASE p = o
      BY <3>1, <1>1, <1>2, <1>3
    <3>2. CASE p # o
      <4>1. at'[p] = at[p] /\ at[p] \in Levels
        BY <3>2, <2>2, <1>3 DEF ListInv, LevelTypeOK
      <4>2. PICK i \in 1 .. Len(fifo[at[p]]) : fifo[at[p]][i] = p
        BY <4>1, <2>2 DEF ListInv, ListIntact, Placed
      <4>3. CASE at[p] = l
        BY <4>1, <4>2, <4>3, <1>1, <1>2, <1>3 DEF f, n
      <4>4. CASE at[p] # l
        BY <4>1, <4>2, <4>4, <1>3
      <4> QED
        BY <4>3, <4>4
    <3> QED
      BY <3>1, <3>2
  <2>3. ASSUME NEW m \in Levels, NEW i \in 1 .. Len(fifo'[m]), NEW j \in 1 .. Len(fifo'[m]),
               fifo'[m][i] = fifo'[m][j]
        PROVE  i = j
    <3>1. CASE m = l
      <4>1. i \in 1 .. n + 1 /\ j \in 1 .. n + 1 /\ g[i] = g[j]
        BY <3>1, <2>3, <1>2, <1>3
      <4>2. \A k \in 1 .. n : g[k] # o
        BY <1>2, <1>5 DEF f, n
      <4> QED
        BY <4>1, <4>2, <1>1, <1>2, <1>7
    <3>2. CASE m # l
      BY <3>2, <2>3, <1>3 DEF ListInv, ListIntact, Placed
    <3> QED
      BY <3>1, <3>2
  <2> QED
    BY <2>1, <2>2, <2>3 DEF Placed
<1>9. EndsRight'
  <2> SUFFICES ASSUME NEW m \in Levels
               PROVE  /\ head_'[m] = IF Len(fifo'[m]) = 0 THEN NULL ELSE fifo'[m][1]
                      /\ tail_'[m] = IF Len(fifo'[m]) = 0 THEN NULL ELSE fifo'[m][Len(fifo'[m])]
                      /\ order_count_'[m] = Len(fifo'[m])
    BY DEF EndsRight
  <2>1. CASE m = l
    <3>1. order_count_[l] = n /\ head_[l] = IF n = 0 THEN NULL ELSE f[1]
      BY DEF ListInv, ListIntact, EndsRight, f, n
    <3>2. order_count_'[l] = n + 1 /\ tail_'[l] = o
          /\ head_'[l] = IF tail_[l] = NULL THEN o ELSE head_[l]
      BY <3>1 DEF ListInv, LevelTypeOK, addOrder
    <3>3. tail_[l] = NULL <=> n = 0
      BY <1>1, <1>6
    <3> QED
      BY <2>1, <3>1, <3>2, <3>3, <1>1, <1>2, <1>3
  <2>2. CASE m # l
    <3>1. head_'[m] = head_[m] /\ tail_'[m] = tail_[m] /\ order_count_'[m] = order_count_[m]
      BY <2>2 DEF ListInv, LevelTypeOK, addOrder
    <3> QED
      BY <2>2, <3>1, <1>3 DEF ListInv, ListIntact, EndsRight
  <2> QED
    BY <2>1, <2>2
<1>10. LinksRight'
  <2> SUFFICES ASSUME NEW m \in Levels, NEW i \in 1 .. Len(fifo'[m])
               PROVE  /\ next'[fifo'[m][i]] = IF i = Len(fifo'[m]) THEN NULL ELSE fifo'[m][i + 1]
                      /\ prev'[fifo'[m][i]] = IF i = 1 THEN NULL ELSE fifo'[m][i - 1]
    BY DEF LinksRight
  <2>1. /\ \A p \in Orders : next'[p] = IF p = o THEN NULL ELSE IF p = tail_[l] THEN o ELSE next[p]
        /\ \A p \in Orders : prev'[p] = IF p = o THEN tail_[l] ELSE prev[p]
    BY DEF ListInv, LevelTypeOK, addOrder
  <2>2. CASE m = l
    <3>1. i \in 1 .. n + 1 /\ fifo'[m] = g /\ Len(fifo'[m]) = n + 1
      BY <2>2, <1>2, <1>3
    <3>2. CASE i = n + 1
      BY <3>1, <3>2, <2>1, <1>1, <1>2, <1>6
    <3>3. CASE i # n + 1
      <4>1. i \in 1 .. n /\ g[i] = f[i] /\ f[i] # o /\ f[i] \in Orders
        BY <3>1, <3>3, <1>1, <1>2, <1>5 DEF f, n
      <4>2. /\ next[f[i]] = IF i = n THEN NULL ELSE f[i + 1]
            /\ prev[f[i]] = IF i = 1 THEN NULL ELSE f[i - 1]
        BY <4>1 DEF ListInv, ListIntact, LinksRight, f, n
      <4>3. f[i] = tail_[l] <=> i = n
        BY <4>1, <1>1, <1>6, <1>7
      <4>4. next'[f[i]] = IF i = n THEN o ELSE f[i + 1]
        BY <4>1, <4>2, <4>3, <2>1
      <4>5. prev'[f[i]] = IF i = 1 THEN NULL ELSE f[i - 1]
        BY <4>1, <4>2, <2>1
      <4> QED
        BY <4>1, <4>4, <4>5, <3>1, <1>1, <1>2
    <3> QED
      BY <3>2, <3>3
  <2>3. CASE m # l
    <3>1. fifo'[m] = fifo[m] /\ fifo[m][i] \in Orders /\ at[fifo[m][i]] = m /\ fifo[m][i] # o
      BY <2>3, <1>3, <1>5
    <3>2. fifo[m][i] # tail_[l]
      <4>1. CASE n = 0
        BY <4>1, <3>1, <1>6
      <4>2. CASE n # 0
        <5>1. tail_[l] = f[n] /\ n \in 1 .. n
          BY <4>2, <1>1, <1>6
        <5>2. at[tail_[l]] = l
          BY <5>1, <1>5 DEF f, n
        <5> QED
          BY <5>2, <3>1, <2>3
      <4> QED
        BY <4>1, <4>2
    <3>3. /\ next'[fifo[m][i]] = next[fifo[m][i]]
          /\ prev'[fifo[m][i]] = prev[fifo[m][i]]
      BY <3>1, <3>2, <2>1
    <3>4. i \in 1 .. Len(fifo[m])
      BY <3>1
    <3>5. /\ next[fifo[m][i]] = IF i = Len(fifo[m]) THEN NULL ELSE fifo[m][i + 1]
          /\ prev[fifo[m][i]] = IF i = 1 THEN NULL ELSE fifo[m][i - 1]
      BY <3>4 DEF ListInv, ListIntact, LinksRight
    <3> QED
      BY <3>1, <3>3, <3>5
  <2> QED
    BY <2>2, <2>3
<1> QED
  BY <1>4, <1>8, <1>9, <1>10 DEF ListInv, ListIntact

-----------------------------------------------------------------------------
(* Removals.                                                               *)

\* PriceLevel::removeOrder: bridging the removed order keeps the lists intact.
LEMMA UnlinkKeeps ==
    ASSUME ListInv, NEW l \in Levels, NEW o \in Orders, at[o] = l, Unlink(l, o), Leaves(l, o)
    PROVE  /\ ListIntact'
           /\ head_' \in [Levels -> Orders \cup {NULL}] /\ tail_' \in [Levels -> Orders \cup {NULL}]
           /\ next' \in [Orders -> Orders \cup {NULL}] /\ prev' \in [Orders -> Orders \cup {NULL}]
           /\ order_count_' \in [Levels -> Nat]
           /\ at' \in [Orders -> Levels \cup {NULL}] /\ fifo' \in [Levels -> Seq(Orders)]
<1> USE LevelAssumption
<1> DEFINE f == fifo[l]
           n == Len(f)
           k == PlaceOf(f, o)
           g == Without(f, k)
<1>1. /\ f \in Seq(Orders) /\ n \in Nat /\ l # NULL
      /\ \A i \in 1 .. n : f[i] \in Orders
  BY DEF ListInv, LevelTypeOK
<1>2. \E i \in 1 .. n : f[i] = o
  BY <1>1 DEF ListInv, ListIntact, Placed
<1>3. k \in 1 .. n /\ f[k] = o
  <2> HIDE DEF f
  <2> QED
    BY <1>1, <1>2, PlaceProperties
<1>4. /\ g \in Seq(Orders) /\ Len(g) = n - 1
      /\ \A i \in 1 .. n - 1 : g[i] = IF i < k THEN f[i] ELSE f[i + 1]
  <2> HIDE DEF f, k
  <2> QED
    BY <1>1, <1>3, WithoutProperties
<1>5. /\ fifo'[l] = g
      /\ \A m \in Levels \ {l} : fifo'[m] = fifo[m]
      /\ at'[o] = NULL /\ \A p \in Orders \ {o} : at'[p] = at[p]
  BY DEF ListInv, LevelTypeOK, Leaves
<1>6. fifo' \in [Levels -> Seq(Orders)] /\ at' \in [Orders -> Levels \cup {NULL}]
  <2>1. fifo' = [fifo EXCEPT ![l] = g]
    BY DEF Leaves
  <2> HIDE DEF g
  <2> QED
    BY <2>1, <1>4 DEF ListInv, LevelTypeOK, Leaves
<1>7. /\ \A m \in Levels : \A i \in 1 .. Len(fifo[m]) :
             fifo[m][i] \in Orders /\ at[fifo[m][i]] = m
      /\ \A m \in Levels : \A i, j \in 1 .. Len(fifo[m]) : fifo[m][i] = fifo[m][j] => i = j
  BY DEF ListInv, LevelTypeOK, ListIntact, Placed
<1>8. \A i, j \in 1 .. n : f[i] = f[j] => i = j
  BY <1>7
<1>9. /\ next[o] = IF k = n THEN NULL ELSE f[k + 1]
      /\ prev[o] = IF k = 1 THEN NULL ELSE f[k - 1]
  <2> HIDE DEF k
  <2>1. /\ next[f[k]] = IF k = n THEN NULL ELSE f[k + 1]
        /\ prev[f[k]] = IF k = 1 THEN NULL ELSE f[k - 1]
    BY <1>3 DEF ListInv, ListIntact, LinksRight
  <2> QED
    BY <2>1, <1>3
<1>10. order_count_[l] = n /\ head_[l] = f[1] /\ tail_[l] = f[n]
  <2>1. n # 0
    BY <1>1, <1>2
  <2> QED
    BY <2>1 DEF ListInv, ListIntact, EndsRight
<1> HIDE DEF f, n, k, g
<1>11. /\ head_' \in [Levels -> Orders \cup {NULL}] /\ tail_' \in [Levels -> Orders \cup {NULL}]
       /\ next' \in [Orders -> Orders \cup {NULL}] /\ prev' \in [Orders -> Orders \cup {NULL}]
  <2>1. head_' \in [Levels -> Orders \cup {NULL}]
    BY DEF ListInv, LevelTypeOK, Unlink
  <2>2. tail_' \in [Levels -> Orders \cup {NULL}]
    BY DEF ListInv, LevelTypeOK, Unlink
  <2>3. next' \in [Orders -> Orders \cup {NULL}]
    BY DEF ListInv, LevelTypeOK, Unlink
  <2>4. prev' \in [Orders -> Orders \cup {NULL}]
    BY DEF ListInv, LevelTypeOK, Unlink
  <2> QED
    BY <2>1, <2>2, <2>3, <2>4
<1>12. order_count_' \in [Levels -> Nat] /\ order_count_'[l] = n - 1
  <2>1. order_count_' = [order_count_ EXCEPT ![l] = n - 1] /\ n - 1 \in Nat
    BY <1>1, <1>3, <1>10 DEF Unlink
  <2> QED
    BY <2>1 DEF ListInv, LevelTypeOK
<1>13. Placed'
  <2>1. ASSUME NEW m \in Levels, NEW i \in 1 .. Len(fifo'[m])
        PROVE  at'[fifo'[m][i]] = m
    <3>1. CASE m # l
      <4>1. fifo'[m][i] \in Orders /\ at[fifo'[m][i]] = m
        BY <3>1, <2>1, <1>5, <1>7
      <4> QED
        BY <4>1, <3>1, <1>5
    <3>2. CASE m = l
      <4>1. i \in 1 .. n - 1 /\ fifo'[m][i] = g[i]
        BY <3>2, <2>1, <1>4, <1>5
      <4>2. PICK j \in 1 .. n : g[i] = f[j] /\ j # k
        <5>1. CASE i < k
          BY <5>1, <4>1, <1>1, <1>3, <1>4
        <5>2. CASE ~(i < k)
          BY <5>2, <4>1, <1>1, <1>3, <1>4
        <5> QED
          BY <5>1, <5>2
      <4>3. f[j] \in Orders \ {o} /\ at[f[j]] = l
        BY <4>2, <1>3, <1>7, <1>8 DEF f, n
      <4> QED
        BY <4>1, <4>2, <4>3, <3>2, <1>5
    <3> QED
      BY <3>1, <3>2
  <2>2. ASSUME NEW p \in Orders, at'[p] # NULL
        PROVE  \E i \in 1 .. Len(fifo'[at'[p]]) : fifo'[at'[p]][i] = p
    <3>1. p # o /\ at'[p] = at[p] /\ at[p] \in Levels
      BY <2>2, <1>5 DEF ListInv, LevelTypeOK
    <3>2. PICK j \in 1 .. Len(fifo[at[p]]) : fifo[at[p]][j] = p
      BY <3>1, <2>2 DEF ListInv, ListIntact, Placed
    <3>3. CASE at[p] # l
      BY <3>1, <3>2, <3>3, <1>5
    <3>4. CASE at[p] = l
      <4>1. j \in 1 .. n /\ f[j] = p /\ j # k
        BY <3>1, <3>2, <3>4, <1>3 DEF f, n
      <4>2. CASE j < k
        <5>1. j \in 1 .. n - 1 /\ g[j] = p
          BY <4>1, <4>2, <1>1, <1>3, <1>4
        <5> QED
          BY <5>1, <3>1, <3>4, <1>4, <1>5
      <4>3. CASE ~(j < k)
        <5>1. j - 1 \in 1 .. n - 1 /\ ~(j - 1 < k) /\ (j - 1) + 1 = j
          BY <4>1, <4>3, <1>1, <1>3
        <5>2. g[j - 1] = p
          BY <5>1, <4>1, <1>4
        <5> QED
          BY <5>1, <5>2, <3>1, <3>4, <1>4, <1>5
      <4> QED
        BY <4>2, <4>3
    <3> QED
      BY <3>3, <3>4
  <2>3. ASSUME NEW m \in Levels, NEW i \in 1 .. Len(fifo'[m]), NEW j \in 1 .. Len(fifo'[m]),
               fifo'[m][i] = fifo'[m][j]
        PROVE  i = j
    <3>1. CASE m # l
      BY <3>1, <2>3, <1>5, <1>7
    <3>2. CASE m = l
      <4>1. i \in 1 .. n - 1 /\ j \in 1 .. n - 1 /\ g[i] = g[j]
        BY <3>2, <2>3, <1>4, <1>5
      <4>2. /\ g[i] = IF i < k THEN f[i] ELSE f[i + 1]
            /\ g[j] = IF j < k THEN f[j] ELSE f[j + 1]
        BY <4>1, <1>4
      <4>3. i \in 1 .. n /\ i + 1 \in 1 .. n /\ j \in 1 .. n /\ j + 1 \in 1 .. n
        BY <4>1, <1>1
      <4>4. CASE i < k /\ j < k
        BY <4>1, <4>2, <4>3, <4>4, <1>8
      <4>5. CASE i < k /\ ~(j < k)
        <5>1. i = j + 1
          BY <4>1, <4>2, <4>3, <4>5, <1>8
        <5> QED
          BY <5>1, <4>1, <4>5, <1>1, <1>3
      <4>6. CASE ~(i < k) /\ j < k
        <5>1. j = i + 1
          BY <4>1, <4>2, <4>3, <4>6, <1>8
        <5> QED
          BY <5>1, <4>1, <4>6, <1>1, <1>3
      <4>7. CASE ~(i < k) /\ ~(j < k)
        <5>1. i + 1 = j + 1
          BY <4>1, <4>2, <4>3, <4>7, <1>8
        <5> QED
          BY <5>1, <4>1, <1>1
      <4> QED
        BY <4>4, <4>5, <4>6, <4>7
    <3> QED
      BY <3>1, <3>2
  <2> QED
    BY <2>1, <2>2, <2>3 DEF Placed
<1>14. EndsRight'
  <2> SUFFICES ASSUME NEW m \in Levels
               PROVE  /\ head_'[m] = IF Len(fifo'[m]) = 0 THEN NULL ELSE fifo'[m][1]
                      /\ tail_'[m] = IF Len(fifo'[m]) = 0 THEN NULL ELSE fifo'[m][Len(fifo'[m])]
                      /\ order_count_'[m] = Len(fifo'[m])
    BY DEF EndsRight
  <2>1. CASE m # l
    <3>1. head_'[m] = head_[m] /\ tail_'[m] = tail_[m] /\ order_count_'[m] = order_count_[m]
      BY <2>1 DEF ListInv, LevelTypeOK, Unlink
    <3> QED
      BY <2>1, <3>1, <1>5 DEF ListInv, ListIntact, EndsRight
  <2>2. CASE m = l
    <3>1. /\ head_'[l] = IF prev[o] = NULL THEN next[o] ELSE f[1]
          /\ tail_'[l] = IF next[o] = NULL THEN prev[o] ELSE f[n]
      BY <1>10 DEF ListInv, LevelTypeOK, Unlink
    <3>2. (prev[o] = NULL <=> k = 1) /\ (next[o] = NULL <=> k = n)
      BY <1>1, <1>3, <1>9
    <3>3. fifo'[m] = g /\ Len(fifo'[m]) = n - 1
      BY <2>2, <1>4, <1>5
    <3>4. head_'[m] = IF n - 1 = 0 THEN NULL ELSE g[1]
      <4>1. CASE n = 1
        BY <4>1, <3>1, <3>2, <2>2, <1>3, <1>9
      <4>2. CASE n # 1 /\ k = 1
        BY <4>2, <3>1, <3>2, <2>2, <1>1, <1>3, <1>4, <1>9
      <4>3. CASE n # 1 /\ k # 1
        BY <4>3, <3>1, <3>2, <2>2, <1>1, <1>3, <1>4
      <4> QED
        BY <4>1, <4>2, <4>3
    <3>5. tail_'[m] = IF n - 1 = 0 THEN NULL ELSE g[n - 1]
      <4>1. CASE n = 1
        BY <4>1, <3>1, <3>2, <2>2, <1>3, <1>9
      <4>2. CASE n # 1 /\ k = n
        BY <4>2, <3>1, <3>2, <2>2, <1>1, <1>3, <1>4, <1>9
      <4>3. CASE n # 1 /\ k # n
        <5>1. n - 1 \in 1 .. n - 1 /\ ~(n - 1 < k) /\ (n - 1) + 1 = n
          BY <4>3, <1>1, <1>3
        <5> QED
          BY <5>1, <4>3, <3>1, <3>2, <2>2, <1>4
      <4> QED
        BY <4>1, <4>2, <4>3
    <3> QED
      BY <3>3, <3>4, <3>5, <2>2, <1>12
  <2> QED
    BY <2>1, <2>2
<1>15. LinksRight'
  <2> SUFFICES ASSUME NEW m \in Levels, NEW i \in 1 .. Len(fifo'[m])
               PROVE  /\ next'[fifo'[m][i]] = IF i = Len(fifo'[m]) THEN NULL ELSE fifo'[m][i + 1]
                      /\ prev'[fifo'[m][i]] = IF i = 1 THEN NULL ELSE fifo'[m][i - 1]
    BY DEF LinksRight
  <2>1. /\ \A p \in Orders : next'[p] = IF p = o THEN NULL ELSE
                                        IF p = prev[o] THEN next[o] ELSE next[p]
        /\ \A p \in Orders : prev'[p] = IF p = o THEN NULL ELSE
                                        IF p = next[o] THEN prev[o] ELSE prev[p]
    BY DEF Unlink
  <2>2. CASE m # l
    <3>1. /\ fifo'[m] = fifo[m] /\ i \in 1 .. Len(fifo[m])
          /\ fifo[m][i] \in Orders /\ at[fifo[m][i]] = m
      BY <2>2, <1>5, <1>7
    <3>2. \A j \in 1 .. n : fifo[m][i] # f[j]
      BY <3>1, <2>2, <1>7 DEF f, n
    <3>3. fifo[m][i] # o /\ fifo[m][i] # prev[o] /\ fifo[m][i] # next[o]
      BY <3>1, <3>2, <1>1, <1>3, <1>9
    <3> QED
      BY <3>1, <3>3, <2>1 DEF ListInv, ListIntact, LinksRight
  <2>3. CASE m = l
    <3> DEFINE j == IF i < k THEN i ELSE i + 1
    <3>1. /\ i \in 1 .. n - 1 /\ fifo'[m] = g /\ Len(fifo'[m]) = n - 1
          /\ g[i] = f[j]
      BY <2>3, <1>4, <1>5
    <3>2. j \in 1 .. n /\ j # k /\ f[j] \in Orders /\ f[j] # o
      BY <3>1, <1>1, <1>3, <1>8
    <3>3. /\ next[f[j]] = IF j = n THEN NULL ELSE f[j + 1]
          /\ prev[f[j]] = IF j = 1 THEN NULL ELSE f[j - 1]
      <4> HIDE DEF j
      <4> QED
        BY <3>2 DEF ListInv, ListIntact, LinksRight, f, n
    <3>4. (f[j] = prev[o] <=> j = k - 1) /\ (f[j] = next[o] <=> j = k + 1)
      <4>1. f[j] = prev[o] <=> j = k - 1
        <5>1. CASE k = 1
          <6>1. prev[o] = NULL /\ j # k - 1
            BY <5>1, <3>2, <1>9
          <6> QED
            BY <6>1, <3>2
        <5>2. CASE k # 1
          <6>1. prev[o] = f[k - 1] /\ k - 1 \in 1 .. n
            BY <5>2, <1>1, <1>3, <1>9
          <6> HIDE DEF j
          <6> QED
            BY <6>1, <3>2, <1>8
        <5> QED
          BY <5>1, <5>2
      <4>2. f[j] = next[o] <=> j = k + 1
        <5>1. CASE k = n
          <6>1. next[o] = NULL /\ j # k + 1
            BY <5>1, <3>2, <1>1, <1>9
          <6> QED
            BY <6>1, <3>2
        <5>2. CASE k # n
          <6>1. next[o] = f[k + 1] /\ k + 1 \in 1 .. n
            BY <5>2, <1>1, <1>3, <1>9
          <6> HIDE DEF j
          <6> QED
            BY <6>1, <3>2, <1>8
        <5> QED
          BY <5>1, <5>2
      <4> QED
        BY <4>1, <4>2
    <3>5. /\ next'[f[j]] = IF j = k - 1 THEN next[o] ELSE next[f[j]]
          /\ prev'[f[j]] = IF j = k + 1 THEN prev[o] ELSE prev[f[j]]
      <4> HIDE DEF j
      <4> QED
        BY <3>2, <3>4, <2>1
    <3>6. next'[g[i]] = IF i = n - 1 THEN NULL ELSE g[i + 1]
      <4>1. CASE i < k - 1
        <5>1. j = i /\ i + 1 \in 1 .. n - 1 /\ i + 1 < k /\ j # n /\ j # k - 1 /\ i # n - 1
          BY <4>1, <3>1, <1>1, <1>3
        <5>2. g[i + 1] = f[i + 1]
          BY <5>1, <1>4
        <5> HIDE DEF j
        <5> QED
          BY <5>1, <5>2, <3>1, <3>3, <3>5
      <4>2. CASE i = k - 1
        <5>1. j = k - 1 /\ next'[g[i]] = next[o] /\ (i = n - 1 <=> k = n)
          BY <4>2, <3>1, <3>5, <1>1, <1>3
        <5>2. k # n => g[i + 1] = f[k + 1]
          <6>1. k # n => i + 1 \in 1 .. n - 1 /\ ~(i + 1 < k) /\ (i + 1) + 1 = k + 1
            BY <4>2, <1>1, <1>3
          <6> QED
            BY <6>1, <1>4
        <5> QED
          BY <5>1, <5>2, <1>9
      <4>3. CASE ~(i < k)
        <5>1. j = i + 1 /\ j # k - 1 /\ (i = n - 1 <=> j = n)
          BY <4>3, <3>1, <1>1, <1>3
        <5>2. i # n - 1 => g[i + 1] = f[j + 1]
          <6>1. i # n - 1 => i + 1 \in 1 .. n - 1 /\ ~(i + 1 < k)
            BY <4>3, <3>1, <1>1, <1>3
          <6> QED
            BY <6>1, <5>1, <1>4
        <5> HIDE DEF j
        <5> QED
          BY <5>1, <5>2, <3>1, <3>3, <3>5
      <4> QED
        BY <4>1, <4>2, <4>3, <3>1, <1>1, <1>3
    <3>7. prev'[g[i]] = IF i = 1 THEN NULL ELSE g[i - 1]
      <4>1. CASE i < k
        <5>1. j = i /\ j # k + 1
          BY <4>1, <3>1, <1>3
        <5>2. i # 1 => g[i - 1] = f[i - 1]
          <6>1. i # 1 => i - 1 \in 1 .. n - 1 /\ i - 1 < k
            BY <4>1, <3>1, <1>1, <1>3
          <6> QED
            BY <6>1, <1>4
        <5> HIDE DEF j
        <5> QED
          BY <5>1, <5>2, <3>1, <3>3, <3>5
      <4>2. CASE i = k
        <5>1. j = k + 1 /\ prev'[g[i]] = prev[o]
          BY <4>2, <3>1, <3>5, <1>3
        <5>2. k # 1 => g[i - 1] = f[k - 1]
          <6>1. k # 1 => k - 1 \in 1 .. n - 1 /\ k - 1 < k
            BY <4>2, <3>1, <1>1, <1>3
          <6> QED
            BY <6>1, <4>2, <1>4
        <5> QED
          BY <5>1, <5>2, <4>2, <1>9
      <4>3. CASE i > k
        <5>1. /\ j = i + 1 /\ j # k + 1 /\ j # 1 /\ i # 1
              /\ i - 1 \in 1 .. n - 1 /\ ~(i - 1 < k) /\ (i - 1) + 1 = j - 1
          BY <4>3, <3>1, <1>1, <1>3
        <5>2. g[i - 1] = f[j - 1]
          BY <5>1, <1>4
        <5> HIDE DEF j
        <5> QED
          BY <5>1, <5>2, <3>1, <3>3, <3>5
      <4> QED
        BY <4>1, <4>2, <4>3, <3>1, <1>1, <1>3
    <3> QED
      BY <3>1, <3>6, <3>7
  <2> QED
    BY <2>2, <2>3
<1> QED
  BY <1>6, <1>11, <1>12, <1>13, <1>14, <1>15 DEF ListIntact

-----------------------------------------------------------------------------
(* The totals.                                                             *)

\* TotalsExact in the words of NumberLemmas.
Of(l) == {o \in Orders : at[o] = l}

Totals == \A l \in Levels : total_quantity_[l] = SumOver(quantity, Of(l))

LEMMA TotalsAre == TotalsExact <=> Totals
BY DEF TotalsExact, SumOver, Of, Totals

LEMMA TotalsAreNext == TotalsExact' <=> Totals'
BY TotalsAre, PTL

\* The orders of a level are finitely many and have integer quantities.
LEMMA OfFinite ==
    ASSUME LevelTypeOK, NEW l \in Levels
    PROVE  IsFiniteSet(Of(l)) /\ SumOver(quantity, Of(l)) \in Nat
           /\ \A o \in Of(l) : quantity[o] \in Int
<1>1. IsFiniteSet(Of(l))
  BY LevelAssumption, FS_Subset DEF Of
<1>2. \A o \in Of(l) : quantity[o] \in Nat
  BY DEF LevelTypeOK, Of
<1> QED
  BY <1>1, <1>2, SumType

\* addOrder counts the new order in, once.
LEMMA AddTotals ==
    ASSUME LevelTypeOK, TotalsExact, NEW l \in Levels, NEW o \in Orders, NEW q \in Quantities,
           at[o] = NULL, addOrder(l, o, q)
    PROVE  TotalsExact'
<1> USE LevelAssumption
<1>1. /\ \A p \in Orders \ {o} : quantity'[p] = quantity[p] /\ at'[p] = at[p]
      /\ quantity'[o] = q /\ at'[o] = l /\ q \in Int
      /\ total_quantity_'[l] = total_quantity_[l] + q
      /\ \A m \in Levels \ {l} : total_quantity_'[m] = total_quantity_[m]
  BY DEF LevelTypeOK, addOrder
<1>2. ASSUME NEW m \in Levels
      PROVE  total_quantity_'[m] = SumOver(quantity', Of(m)')
  <2>1. /\ IsFiniteSet(Of(m)) /\ o \notin Of(m)
        /\ \A p \in Of(m) : quantity'[p] = quantity[p] /\ quantity'[p] \in Int
    BY OfFinite, <1>1 DEF Of
  <2>2. SumOver(quantity', Of(m)) = SumOver(quantity, Of(m))
    BY <2>1, SumAgree
  <2>3. total_quantity_[m] = SumOver(quantity, Of(m)) /\ SumOver(quantity, Of(m)) \in Int
    BY TotalsAre, OfFinite DEF Totals
  <2>4. CASE m # l
    <3>1. Of(m)' = Of(m)
      BY <1>1, <2>4 DEF Of
    <3> QED
      BY <3>1, <1>1, <2>2, <2>3, <2>4
  <2>5. CASE m = l
    <3>1. Of(m)' = Of(m) \cup {o}
      BY <1>1, <2>5 DEF Of
    <3>2. SumOver(quantity', Of(m) \cup {o}) = q + SumOver(quantity', Of(m))
      BY <1>1, <2>1, SumAdd
    <3> QED
      BY <3>1, <3>2, <1>1, <2>2, <2>3, <2>5
  <2> QED
    BY <2>4, <2>5
<1> QED
  BY <1>2, TotalsAreNext DEF Totals

\* An order leaves its level with the quantity d, the rest of it having been taken off
\* already: the total goes down by all it had.
LEMMA LeaveTotals ==
    ASSUME LevelTypeOK, TotalsExact, NEW o \in Orders, at[o] \in Levels, Leaves(at[o], o),
           \A p \in Orders \ {o} : quantity'[p] = quantity[p],
           total_quantity_' = [total_quantity_ EXCEPT ![at[o]] = @ - quantity[o]]
    PROVE  TotalsExact'
<1> USE LevelAssumption
<1> DEFINE l == at[o]
<1>1. /\ \A p \in Orders \ {o} : at'[p] = at[p]
      /\ at'[o] = NULL /\ quantity[o] \in Int
      /\ total_quantity_'[l] = total_quantity_[l] - quantity[o]
      /\ \A m \in Levels \ {l} : total_quantity_'[m] = total_quantity_[m]
  BY DEF LevelTypeOK, Leaves
<1>2. ASSUME NEW m \in Levels
      PROVE  total_quantity_'[m] = SumOver(quantity', Of(m)')
  <2>1. Of(m)' = Of(m) \ {o} /\ IsFiniteSet(Of(m)) /\ IsFiniteSet(Of(m) \ {o})
    <3>1. Of(m)' = Of(m) \ {o}
      BY <1>1 DEF Of
    <3>2. IsFiniteSet(Of(m))
      BY OfFinite
    <3> QED
      BY <3>1, <3>2, FS_Subset
  <2>2. SumOver(quantity', Of(m) \ {o}) = SumOver(quantity, Of(m) \ {o})
    <3>1. \A p \in Of(m) \ {o} : quantity'[p] = quantity[p]
      BY DEF Of
    <3> QED
      BY <2>1, <3>1, SumAgree
  <2>3. total_quantity_[m] = SumOver(quantity, Of(m)) /\ SumOver(quantity, Of(m)) \in Int
        /\ \A p \in Of(m) : quantity[p] \in Int
    BY TotalsAre, OfFinite DEF Totals
  <2>4. CASE m # l
    <3>1. Of(m) \ {o} = Of(m)
      BY <2>4 DEF Of
    <3> QED
      BY <3>1, <1>1, <2>1, <2>2, <2>3, <2>4
  <2>5. CASE m = l
    <3>1. o \in Of(m)
      BY <2>5 DEF Of
    <3>2. SumOver(quantity, Of(m)) = quantity[o] + SumOver(quantity, Of(m) \ {o})
      BY <3>1, <2>1, <2>3, SumRemove
    <3>3. SumOver(quantity, Of(m) \ {o}) \in Int
      BY <2>1, <2>3, SumType
    <3> QED
      BY <3>2, <3>3, <1>1, <2>1, <2>2, <2>3, <2>5
  <2> QED
    BY <2>4, <2>5
<1> QED
  BY <1>2, TotalsAreNext DEF Totals

\* The quantity of an order changes and the total of its level by the same amount.
LEMMA ResizeTotals ==
    ASSUME LevelTypeOK, TotalsExact, NEW o \in Orders, at[o] \in Levels, NEW q \in Int, at' = at,
           quantity' = [quantity EXCEPT ![o] = q],
           total_quantity_' = [total_quantity_ EXCEPT ![at[o]] = @ + (q - quantity[o])]
    PROVE  TotalsExact'
<1> DEFINE l == at[o]
<1>1. /\ \A p \in Orders \ {o} : quantity'[p] = quantity[p]
      /\ quantity'[o] = q /\ quantity[o] \in Int
      /\ total_quantity_'[l] = total_quantity_[l] + (q - quantity[o])
      /\ \A m \in Levels \ {l} : total_quantity_'[m] = total_quantity_[m]
  BY DEF LevelTypeOK
<1>2. ASSUME NEW m \in Levels
      PROVE  total_quantity_'[m] = SumOver(quantity', Of(m)')
  <2>1. Of(m)' = Of(m) /\ IsFiniteSet(Of(m))
    BY OfFinite DEF Of
  <2>2. total_quantity_[m] = SumOver(quantity, Of(m)) /\ SumOver(quantity, Of(m)) \in Int
        /\ \A p \in Of(m) : quantity[p] \in Int
    BY TotalsAre, OfFinite DEF Totals
  <2>3. \A p \in Of(m) \ {o} : quantity'[p] = quantity[p]
    BY <1>1 DEF Of
  <2>4. CASE m # l
    <3>1. \A p \in Of(m) : quantity[p] = quantity'[p]
      BY <2>3, <2>4 DEF Of
    <3>2. SumOver(quantity, Of(m)) = SumOver(quantity', Of(m))
      BY <3>1, <2>1, SumAgree
    <3> QED
      BY <3>2, <1>1, <2>1, <2>2, <2>4
  <2>5. CASE m = l
    <3>1. o \in Of(m)
      BY <2>5 DEF Of
    <3>2. SumOver(quantity', Of(m)) = SumOver(quantity, Of(m)) + (q - quantity[o])
      <4> DEFINE S == Of(m)
                 g == quantity'
      <4>1. /\ IsFiniteSet(S) /\ o \in S /\ g[o] \in Int
            /\ \A p \in S : quantity[p] \in Int
            /\ \A p \in S \ {o} : g[p] = quantity[p]
        BY <3>1, <1>1, <2>1, <2>2, <2>3
      <4> HIDE DEF S, g
      <4>2. SumOver(g, S) = SumOver(quantity, S) + (g[o] - quantity[o])
        BY <4>1, SumChange
      <4> QED
        BY <4>2, <1>1 DEF S, g
    <3> QED
      BY <3>2, <1>1, <2>1, <2>2, <2>5
  <2> QED
    BY <2>4, <2>5
<1> QED
  BY <1>2, TotalsAreNext DEF Totals

-----------------------------------------------------------------------------
(* The theorems.                                                           *)

\* The head of a level is an order of that level.
LEMMA HeadIsAt ==
    ASSUME ListInv, NEW l \in Levels, head_[l] \in Orders
    PROVE  at[head_[l]] = l
<1>1. Len(fifo[l]) # 0 /\ head_[l] = fifo[l][1]
  BY LevelAssumption DEF ListInv, ListIntact, EndsRight
<1>2. Len(fifo[l]) \in Nat
  BY DEF ListInv, LevelTypeOK
<1> QED
  BY <1>1, <1>2 DEF ListInv, ListIntact, Placed

\* Every operation of a level keeps types and lists.
LEMMA NextKeeps ==
    ASSUME ListInv, [LevelNext]_listVars
    PROVE  ListInv'
<1> USE LevelAssumption
<1>1. ASSUME NEW l \in Levels, NEW o \in Orders, NEW q \in Quantities,
           at[o] = NULL, addOrder(l, o, q)
      PROVE  ListInv'
  BY <1>1, AddKeeps
<1>2. ASSUME NEW o \in Orders, removeOrder(o)
      PROVE  ListInv'
  <2>1. at[o] \in Levels
    BY <1>2 DEF ListInv, LevelTypeOK, removeOrder
  <2>2. Unlink(at[o], o) /\ Leaves(at[o], o)
    BY <1>2 DEF removeOrder
  <2>3. quantity' \in [Orders -> Nat] /\ total_quantity_' \in [Levels -> Int]
    BY <1>2, <2>1 DEF ListInv, LevelTypeOK, removeOrder
  <2> QED
    BY <2>1, <2>2, <2>3, UnlinkKeeps DEF ListInv, LevelTypeOK
<1>3. ASSUME NEW l \in Levels, NEW qty \in Quantities, reduceHeadQuantity(l, qty)
      PROVE  ListInv'
  <2> DEFINE h == head_[l]
  <2>1. h \in Orders /\ quantity[h] \in Nat /\ qty \in Nat /\ qty <= quantity[h]
    BY <1>3 DEF ListInv, LevelTypeOK, reduceHeadQuantity, isEmpty, getHead
  <2>2. at[h] = l
    BY <2>1, HeadIsAt
  <2>3. quantity' \in [Orders -> Nat] /\ total_quantity_' \in [Levels -> Int]
    <3>1. quantity' = [quantity EXCEPT ![h] = quantity[h] - qty] /\ quantity[h] - qty \in Nat
      BY <1>3, <2>1 DEF reduceHeadQuantity, getHead
    <3>2. total_quantity_' = [total_quantity_ EXCEPT ![l] = @ - qty]
      BY <1>3 DEF reduceHeadQuantity
    <3> QED
      BY <3>1, <3>2, <2>1 DEF ListInv, LevelTypeOK
  <2>4. CASE quantity[h] = qty
    <3>1. Unlink(l, h) /\ Leaves(l, h)
      BY <1>3, <2>4 DEF reduceHeadQuantity, getHead
    <3> QED
      BY <3>1, <2>1, <2>2, <2>3, UnlinkKeeps DEF ListInv, LevelTypeOK
  <2>5. CASE quantity[h] # qty
    <3>1. UNCHANGED <<levelVars, links, at, fifo>>
      BY <1>3, <2>5 DEF reduceHeadQuantity, getHead
    <3> QED
      BY <3>1, <2>3 DEF ListInv, LevelTypeOK, ListIntact, Placed, EndsRight, LinksRight, levelVars, links
  <2> QED
    BY <2>4, <2>5
<1>4. ASSUME NEW o \in Orders, NEW q \in Quantities, adjustTotalQuantity(o, q)
      PROVE  ListInv'
  <2>1. q \in Nat /\ at[o] \in Levels
    BY <1>4 DEF ListInv, LevelTypeOK, adjustTotalQuantity
  <2>2. quantity' \in [Orders -> Nat] /\ total_quantity_' \in [Levels -> Int]
    BY <1>4, <2>1 DEF ListInv, LevelTypeOK, adjustTotalQuantity
  <2>3. UNCHANGED <<levelVars, links, at, fifo>>
    BY <1>4 DEF adjustTotalQuantity
  <2> QED
    BY <2>2, <2>3 DEF ListInv, LevelTypeOK, ListIntact, Placed, EndsRight, LinksRight, levelVars, links
<1>5. CASE UNCHANGED listVars
  <2>1. UNCHANGED <<head_, tail_, order_count_, total_quantity_, next, prev, quantity, at, fifo>>
    BY <1>5 DEF listVars, levelVars, links
  <2>2. LevelTypeOK'
    BY <2>1 DEF ListInv, LevelTypeOK
  <2>3. ListIntact'
    BY <2>1 DEF ListInv, ListIntact, Placed, EndsRight, LinksRight
  <2> QED
    BY <2>2, <2>3 DEF ListInv
<1> QED
  BY <1>1, <1>2, <1>3, <1>4, <1>5 DEF LevelNext

\* Every operation of a level keeps the totals exact.
LEMMA NextTotals ==
    ASSUME ListInv, TotalsExact, [LevelNext]_listVars
    PROVE  TotalsExact'
<1> USE LevelAssumption
<1>1. ASSUME NEW l \in Levels, NEW o \in Orders, NEW q \in Quantities,
             at[o] = NULL, addOrder(l, o, q)
      PROVE  TotalsExact'
  BY <1>1, AddTotals DEF ListInv
<1>2. ASSUME NEW o \in Orders, removeOrder(o)
      PROVE  TotalsExact'
  <2>1. at[o] \in Levels
    BY <1>2 DEF ListInv, LevelTypeOK, removeOrder
  <2>2. /\ Leaves(at[o], o) /\ \A p \in Orders \ {o} : quantity'[p] = quantity[p]
        /\ total_quantity_' = [total_quantity_ EXCEPT ![at[o]] = @ - quantity[o]]
    BY <1>2 DEF removeOrder
  <2> QED
    BY <2>1, <2>2, LeaveTotals DEF ListInv
<1>3. ASSUME NEW l \in Levels, NEW qty \in Quantities, reduceHeadQuantity(l, qty)
      PROVE  TotalsExact'
  <2> DEFINE h == head_[l]
  <2>1. h \in Orders /\ quantity[h] \in Int /\ qty \in Int /\ total_quantity_[l] \in Int
    BY <1>3 DEF ListInv, LevelTypeOK, reduceHeadQuantity, isEmpty, getHead
  <2>2. at[h] = l
    BY <2>1, HeadIsAt DEF ListInv
  <2>3. /\ quantity' = [quantity EXCEPT ![h] = @ - qty]
        /\ total_quantity_' = [total_quantity_ EXCEPT ![l] = @ - qty]
    BY <1>3 DEF reduceHeadQuantity, getHead
  <2> HIDE DEF h
  <2>4. CASE quantity[h] = qty
    <3>1. Leaves(at[h], h)
      BY <1>3, <2>2, <2>4 DEF reduceHeadQuantity, getHead, h
    <3>2. /\ \A p \in Orders \ {h} : quantity'[p] = quantity[p]
          /\ total_quantity_' = [total_quantity_ EXCEPT ![at[h]] = @ - quantity[h]]
      BY <2>2, <2>3, <2>4 DEF ListInv, LevelTypeOK
    <3> QED
      BY <3>1, <3>2, <2>1, <2>2, LeaveTotals DEF ListInv
  <2>5. CASE quantity[h] # qty
    <3> DEFINE q == quantity[h] - qty
    <3>1. at' = at /\ q \in Int
      BY <1>3, <2>1, <2>5 DEF reduceHeadQuantity, getHead, h
    <3>2. /\ quantity' = [quantity EXCEPT ![h] = q]
          /\ total_quantity_[l] - qty = total_quantity_[l] + (q - quantity[h])
      BY <2>1, <2>3
    <3>3. total_quantity_' = [total_quantity_ EXCEPT ![at[h]] = @ + (q - quantity[h])]
      BY <2>2, <2>3, <3>2
    <3> HIDE DEF q
    <3> QED
      BY <3>1, <3>2, <3>3, <2>1, <2>2, ResizeTotals DEF ListInv
  <2> QED
    BY <2>4, <2>5
<1>4. ASSUME NEW o \in Orders, NEW q \in Quantities, adjustTotalQuantity(o, q)
      PROVE  TotalsExact'
  <2>1. q \in Int /\ at[o] \in Levels /\ at' = at
    BY <1>4 DEF ListInv, LevelTypeOK, adjustTotalQuantity
  <2> QED
    BY <1>4, <2>1, ResizeTotals DEF ListInv, adjustTotalQuantity
<1>5. CASE UNCHANGED listVars
  <2>1. UNCHANGED <<total_quantity_, quantity, at>>
    BY <1>5 DEF listVars
  <2>2. Totals'
    BY <2>1, TotalsAre DEF Totals, Of
  <2> QED
    BY <2>2, TotalsAreNext
<1> QED
  BY <1>1, <1>2, <1>3, <1>4, <1>5 DEF LevelNext

\* The empty levels.
LEMMA LevelInitInv == LevelInit => LevelInv
<1> SUFFICES ASSUME LevelInit
             PROVE  LevelInv
  OBVIOUS
<1>1. ListInv
  BY LevelAssumption DEF LevelInit, ListInv, LevelTypeOK, ListIntact, Placed, EndsRight, LinksRight
<1>2. ASSUME NEW l \in Levels
      PROVE  total_quantity_[l] = SumOver(quantity, Of(l))
  <2>1. Of(l) = {} /\ total_quantity_[l] = 0
    BY LevelAssumption DEF LevelInit, Of
  <2> QED
    BY <2>1, SumEmpty
<1> QED
  BY <1>1, <1>2, TotalsAre DEF LevelInv, Totals

LEMMA LevelNextInv ==
    ASSUME LevelInv, [LevelNext]_listVars
    PROVE  LevelInv'
<1>1. ListInv /\ TotalsExact
  BY DEF LevelInv
<1> QED
  BY <1>1, NextKeeps, NextTotals DEF LevelInv

\* Types, lists and totals together are an inductive invariant of the price levels.
THEOREM LevelInvariant == LevelSpec => []LevelInv
<1>1. LevelInv /\ [LevelNext]_listVars => LevelInv'
  BY LevelNextInv
<1> QED
  BY LevelInitInv, <1>1, PTL DEF LevelSpec

\* The counters and links of price_level.hpp keep their types; a count never goes
\* below zero.
THEOREM LevelTypeCorrect == LevelSpec => []LevelTypeOK
<1>1. LevelInv => LevelTypeOK
  BY DEF LevelInv, ListInv
<1> QED
  BY <1>1, LevelInvariant, PTL

\* The linked lists of price_level.hpp spell the queues in both directions, for any
\* number of levels and orders.
THEOREM ListAlwaysIntact == LevelSpec => []ListIntact
<1>1. LevelInv => ListIntact
  BY DEF LevelInv, ListInv
<1> QED
  BY <1>1, LevelInvariant, PTL

\* The total a level keeps, over additions, removals, fills and changes of any order, is
\* the sum of its orders' quantities.
THEOREM TotalsAlwaysExact == LevelSpec => []TotalsExact
<1>1. LevelInv => TotalsExact
  BY DEF LevelInv
<1> QED
  BY <1>1, LevelInvariant, PTL

-----------------------------------------------------------------------------
PoolInv == PoolTypeOK /\ FreeListIntact /\ HandedOutOnce

-----------------------------------------------------------------------------
(* Lists in the cells.                                                     *)

\* addChunk on an empty list: the list is the new chunk, from its last slot down.
LEMMA FreshSpells ==
    ASSUME NEW c, NEW cap \in Nat, NEW n \in Nat \ {0}
    PROVE  /\ Fresh(cap, n) \in Seq(1 .. cap + n) /\ Len(Fresh(cap, n)) = n
           /\ Spells(Threaded(c, 0, cap, n), cap + n, Fresh(cap, n), cap + 1 .. cap + n)
<1> DEFINE st == Fresh(cap, n)
           t == Threaded(c, 0, cap, n)
<1>1. \A i \in 1 .. n : st[i] = cap + n + 1 - i /\ st[i] \in cap + 1 .. cap + n
  BY DEF Fresh
<1>2. st \in [1 .. n -> 1 .. cap + n]
  BY DEF Fresh
<1>3. st \in Seq(1 .. cap + n) /\ Len(st) = n
  <2> HIDE DEF st
  <2>1. [1 .. n -> 1 .. cap + n] \subseteq Seq(1 .. cap + n)
    OBVIOUS
  <2> QED
    BY <1>2, <2>1
<1>4. \A s \in cap + 1 .. cap + n : t[s] = IF s = cap + 1 THEN 0 ELSE s - 1
  BY DEF Threaded
<1> HIDE DEF st, t
<1>5. cap + n = IF Len(st) = 0 THEN 0 ELSE st[1]
  BY <1>1, <1>3
<1>6. ASSUME NEW i \in 1 .. Len(st)
      PROVE  st[i] \in cap + 1 .. cap + n /\ t[st[i]] = IF i = Len(st) THEN 0 ELSE st[i + 1]
  <2>1. /\ i \in 1 .. n /\ st[i] \in cap + 1 .. cap + n /\ (st[i] = cap + 1 <=> i = n)
        /\ (i # n => st[i + 1] = st[i] - 1)
    BY <1>1, <1>3
  <2> QED
    BY <2>1, <1>3, <1>4
<1>7. \A i, j \in 1 .. Len(st) : st[i] = st[j] => i = j
  BY <1>1, <1>3
<1>8. ASSUME NEW s \in cap + 1 .. cap + n
      PROVE  \E i \in 1 .. Len(st) : st[i] = s
  <2>1. cap + n + 1 - s \in 1 .. n /\ st[cap + n + 1 - s] = s
    BY <1>1
  <2> QED
    BY <2>1, <1>3
<1> QED
  BY <1>3, <1>5, <1>6, <1>7, <1>8 DEF Spells, st, t

\* allocate: the list without its head, whose cell is overwritten by the object.
LEMMA PopSpells ==
    ASSUME NEW D, NEW R, NEW c \in [D -> R], NEW F \in SUBSET D,
           NEW S, NEW st \in Seq(S), Len(st) # 0, NEW h, Spells(c, h, st, F)
    PROVE  /\ h \in F
           /\ Tail(st) \in Seq(S) /\ Len(Tail(st)) = Len(st) - 1
           /\ Spells([c EXCEPT ![h] = LIVE], c[h], Tail(st), F \ {h})
<1> DEFINE n == Len(st)
           u == Tail(st)
           d == [c EXCEPT ![h] = LIVE]
<1>1. /\ n \in Nat \ {0} /\ h = st[1]
      /\ \A i \in 1 .. n : st[i] \in F /\ c[st[i]] = IF i = n THEN 0 ELSE st[i + 1]
      /\ \A i, j \in 1 .. n : st[i] = st[j] => i = j
      /\ \A s \in F : \E i \in 1 .. n : st[i] = s
  BY DEF Spells
<1>2. u \in Seq(S) /\ Len(u) = n - 1 /\ \A i \in 1 .. n - 1 : u[i] = st[i + 1]
  BY <1>1
<1>3. h \in F /\ c[h] = IF n = 1 THEN 0 ELSE st[2]
  <2> HIDE DEF n
  <2>1. 1 \in 1 .. n /\ 1 + 1 = 2
    BY <1>1
  <2> QED
    BY <2>1, <1>1
<1>4. \A s \in F \ {h} : d[s] = c[s]
  OBVIOUS
<1> HIDE DEF n, u, d
<1>5. c[h] = IF Len(u) = 0 THEN 0 ELSE u[1]
  BY <1>1, <1>2, <1>3
<1>6. ASSUME NEW i \in 1 .. Len(u)
      PROVE  u[i] \in F \ {h} /\ d[u[i]] = IF i = Len(u) THEN 0 ELSE u[i + 1]
  <2>1. i \in 1 .. n - 1 /\ i + 1 \in 1 .. n /\ 1 \in 1 .. n /\ i + 1 # 1 /\ u[i] = st[i + 1]
    BY <1>1, <1>2
  <2>2. u[i] \in F /\ u[i] # h
    BY <2>1, <1>1
  <2>3. d[u[i]] = IF i + 1 = n THEN 0 ELSE st[(i + 1) + 1]
    BY <2>1, <2>2, <1>1, <1>4
  <2>4. i + 1 # n => u[i + 1] = st[(i + 1) + 1]
    BY <2>1, <1>1, <1>2
  <2> QED
    BY <2>1, <2>2, <2>3, <2>4, <1>1, <1>2
<1>7. ASSUME NEW i \in 1 .. Len(u), NEW j \in 1 .. Len(u), u[i] = u[j]
      PROVE  i = j
  <2>1. i + 1 \in 1 .. n /\ j + 1 \in 1 .. n /\ st[i + 1] = st[j + 1]
    BY <1>1, <1>2, <1>7
  <2>2. i + 1 = j + 1
    BY <2>1, <1>1
  <2> QED
    BY <2>2, <1>1, <1>2
<1>8. ASSUME NEW s \in F \ {h}
      PROVE  \E i \in 1 .. Len(u) : u[i] = s
  <2>1. PICK j \in 1 .. n : st[j] = s
    BY <1>1
  <2>2. j # 1 /\ j - 1 \in 1 .. n - 1 /\ (j - 1) + 1 = j
    BY <2>1, <1>1
  <2>3. u[j - 1] = s
    BY <2>1, <2>2, <1>2
  <2> QED
    BY <2>2, <2>3, <1>2
<1> QED
  BY <1>2, <1>3, <1>5, <1>6, <1>7, <1>8 DEF Spells, n, u, d

\* deallocate: the list with a slot in front of it that was not on it.
LEMMA PushSpells ==
    ASSUME NEW D, NEW R, NEW c \in [D -> R], NEW F \in SUBSET D,
           NEW st \in Seq(D), NEW h, Spells(c, h, st, F), NEW o \in D \ F
    PROVE  /\ <<o>> \o st \in Seq(D) /\ Len(<<o>> \o st) = Len(st) + 1
           /\ Spells([c EXCEPT ![o] = h], o, <<o>> \o st, F \cup {o})
<1> DEFINE n == Len(st)
           u == <<o>> \o st
           d == [c EXCEPT ![o] = h]
<1>1. /\ n \in Nat /\ h = IF n = 0 THEN 0 ELSE st[1]
      /\ \A i \in 1 .. n : st[i] \in F /\ c[st[i]] = IF i = n THEN 0 ELSE st[i + 1]
      /\ \A i, j \in 1 .. n : st[i] = st[j] => i = j
      /\ \A s \in F : \E i \in 1 .. n : st[i] = s
  BY DEF Spells
<1>2. /\ u \in Seq(D) /\ Len(u) = n + 1 /\ u[1] = o
      /\ \A i \in 2 .. n + 1 : u[i] = st[i - 1]
  BY <1>1
<1>3. d[o] = h /\ \A s \in F : d[s] = c[s]
  OBVIOUS
<1> HIDE DEF n, u, d
<1>4. o = IF Len(u) = 0 THEN 0 ELSE u[1]
  BY <1>1, <1>2
<1>5. ASSUME NEW i \in 1 .. Len(u)
      PROVE  u[i] \in F \cup {o} /\ d[u[i]] = IF i = Len(u) THEN 0 ELSE u[i + 1]
  <2>1. CASE i = 1
    <3>1. n # 0 => u[2] = st[1]
      <4>1. n # 0 => 2 \in 2 .. n + 1 /\ 2 - 1 = 1
        BY <1>1
      <4> QED
        BY <4>1, <1>2
    <3> QED
      BY <2>1, <3>1, <1>1, <1>2, <1>3
  <2>2. CASE i # 1
    <3>1. i \in 2 .. n + 1 /\ i - 1 \in 1 .. n /\ (i = n + 1 <=> i - 1 = n) /\ (i - 1) + 1 = i
      BY <2>2, <1>1, <1>2
    <3>2. u[i] = st[i - 1] /\ u[i] \in F
      BY <3>1, <1>1, <1>2
    <3>3. d[u[i]] = IF i - 1 = n THEN 0 ELSE st[i]
      BY <3>1, <3>2, <1>1, <1>3
    <3>4. i - 1 # n => u[i + 1] = st[i]
      <4>1. i - 1 # n => i + 1 \in 2 .. n + 1 /\ (i + 1) - 1 = i
        BY <3>1, <1>1
      <4> QED
        BY <4>1, <1>2
    <3> QED
      BY <3>1, <3>2, <3>3, <3>4, <1>2
  <2> QED
    BY <2>1, <2>2
<1>6. ASSUME NEW i \in 1 .. Len(u), NEW j \in 1 .. Len(u), u[i] = u[j]
      PROVE  i = j
  <2>1. \A k \in 2 .. n + 1 : k - 1 \in 1 .. n /\ u[k] = st[k - 1] /\ u[k] # o
    BY <1>1, <1>2
  <2>2. CASE i = 1 \/ j = 1
    BY <2>1, <2>2, <1>1, <1>2, <1>6
  <2>3. CASE i # 1 /\ j # 1
    <3>1. i \in 2 .. n + 1 /\ j \in 2 .. n + 1
      BY <2>3, <1>1, <1>2
    <3>2. i - 1 = j - 1
      BY <3>1, <2>1, <1>1, <1>6
    <3> QED
      BY <3>1, <3>2, <1>1
  <2> QED
    BY <2>2, <2>3
<1>7. ASSUME NEW s \in F \cup {o}
      PROVE  \E i \in 1 .. Len(u) : u[i] = s
  <2>1. CASE s = o
    BY <2>1, <1>1, <1>2
  <2>2. CASE s # o
    <3>1. PICK j \in 1 .. n : st[j] = s
      BY <2>2, <1>1
    <3>2. j + 1 \in 2 .. n + 1 /\ j + 1 \in 1 .. n + 1 /\ (j + 1) - 1 = j
      BY <1>1
    <3>3. u[j + 1] = s
      BY <3>1, <3>2, <1>2
    <3> QED
      BY <3>2, <3>3, <1>2
  <2> QED
    BY <2>1, <2>2
<1> QED
  BY <1>2, <1>4, <1>5, <1>6, <1>7 DEF Spells, n, u, d

-----------------------------------------------------------------------------
(* The steps of the pool.                                                  *)

LEMMA ChunkSize == chunk_size_ \in Nat \ {0}
BY PoolAssumption DEF chunk_size_

\* The slots in use are finitely many.
LEMMA LiveFinite ==
    ASSUME PoolTypeOK
    PROVE  IsFiniteSet(live) /\ Cardinality(live) \in Nat
<1>1. IsFiniteSet(1 .. capacity_) /\ live \in SUBSET (1 .. capacity_)
  BY FS_Interval DEF PoolTypeOK
<1>2. IsFiniteSet(live)
  BY <1>1, FS_Subset
<1> QED
  BY <1>2, FS_CardinalityType

\* The constructor.
LEMMA PoolInitInv == PoolInit => PoolInv
<1> SUFFICES ASSUME PoolInit
             PROVE  PoolInv
  OBVIOUS
<1>1. capacity_ \in Nat \ {0}
  BY ChunkSize, PoolAssumption DEF PoolInit
<1>2. /\ stack = Fresh(0, capacity_) /\ cell = Threaded(<<>>, 0, 0, capacity_)
      /\ free_head_ = capacity_ /\ live = {} /\ allocated_ = 0
  BY DEF PoolInit
<1>3. /\ stack \in Seq(1 .. 0 + capacity_) /\ Len(stack) = capacity_
      /\ Spells(cell, 0 + capacity_, stack, 0 + 1 .. 0 + capacity_)
  BY <1>1, <1>2, FreshSpells
<1>4. 0 + capacity_ = capacity_ /\ 0 + 1 .. 0 + capacity_ = 1 .. capacity_ \ live
  BY <1>1, <1>2
<1>5. cell \in [1 .. capacity_ -> (0 .. capacity_) \cup {LIVE}]
  BY <1>1, <1>2 DEF Threaded
<1>6. PoolTypeOK
  BY <1>1, <1>2, <1>3, <1>4, <1>5 DEF PoolTypeOK
<1>7. FreeListIntact
  BY <1>1, <1>2, <1>3, <1>4 DEF FreeListIntact
<1>8. HandedOutOnce
  BY <1>2, FS_EmptySet DEF HandedOutOnce
<1> QED
  BY <1>6, <1>7, <1>8 DEF PoolInv

\* allocate, with or without a new chunk.
LEMMA AllocateKeeps ==
    ASSUME PoolInv, allocate
    PROVE  PoolInv'
<1> DEFINE n == IF free_head_ = 0 THEN chunk_size_ ELSE 0
           cap == capacity_ + n
           grown == Threaded(cell, free_head_, capacity_, n)
           slot == IF free_head_ = 0 THEN cap ELSE free_head_
           st == IF free_head_ = 0 THEN Fresh(capacity_, n) ELSE stack
           F == 1 .. cap \ live
           R == (0 .. cap) \cup {LIVE}
<1>1. /\ capacity_' = cap /\ free_head_' = grown[slot] /\ cell' = [grown EXCEPT ![slot] = LIVE]
      /\ allocated_' = allocated_ + 1 /\ live' = live \cup {slot} /\ stack' = Tail(st)
  BY DEF allocate, Returned
<1>2. /\ capacity_ \in Nat \ {0} /\ n \in Nat /\ cap \in Nat \ {0} /\ capacity_ <= cap
      /\ allocated_ \in 0 .. capacity_ /\ live \subseteq 1 .. capacity_
      /\ free_head_ \in 0 .. capacity_
      /\ cell \in [1 .. capacity_ -> (0 .. capacity_) \cup {LIVE}] /\ stack \in Seq(1 .. capacity_)
  BY ChunkSize DEF PoolInv, PoolTypeOK
<1>3. /\ Spells(cell, free_head_, stack, 1 .. capacity_ \ live)
      /\ Len(stack) = capacity_ - allocated_ /\ Len(stack) \in Nat
  BY <1>2 DEF PoolInv, FreeListIntact
<1>4. grown \in [1 .. cap -> R] /\ \A s \in 1 .. capacity_ : grown[s] = cell[s]
  <2>1. \A s \in 1 .. cap : s > capacity_ => (s = capacity_ + 1 \/ s - 1 \in 0 .. cap)
    BY <1>2
  <2> QED
    BY <1>2, <2>1 DEF Threaded
<1>5. /\ st \in Seq(1 .. cap) /\ Len(st) # 0 /\ Spells(grown, slot, st, F)
      /\ Len(st) = cap - allocated_
  <2>1. CASE free_head_ = 0
    <3>1. n = chunk_size_ /\ n \in Nat \ {0} /\ slot = capacity_ + n /\ st = Fresh(capacity_, n)
          /\ grown = Threaded(cell, 0, capacity_, n)
      BY <2>1, ChunkSize
    <3>2. Len(stack) = 0
      <4>1. Len(stack) # 0 => free_head_ \in 1 .. capacity_
        BY <1>3 DEF Spells
      <4> QED
        BY <4>1, <2>1
    <3>3. allocated_ = capacity_ /\ live = 1 .. capacity_
      <4>1. 1 .. capacity_ \ live = {}
        BY <3>2, <1>3 DEF Spells
      <4>2. live = 1 .. capacity_
        BY <4>1, <1>2
      <4>3. allocated_ = capacity_
        BY <3>2, <1>2, <1>3
      <4> QED
        BY <4>2, <4>3
    <3>4. F = capacity_ + 1 .. capacity_ + n
      BY <3>1, <3>3, <1>2
    <3> HIDE DEF n, grown, slot, st, F, cap
    <3>5. /\ Fresh(capacity_, n) \in Seq(1 .. capacity_ + n) /\ Len(Fresh(capacity_, n)) = n
          /\ Spells(Threaded(cell, 0, capacity_, n), capacity_ + n, Fresh(capacity_, n),
                    capacity_ + 1 .. capacity_ + n)
      BY <3>1, <1>2, FreshSpells
    <3> QED
      BY <3>1, <3>3, <3>4, <3>5, <1>2 DEF cap
  <2>2. CASE free_head_ # 0
    <3>1. n = 0 /\ cap = capacity_ /\ slot = free_head_ /\ st = stack
          /\ F = 1 .. capacity_ \ live
      BY <2>2, <1>2
    <3>2. Len(stack) # 0
      BY <2>2, <1>3 DEF Spells
    <3> HIDE DEF n, grown, slot, st, F, cap
    <3>3. Spells(grown, free_head_, stack, 1 .. capacity_ \ live)
      BY <1>3, <1>4 DEF Spells
    <3> QED
      BY <3>1, <3>2, <3>3, <1>2, <1>3
  <2> QED
    BY <2>1, <2>2
<1>6. F \in SUBSET (1 .. cap)
  OBVIOUS
<1> HIDE DEF n, cap, grown, slot, st, F, R
<1>7. /\ slot \in F /\ Tail(st) \in Seq(1 .. cap) /\ Len(Tail(st)) = Len(st) - 1
      /\ Spells([grown EXCEPT ![slot] = LIVE], grown[slot], Tail(st), F \ {slot})
  <2> DEFINE D == 1 .. cap
  <2>1. grown \in [D -> R] /\ F \in SUBSET D /\ st \in Seq(D)
    BY <1>4, <1>5, <1>6
  <2> HIDE DEF D
  <2>2. /\ slot \in F /\ Tail(st) \in Seq(D) /\ Len(Tail(st)) = Len(st) - 1
        /\ Spells([grown EXCEPT ![slot] = LIVE], grown[slot], Tail(st), F \ {slot})
    <3>1. Len(st) # 0 /\ Spells(grown, slot, st, F)
      BY <1>5
    <3>2. slot \in F
      BY <2>1, <3>1, PopSpells
    <3>3. Tail(st) \in Seq(D) /\ Len(Tail(st)) = Len(st) - 1
      BY <2>1, <3>1, PopSpells
    <3>4. Spells([grown EXCEPT ![slot] = LIVE], grown[slot], Tail(st), F \ {slot})
      BY <2>1, <3>1, PopSpells
    <3> QED
      BY <3>2, <3>3, <3>4
  <2> QED
    BY <2>2 DEF D
<1>8. slot \in 1 .. cap /\ slot \notin live /\ F \ {slot} = 1 .. cap \ (live \cup {slot})
  BY <1>7 DEF F
<1>9. FreeListIntact'
  <2>1. 1 .. capacity_' \ live' = F \ {slot}
    BY <1>1, <1>8
  <2>2. Spells(cell', free_head_', stack', 1 .. capacity_' \ live')
    BY <2>1, <1>1, <1>7, Zenon
  <2>3. Len(stack') = capacity_' - allocated_'
    BY <1>1, <1>2, <1>5, <1>7
  <2> QED
    BY <2>2, <2>3 DEF FreeListIntact
<1>10. PoolTypeOK'
  <2>1. grown[slot] \in 0 .. cap
    <3> DEFINE u == Tail(st)
           D == 1 .. cap
    <3>1. grown[slot] = (IF Len(u) = 0 THEN 0 ELSE u[1]) /\ u \in Seq(D)
      BY <1>7 DEF Spells
    <3>2. Len(u) # 0 => u[1] \in D
      <4> HIDE DEF u, D
      <4> QED
        BY <3>1
    <3>3. \A a \in D : a \in 0 .. cap
      BY <1>2
    <3>4. 0 \in 0 .. cap
      BY <1>2
    <3> HIDE DEF u, D
    <3> QED
      BY <3>1, <3>2, <3>3, <3>4
  <2>2. cell' \in [1 .. cap -> R]
    BY <1>1, <1>4 DEF R
  <2>3. allocated_ + 1 \in 0 .. cap
    BY <1>2, <1>5
  <2>4. live \cup {slot} \subseteq 1 .. cap
    BY <1>2, <1>8
  <2> QED
    BY <2>1, <2>2, <2>3, <2>4, <1>1, <1>2, <1>7 DEF PoolTypeOK, R
<1>11. HandedOutOnce'
  <2>1. IsFiniteSet(live) /\ Cardinality(live) = allocated_
    BY LiveFinite DEF PoolInv, HandedOutOnce
  <2>2. Cardinality(live \cup {slot}) = allocated_ + 1
    BY <2>1, <1>8, FS_AddElement
  <2>3. ASSUME NEW s \in live \cup {slot}
        PROVE  cell'[s] = LIVE
    <3>1. CASE s = slot
      BY <3>1, <1>1, <1>4, <1>8
    <3>2. CASE s # slot
      <4>1. s \in live /\ s \in 1 .. capacity_ /\ s \in 1 .. cap
        BY <3>2, <1>2
      <4>2. cell'[s] = grown[s] /\ grown[s] = cell[s]
        BY <3>2, <4>1, <1>1, <1>4
      <4> QED
        BY <4>1, <4>2 DEF PoolInv, HandedOutOnce
    <3> QED
      BY <3>1, <3>2
  <2> QED
    BY <2>2, <2>3, <1>1 DEF HandedOutOnce
<1> QED
  BY <1>9, <1>10, <1>11 DEF PoolInv

\* deallocate.
LEMMA DeallocateKeeps ==
    ASSUME PoolInv, NEW obj \in live, deallocate(obj)
    PROVE  PoolInv'
<1> DEFINE D == 1 .. capacity_
           R == (0 .. capacity_) \cup {LIVE}
           F == D \ live
<1>1. /\ capacity_' = capacity_ /\ free_head_' = obj /\ cell' = [cell EXCEPT ![obj] = free_head_]
      /\ allocated_' = allocated_ - 1 /\ live' = live \ {obj} /\ stack' = <<obj>> \o stack
  BY DEF deallocate
<1>2. /\ capacity_ \in Nat \ {0} /\ allocated_ \in 0 .. capacity_ /\ live \subseteq D
      /\ free_head_ \in 0 .. capacity_ /\ cell \in [D -> R] /\ stack \in Seq(D)
  BY DEF PoolInv, PoolTypeOK
<1>3. /\ obj \in D \ F /\ F \in SUBSET D /\ F \cup {obj} = D \ (live \ {obj})
      /\ obj \in 1 .. capacity_
  BY <1>2
<1>4. Spells(cell, free_head_, stack, F) /\ Len(stack) = capacity_ - allocated_
  BY DEF PoolInv, FreeListIntact
<1>5. IsFiniteSet(live) /\ Cardinality(live) = allocated_
  BY LiveFinite DEF PoolInv, HandedOutOnce
<1>6. IsFiniteSet(live \ {obj}) /\ Cardinality(live \ {obj}) = allocated_ - 1
  BY <1>5, FS_RemoveElement
<1>7. allocated_ - 1 \in 0 .. capacity_
  <2>1. Cardinality(live \ {obj}) \in Nat
    BY <1>6, FS_CardinalityType
  <2> QED
    BY <2>1, <1>2, <1>6
<1> HIDE DEF D, R, F
<1>8. /\ <<obj>> \o stack \in Seq(D) /\ Len(<<obj>> \o stack) = Len(stack) + 1
      /\ Spells([cell EXCEPT ![obj] = free_head_], obj, <<obj>> \o stack, F \cup {obj})
  BY <1>2, <1>3, <1>4, PushSpells
<1>9. FreeListIntact'
  <2>1. 1 .. capacity_' \ live' = F \cup {obj}
    BY <1>1, <1>3 DEF D
  <2>2. Spells(cell', free_head_', stack', 1 .. capacity_' \ live')
    BY <2>1, <1>1, <1>8, Zenon
  <2>3. Len(stack') = capacity_' - allocated_'
    BY <1>1, <1>2, <1>4, <1>8
  <2> QED
    BY <2>2, <2>3 DEF FreeListIntact
<1>10. PoolTypeOK'
  <2>1. cell' \in [D -> R]
    BY <1>1, <1>2 DEF R
  <2>2. live \ {obj} \subseteq 1 .. capacity_
    BY <1>2 DEF D
  <2>3. obj \in 0 .. capacity_
    BY <1>2, <1>3
  <2> QED
    BY <2>1, <2>2, <2>3, <1>1, <1>2, <1>7, <1>8 DEF PoolTypeOK, D, R
<1>11. HandedOutOnce'
  <2>1. \A s \in live \ {obj} : cell'[s] = LIVE
    BY <1>1, <1>2 DEF PoolInv, HandedOutOnce
  <2> QED
    BY <2>1, <1>1, <1>6 DEF HandedOutOnce
<1> QED
  BY <1>9, <1>10, <1>11 DEF PoolInv

-----------------------------------------------------------------------------
(* The theorems.                                                           *)

\* Every operation of the pool keeps its invariant.
LEMMA PoolNextInv ==
    ASSUME PoolInv, [PoolNext]_poolVars
    PROVE  PoolInv'
<1>1. CASE allocate
  BY <1>1, AllocateKeeps
<1>2. ASSUME NEW obj \in live, deallocate(obj)
      PROVE  PoolInv'
  BY <1>2, DeallocateKeeps
<1>3. CASE UNCHANGED poolVars
  BY <1>3 DEF poolVars, PoolInv, PoolTypeOK, FreeListIntact, HandedOutOnce
<1> QED
  BY <1>1, <1>2, <1>3 DEF PoolNext

\* Types, free list and handed out slots together are an inductive invariant.
THEOREM PoolInvariant == PoolSpec => []PoolInv
<1>1. PoolInv /\ [PoolNext]_poolVars => PoolInv'
  BY PoolNextInv
<1> QED
  BY PoolInitInv, <1>1, PTL DEF PoolSpec

\* object_pool.hpp: the counters and pointers keep their types; a free list pointer never
\* leaves the chunks.
THEOREM PoolTypeCorrect == PoolSpec => []PoolTypeOK
<1>1. PoolInv => PoolTypeOK
  BY DEF PoolInv
<1> QED
  BY <1>1, PoolInvariant, PTL

\* object_pool.hpp: the intrusive free list has every free slot once.
THEOREM FreeListAlwaysIntact == PoolSpec => []FreeListIntact
<1>1. PoolInv => FreeListIntact
  BY DEF PoolInv
<1> QED
  BY <1>1, PoolInvariant, PTL

\* object_pool.hpp: allocate never returns a slot that is in use.
THEOREM NeverHandedOutTwice == PoolSpec => []HandedOutOnce
<1>1. PoolInv => HandedOutOnce
  BY DEF PoolInv
<1> QED
  BY <1>1, PoolInvariant, PTL

-----------------------------------------------------------------------------
(* The pool and the levels together.                                       *)

StorageInv == LevelInv /\ PoolInv /\ RestingIsLive

\* The slot that allocate hands out is one the levels can name and holds no object.
LEMMA ReturnedIsFree ==
    ASSUME PoolInv, allocate
    PROVE  Returned \in 1 .. MaxCapacity /\ Returned \notin live
<1>1. /\ capacity_ \in Nat \ {0} /\ live \subseteq 1 .. capacity_ /\ free_head_ \in 0 .. capacity_
      /\ stack \in Seq(1 .. capacity_) /\ Len(stack) \in Nat
  BY DEF PoolInv, PoolTypeOK
<1>2. chunk_size_ \in Nat \ {0} /\ MaxCapacity \in Nat
  BY ChunkSize, PoolAssumption
<1>3. CASE free_head_ = 0
  <2>1. Returned = capacity_ + chunk_size_ /\ capacity_ + chunk_size_ <= MaxCapacity
    BY <1>3 DEF Returned, allocate
  <2> QED
    BY <2>1, <1>1, <1>2
<1>4. CASE free_head_ # 0
  <2>1. Returned = free_head_ /\ capacity_ + 0 <= MaxCapacity
    BY <1>4 DEF Returned, allocate
  <2>2. free_head_ \in 1 .. MaxCapacity
    BY <2>1, <1>1, <1>2, <1>4
  <2>3. free_head_ = IF Len(stack) = 0 THEN 0 ELSE stack[1]
    BY DEF PoolInv, FreeListIntact, Spells
  <2>4. Len(stack) # 0 /\ free_head_ = stack[1] /\ 1 \in 1 .. Len(stack)
    BY <2>3, <1>1, <1>4
  <2>5. stack[1] \in 1 .. capacity_ \ live
    BY <2>4 DEF PoolInv, FreeListIntact, Spells
  <2> QED
    BY <2>1, <2>2, <2>4, <2>5
<1> QED
  BY <1>3, <1>4

\* addOrder: to the level the slot is an order that rests nowhere.
LEMMA RestSteps ==
    ASSUME StorageInv, NEW l \in Levels, NEW q \in Quantities, Rest(l, q)
    PROVE  LevelNext /\ PoolNext /\ RestingIsLive'
<1> DEFINE r == Returned
<1>1. allocate /\ addOrder(l, r, q)
  BY DEF Rest
<1>2. r \in Orders /\ r \notin live
  BY <1>1, ReturnedIsFree, StorageAssumption DEF StorageInv
<1>3. at[r] = NULL /\ at \in [Orders -> Levels \cup {NULL}] /\ l # NULL
  BY <1>2, LevelAssumption DEF StorageInv, RestingIsLive, LevelInv, ListInv, LevelTypeOK
<1>4. live' = live \cup {r} /\ at' = [at EXCEPT ![r] = l]
  BY <1>1 DEF allocate, addOrder
<1>5. live = {o \in Orders : at[o] # NULL}
  BY DEF StorageInv, RestingIsLive
<1> HIDE DEF r
<1>6. RestingIsLive'
  BY <1>2, <1>3, <1>4, <1>5 DEF RestingIsLive
<1> QED
  BY <1>1, <1>2, <1>3, <1>6 DEF LevelNext, PoolNext

\* cancelOrder: what it unlinks is an object of the pool that was not returned before.
LEMMA RemoveSteps ==
    ASSUME StorageInv, NEW o \in Orders, Remove(o)
    PROVE  LevelNext /\ PoolNext /\ RestingIsLive'
<1>1. removeOrder(o) /\ deallocate(o) /\ o \in live
  BY DEF Remove, deallocate
<1>2. live' = live \ {o} /\ at' = [at EXCEPT ![o] = NULL]
  BY <1>1 DEF deallocate, removeOrder, Leaves
<1>3. live = {p \in Orders : at[p] # NULL} /\ at \in [Orders -> Levels \cup {NULL}]
  BY DEF StorageInv, RestingIsLive, LevelInv, ListInv, LevelTypeOK
<1>4. RestingIsLive'
  BY <1>2, <1>3 DEF RestingIsLive
<1> QED
  BY <1>1, <1>4 DEF LevelNext, PoolNext

\* executeMarketOrder and modifyOrder: no order enters or leaves a level.
LEMMA QuantitySteps ==
    ASSUME StorageInv, NEW l \in Levels, NEW o \in Orders, NEW q \in Quantities,
           FillHead(l, q) \/ Resize(o, q)
    PROVE  LevelNext /\ UNCHANGED poolVars /\ RestingIsLive'
<1>1. LevelNext /\ UNCHANGED poolVars
  BY DEF FillHead, Resize, LevelNext
<1>2. at' = at
  <2>1. CASE FillHead(l, q)
    <3>1. head_[l] \in Orders
      BY <2>1 DEF FillHead, isEmpty, StorageInv, LevelInv, ListInv, LevelTypeOK
    <3>2. quantity[head_[l]] \in Nat /\ q \in Nat /\ q < quantity[head_[l]]
      BY <2>1, <3>1, LevelAssumption
         DEF FillHead, getHead, StorageInv, LevelInv, ListInv, LevelTypeOK
    <3>3. quantity[head_[l]] # q
      BY <3>2
    <3> QED
      BY <2>1, <3>3 DEF FillHead, reduceHeadQuantity, getHead
  <2>2. CASE Resize(o, q)
    BY <2>2 DEF Resize, adjustTotalQuantity
  <2> QED
    BY <2>1, <2>2
<1>3. live' = live
  BY <1>1 DEF poolVars
<1> QED
  BY <1>1, <1>2, <1>3 DEF StorageInv, RestingIsLive

\* Each method of the book makes a step of the levels and one of the pool, or leaves the
\* pool alone.
LEMMA StorageSteps ==
    ASSUME StorageInv, [StorageNext]_storageVars
    PROVE  [LevelNext]_listVars /\ [PoolNext]_poolVars /\ RestingIsLive'
<1>1. ASSUME NEW l \in Levels, NEW q \in Quantities, Rest(l, q)
      PROVE  LevelNext /\ PoolNext /\ RestingIsLive'
  BY <1>1, RestSteps
<1>2. ASSUME NEW l \in Levels, NEW q \in Quantities, FillHead(l, q)
      PROVE  LevelNext /\ UNCHANGED poolVars /\ RestingIsLive'
  <2>1. head_[l] \in Orders
    BY <1>2 DEF FillHead, isEmpty, StorageInv, LevelInv, ListInv, LevelTypeOK
  <2> QED
    BY <1>2, <2>1, QuantitySteps
<1>3. ASSUME NEW o \in Orders, Remove(o)
      PROVE  LevelNext /\ PoolNext /\ RestingIsLive'
  BY <1>3, RemoveSteps
<1>4. ASSUME NEW o \in Orders, NEW q \in Quantities, Resize(o, q)
      PROVE  LevelNext /\ UNCHANGED poolVars /\ RestingIsLive'
  <2>1. at[o] \in Levels
    BY <1>4 DEF Resize, adjustTotalQuantity, StorageInv, LevelInv, ListInv, LevelTypeOK
  <2> QED
    BY <1>4, <2>1, QuantitySteps
<1>5. CASE UNCHANGED storageVars
  <2>1. UNCHANGED listVars /\ UNCHANGED poolVars
    BY <1>5 DEF storageVars
  <2>2. UNCHANGED <<at, live>>
    BY <2>1 DEF listVars, poolVars
  <2>3. RestingIsLive'
    BY <2>2 DEF StorageInv, RestingIsLive
  <2> QED
    BY <2>1, <2>3
<1>6. \/ \E l \in Levels, q \in Quantities : Rest(l, q)
      \/ \E l \in Levels, q \in Quantities : FillHead(l, q)
      \/ \E o \in Orders : Remove(o)
      \/ \E o \in Orders, q \in Quantities : Resize(o, q)
      \/ UNCHANGED storageVars
  BY DEF StorageNext
<1> QED
  BY <1>1, <1>2, <1>3, <1>4, <1>5, <1>6

\* The invariants of the parts and the one that ties them are one of the whole.
THEOREM StorageInvariant == StorageSpec => []StorageInv
<1>1. StorageInit => StorageInv
  <2> SUFFICES ASSUME StorageInit
               PROVE  StorageInv
    OBVIOUS
  <2>1. LevelInv /\ PoolInv
    BY LevelInitInv, PoolInitInv DEF StorageInit
  <2>2. RestingIsLive
    BY DEF StorageInit, LevelInit, PoolInit, RestingIsLive
  <2> QED
    BY <2>1, <2>2 DEF StorageInv
<1>2. StorageInv /\ [StorageNext]_storageVars => StorageInv'
  <2> SUFFICES ASSUME StorageInv, [StorageNext]_storageVars
               PROVE  StorageInv'
    OBVIOUS
  <2>1. [LevelNext]_listVars /\ [PoolNext]_poolVars /\ RestingIsLive' /\ LevelInv /\ PoolInv
    BY StorageSteps DEF StorageInv
  <2>2. LevelInv'
    BY <2>1, LevelNextInv
  <2>3. PoolInv'
    BY <2>1, PoolNextInv
  <2> QED
    BY <2>1, <2>2, <2>3 DEF StorageInv
<1> QED
  BY <1>1, <1>2, PTL DEF StorageSpec

\* orderbook.cpp: the slots of the pool that hold an object are exactly the orders that
\* rest in a level, after any sequence of calls.
THEOREM RestingAlwaysLive == StorageSpec => []RestingIsLive
<1>1. StorageInv => RestingIsLive
  BY DEF StorageInv
<1> QED
  BY <1>1, StorageInvariant, PTL

\* orderbook.cpp uses each part as the part expects: never links an order that is linked,
\* never returns a slot twice.  Seen from the levels, the book is one of the
\* clients LevelSpec allows, and seen from the pool, one of those PoolSpec allows.
THEOREM StorageUsesParts == StorageSpec => LevelSpec /\ PoolSpec
<1>1. StorageInit => LevelInit /\ PoolInit
  BY DEF StorageInit
<1>2. StorageInv /\ [StorageNext]_storageVars => [LevelNext]_listVars /\ [PoolNext]_poolVars
  BY StorageSteps
<1> QED
  BY <1>1, <1>2, StorageInvariant, PTL DEF StorageSpec, LevelSpec, PoolSpec

\* The lists, the totals and the free list are intact in the whole as they are in the
\* parts: no slot the pool hands out or takes back corrupts a level's list.
THEOREM StorageIntact ==
    StorageSpec => [](LevelTypeOK /\ ListIntact /\ TotalsExact /\ FreeListIntact /\ HandedOutOnce)
<1>1. StorageInv => LevelTypeOK /\ ListIntact /\ TotalsExact /\ FreeListIntact /\ HandedOutOnce
  BY DEF StorageInv, LevelInv, ListInv, PoolInv
<1> QED
  BY <1>1, StorageInvariant, PTL
=============================================================================
