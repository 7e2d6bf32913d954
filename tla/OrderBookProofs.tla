--------------------------- MODULE OrderBookProofs ---------------------------
(***************************************************************************)
(* Proofs about OrderBook for every ladder, pool, set of ids, prices and   *)
(* quantities: the invariant of the levels, the index and the pool, and    *)
(* from it what the matching engine does with quantities and priorities.   *)
(* The counters are exact, no quantity is created or lost in a sweep, a    *)
(* sweep stops only when it is filled or nothing crosses, and the engine   *)
(* implements price-time priority.  All of it rests on what the three ways *)
(* to change the book do: an order enters, an order leaves, an order       *)
(* changes its quantity.                                                   *)
(***************************************************************************)
EXTENDS OrderBookRefinement, NumberLemmas, SequenceTheorems, TLAPS

-----------------------------------------------------------------------------
(* The FIFO of a level as a list without repetitions.                      *)

\* A list is empty exactly when it has no members.
LEMMA EmptyList ==
    ASSUME NEW S, NEW list \in Seq(S)
    PROVE  list = <<>> <=> Range(list) = {}
  <1>1. Len(list) \in Nat /\ DOMAIN list = 1 .. Len(list)
    BY LenProperties
  <1>2. list = <<>> => Range(list) = {}
    BY DEF Range
  <1>3. ASSUME list # <<>> PROVE Range(list) # {}
    <2>1. Len(list) \in Nat \ {0}
      BY <1>3, EmptySeq
    <2>2. 1 \in DOMAIN list
      BY <1>1, <2>1
    <2>3. list[1] \in Range(list)
      BY <2>2 DEF Range
    <2>4. QED
      BY <2>3
  <1>4. QED
    BY <1>2, <1>3

\* PriceLevel::addOrder: the new order is the only new member.
LEMMA AppendList ==
    ASSUME NEW S, NEW list \in Seq(S), NEW o \in S
    PROVE  /\ Append(list, o) \in Seq(S) /\ Append(list, o) # <<>>
           /\ Range(Append(list, o)) = Range(list) \cup {o}
           /\ IsInjective(list) /\ o \notin Range(list) => IsInjective(Append(list, o))
  <1> DEFINE n == Len(list)
             app == Append(list, o)
  <1>1. n \in Nat /\ DOMAIN list = 1 .. n
    BY LenProperties
  <1>2. /\ app \in Seq(S) /\ app # <<>> /\ Len(app) = n + 1
        /\ \A i \in 1 .. n : app[i] = list[i]
        /\ app[n + 1] = o
    BY AppendProperties
  <1>3. DOMAIN app = 1 .. n + 1
    BY <1>2, LenProperties
  <1> HIDE DEF n, app
  <1>4. \A i \in DOMAIN app : i \in 1 .. n \/ i = n + 1
    BY <1>1, <1>3
  <1>5. 1 .. n \subseteq DOMAIN app /\ n + 1 \in DOMAIN app
    BY <1>1, <1>3
  <1>6. Range(app) = Range(list) \cup {o}
    BY <1>1, <1>2, <1>4, <1>5 DEF Range
  <1>7. ASSUME IsInjective(list), o \notin Range(list) PROVE IsInjective(app)
    <2> SUFFICES ASSUME NEW a \in DOMAIN app, NEW b \in DOMAIN app, app[a] = app[b] PROVE a = b
      BY DEF IsInjective
    <2>1. \A i \in 1 .. n : list[i] # o
      BY <1>1, <1>7 DEF Range
    <2>2. QED
      BY <1>1, <1>2, <1>4, <1>7, <2>1 DEF IsInjective
  <1>8. QED
    BY <1>2, <1>6, <1>7 DEF app

\* RemoveAt keeps what is before the place and moves up what is behind it.
LEMMA RemoveAtIs ==
    ASSUME NEW S, NEW list \in Seq(S), NEW k \in 1 .. Len(list)
    PROVE  RemoveAt(list, k) =
             [j \in 1 .. Len(list) - 1 |-> IF j < k THEN list[j] ELSE list[j + 1]]
  <1> DEFINE n == Len(list)
             cut == [j \in 1 .. n - 1 |-> IF j < k THEN list[j] ELSE list[j + 1]]
  <1>0. n \in Nat /\ DOMAIN list = 1 .. n /\ list \in [1 .. n -> S] /\ k \in 1 .. n
    BY LenProperties
  <1> DEFINE s1 == SubSeq(list, 1, k - 1)
             s2 == SubSeq(list, k + 1, n)
  <1> HIDE DEF n
  <1>1. /\ s1 \in Seq(S) /\ Len(s1) = k - 1
        /\ \A i \in 1 .. k - 1 : s1[i] = list[i]
    <2>1. \A i \in 1 .. k - 1 : list[i] \in S
      BY <1>0
    <2>2. QED
      BY <1>0, <2>1, SubSeqProperties
  <1>2. /\ s2 \in Seq(S) /\ Len(s2) = n - k
        /\ \A i \in 1 .. n - k : s2[i] = list[k + i]
    <2>1. \A i \in (k + 1) .. n : list[i] \in S
      BY <1>0
    <2>2. /\ s2 \in Seq(S) /\ Len(s2) = IF k + 1 <= n THEN n - (k + 1) + 1 ELSE 0
          /\ \A i \in 1 .. n - (k + 1) + 1 : s2[i] = list[(k + 1) + i - 1]
      BY <1>0, <2>1, SubSeqProperties
    <2>3. n - (k + 1) + 1 = n - k /\ \A i \in Int : (k + 1) + i - 1 = k + i
      BY <1>0
    <2>4. QED
      BY <1>0, <2>2, <2>3
  <1> HIDE DEF s1, s2
  <1>3. /\ s1 \o s2 \in Seq(S) /\ Len(s1 \o s2) = n - 1
        /\ \A i \in 1 .. n - 1 : (s1 \o s2)[i] = IF i <= k - 1 THEN s1[i] ELSE s2[i - (k - 1)]
    <2>1. /\ s1 \o s2 \in Seq(S) /\ Len(s1 \o s2) = Len(s1) + Len(s2)
          /\ \A i \in 1 .. Len(s1) + Len(s2) : (s1 \o s2)[i] =
                 IF i <= Len(s1) THEN s1[i] ELSE s2[i - Len(s1)]
      BY <1>1, <1>2, ConcatProperties
    <2>2. Len(s1) + Len(s2) = n - 1
      BY <1>0, <1>1, <1>2
    <2>3. QED
      BY <1>1, <2>1, <2>2
  <1>4. ASSUME NEW i \in 1 .. n - 1 PROVE (s1 \o s2)[i] = cut[i]
    <2>1. CASE i < k
      <3>1. i \in 1 .. k - 1 /\ i <= k - 1
        BY <1>0, <2>1
      <3>2. QED
        BY <1>1, <1>3, <2>1, <3>1
    <2>2. CASE ~(i < k)
      <3>1. i - (k - 1) \in 1 .. n - k /\ ~(i <= k - 1) /\ k + (i - (k - 1)) = i + 1
        BY <1>0, <2>2
      <3>2. QED
        BY <1>2, <1>3, <2>2, <3>1
    <2>3. QED
      BY <2>1, <2>2
  <1>5. s1 \o s2 = [i \in 1 .. n - 1 |-> (s1 \o s2)[i]]
    BY <1>3, LenProperties
  <1>6. s1 \o s2 = cut
    BY <1>4, <1>5
  <1>7. QED
    BY <1>6 DEF RemoveAt, s1, s2, n

\* PriceLevel::removeOrder: the order is the only member that leaves.
LEMMA UnlinkList ==
    ASSUME NEW S, NEW list \in Seq(S), IsInjective(list), NEW o \in Range(list)
    PROVE  /\ unlink(list, o) \in Seq(S)
           /\ Range(unlink(list, o)) = Range(list) \ {o}
           /\ IsInjective(unlink(list, o))
  <1> DEFINE n == Len(list)
             k == CHOOSE j \in DOMAIN list : list[j] = o
             cut == [j \in 1 .. n - 1 |-> IF j < k THEN list[j] ELSE list[j + 1]]
  <1>1. n \in Nat /\ DOMAIN list = 1 .. n /\ list \in [1 .. n -> S]
    BY LenProperties
  <1>2. k \in 1 .. n /\ list[k] = o
    BY <1>1 DEF Range
  <1>3. unlink(list, o) = cut
    BY <1>1, <1>2, RemoveAtIs DEF unlink
  <1> HIDE DEF n, k
  <1>4. cut \in Seq(S) /\ DOMAIN cut = 1 .. n - 1
    BY <1>1, <1>2
  <1>5. Range(cut) \subseteq Range(list) \ {o}
    <2> SUFFICES ASSUME NEW j \in 1 .. n - 1 PROVE cut[j] \in Range(list) /\ cut[j] # o
      BY <1>4 DEF Range
    <2>1. j \in 1 .. n /\ j + 1 \in 1 .. n /\ (j < k => j # k) /\ (~(j < k) => j + 1 # k)
      BY <1>1, <1>2
    <2>2. QED
      BY <1>1, <1>2, <2>1 DEF Range, IsInjective
  <1>6. Range(list) \ {o} \subseteq Range(cut)
    <2> SUFFICES ASSUME NEW j \in 1 .. n, list[j] # o PROVE list[j] \in Range(cut)
      BY <1>1 DEF Range
    <2>1. CASE j < k
      <3>1. j \in 1 .. n - 1 /\ cut[j] = list[j]
        BY <1>1, <1>2, <2>1
      <3>2. QED
        BY <1>4, <3>1 DEF Range
    <2>2. CASE j > k
      <3>1. j - 1 \in 1 .. n - 1 /\ cut[j - 1] = list[j]
        BY <1>1, <1>2, <2>2
      <3>2. QED
        BY <1>4, <3>1 DEF Range
    <2>3. QED
      BY <1>1, <1>2, <2>1, <2>2
  <1>7. IsInjective(cut)
    <2> SUFFICES ASSUME NEW a \in 1 .. n - 1, NEW b \in 1 .. n - 1, cut[a] = cut[b] PROVE a = b
      BY <1>4 DEF IsInjective
    <2>1. /\ a \in 1 .. n /\ a + 1 \in 1 .. n /\ b \in 1 .. n /\ b + 1 \in 1 .. n
      BY <1>1
    <2>2. QED
      BY <1>1, <1>2, <2>1 DEF IsInjective
  <1>8. QED
    BY <1>3, <1>4, <1>5, <1>6, <1>7

-----------------------------------------------------------------------------
(* The search of the bitmap.                                               *)

\* Every non-empty set of ladder indices has a lowest and a highest member.
LEMMA Extremes ==
    ASSUME NEW w \in SUBSET Index, w # {}
    PROVE  /\ \E i \in w : \A j \in w : i <= j
           /\ \E i \in w : \A j \in w : i >= j
  <1> DEFINE R == OpToRel(<, Nat)
             top == MaxPrice - MinPrice
             mirror == {top - i : i \in w}
  <1>1. \A T \in SUBSET Nat : T # {} => \E x \in T : \A y \in T : ~(<<y, x>> \in R)
    BY NatLessThanWellFounded, WFMin
  <1>2. \A x \in Nat, y \in Nat : <<y, x>> \in R <=> y < x
    BY DEF OpToRel
  <1> HIDE DEF R
  <1>3. ASSUME NEW T \in SUBSET Nat, T # {} PROVE \E x \in T : \A y \in T : x <= y
    <2>1. PICK x \in T : \A y \in T : ~(<<y, x>> \in R)
      BY <1>1, <1>3
    <2>2. \A y \in T : ~(y < x)
      BY <1>2, <2>1
    <2>3. QED
      BY <2>2
  <1>4. top \in Nat /\ w \subseteq Nat /\ \A i \in w : i \in Nat /\ i <= top
    BY LadderAssumption DEF Index
  <1> HIDE DEF top
  <1>5. mirror \subseteq Nat /\ mirror # {}
    <2>1. \A i \in w : top - i \in Nat
      BY <1>4
    <2>2. PICK i \in w : TRUE
      OBVIOUS
    <2>3. top - i \in mirror
      BY <2>2
    <2>4. QED
      BY <2>1, <2>3
  <1>6. PICK x \in mirror : \A y \in mirror : x <= y
    BY <1>3, <1>5
  <1>7. PICK i \in w : x = top - i
    OBVIOUS
  <1>8. \A j \in w : i >= j
    BY <1>4, <1>6, <1>7
  <1>9. QED
    BY <1>3, <1>4, <1>8

\* highestSetBit / lowestSetBit return the set bit nearest the touch, -1 when no
\* bit is set.
LEMMA BestSetBit ==
    ASSUME NEW side \in Side, NEW w \in SUBSET Index
    PROVE  /\ w = {} => bestSetBit(side, w) = -1
           /\ w # {} => /\ bestSetBit(side, w) \in w
                         /\ \A j \in w \ {bestSetBit(side, w)} : Better(side, bestSetBit(side, w), j)
  <1>1. CASE w = {}
    BY <1>1 DEF bestSetBit
  <1>2. CASE w # {}
    <2>1. w \subseteq Int
      BY LadderAssumption DEF Index
    <2>2. \E i \in w : \A j \in w \ {i} : Better(side, i, j)
      BY <1>2, <2>1, Extremes DEF Better
    <2>3. bestSetBit(side, w) = CHOOSE i \in w : \A j \in w \ {i} : Better(side, i, j)
      BY <1>2 DEF bestSetBit
    <2>4. QED
      BY <1>2, <2>2, <2>3
  <1>3. QED
    BY <1>1, <1>2

\* addOrder's update of the cached best keeps it the best.
LEMMA TouchAfterAdd ==
    ASSUME NEW side \in Side, NEW w \in SUBSET Index, NEW b \in Index \cup {-1},
           NEW idx \in Index, IsTouch(side, b, w)
    PROVE  IsTouch(side, IF b < 0 \/ Better(side, idx, b) THEN idx ELSE b, w \cup {idx})
  <1>1. w \subseteq Int /\ idx \in Int /\ idx >= 0 /\ \A i \in w : i >= 0
    BY LadderAssumption DEF Index
  <1>2. CASE b = -1
    BY <1>1, <1>2 DEF IsTouch
  <1>3. CASE b # -1
    <2>1. b \in w /\ b >= 0 /\ b \in Int
      BY <1>1, <1>3 DEF IsTouch
    <2>2. CASE Better(side, idx, b)
      BY <1>1, <2>1, <2>2 DEF IsTouch, Better
    <2>3. CASE ~Better(side, idx, b)
      BY <1>1, <1>3, <2>1, <2>3 DEF IsTouch, Better
    <2>4. QED
      BY <2>2, <2>3
  <1>4. QED
    BY <1>2, <1>3

\* cancelOrder's update of the cached best keeps it the best.
LEMMA TouchAfterRemove ==
    ASSUME NEW side \in Side, NEW w \in SUBSET Index, NEW b \in Index \cup {-1},
           NEW idx \in w, IsTouch(side, b, w)
    PROVE  IsTouch(side, IF idx = b THEN bestSetBit(side, w \ {idx}) ELSE b, w \ {idx})
  <1>1. w \subseteq Int /\ \A i \in w : i >= 0
    BY LadderAssumption DEF Index
  <1>2. b \in w /\ b >= 0
    BY <1>1 DEF IsTouch
  <1>3. CASE idx = b
    <2> DEFINE u == w \ {idx}
               c == bestSetBit(side, u)
    <2>1. /\ u = {} => c = -1
          /\ u # {} => c \in u /\ \A j \in u \ {c} : Better(side, c, j)
      BY BestSetBit
    <2>2. \A i \in u : i # -1
      BY <1>1
    <2> HIDE DEF u, c
    <2>3. IsTouch(side, c, u)
      BY <2>1, <2>2 DEF IsTouch
    <2>4. QED
      BY <1>3, <2>3 DEF u, c
  <1>4. CASE idx # b
    BY <1>1, <1>2, <1>4 DEF IsTouch
  <1>5. QED
    BY <1>3, <1>4

-----------------------------------------------------------------------------
(* The book between two operations, and in the middle of a sweep.          *)

BookOK == BookTypeOK /\ IndexesAgree /\ BestIsBest

\* Ladder indices and prices correspond.
LEMMA LadderIndex ==
    ASSUME NEW p \in MinPrice .. MaxPrice
    PROVE  priceToIndex(p) \in Index
  BY LadderAssumption DEF priceToIndex, Index

\* A step that leaves the book alone leaves it consistent.
LEMMA UnchangedBook ==
    ASSUME BookOK, UNCHANGED bookVars
    PROVE  BookOK'
  <1>1. BookTypeOK'
    BY DEF BookOK, BookTypeOK, bookVars
  <1>2. Live' = Live /\ \A s \in Side : Occupied(s)' = Occupied(s)
    BY DEF Live, Occupied, bookVars
  <1>3. IndexesAgree'
    BY <1>2 DEF BookOK, IndexesAgree, bookVars
  <1>4. BestIsBest'
    BY <1>2 DEF BookOK, BestIsBest, bookVars
  <1>5. QED
    BY <1>1, <1>3, <1>4 DEF BookOK

\* addOrder under an id that no resting order has keeps the book consistent.
LEMMA AddKeepsBook ==
    ASSUME BookOK, NEW side \in Side, NEW price \in Int, NEW quantity \in Nat,
           NEW id \in OrderIds, orders_[id] = NULL, addOrder(side, price, quantity, id)
    PROVE  BookOK'
  <1>1. CASE UNCHANGED bookVars
    BY <1>1, UnchangedBook
  <1>2. CASE ~UNCHANGED bookVars
    <2>1. inRange(price)
      BY <1>2 DEF addOrder
    <2> DEFINE idx == priceToIndex(price)
               rec == [id |-> id, side |-> side, price |-> price, quantity |-> quantity]
               list == levels_[side][idx]
    <2>2. PICK o \in FreeSlots :
            /\ pool_' = [pool_ EXCEPT ![o] = rec]
            /\ orders_' = [orders_ EXCEPT ![id] = o]
            /\ levels_' = [levels_ EXCEPT ![side][idx] = Append(@, o)]
            /\ total_quantity_' = [total_quantity_ EXCEPT ![side][idx] = @ + quantity]
            /\ IF isEmpty(side, idx)
               THEN /\ words_' = [words_ EXCEPT ![side] = @ \cup {idx}]
                    /\ count_' = [count_ EXCEPT ![side] = @ + 1]
                    /\ best_idx_' = [best_idx_ EXCEPT ![side] = bestAfterAdd(side, idx)]
               ELSE UNCHANGED <<words_, count_, best_idx_>>
            /\ total_orders_' = total_orders_ + 1
      BY <1>2 DEF addOrder
    <2>3. idx \in Index /\ rec \in Order /\ rec # NULL
      <3>1. price \in MinPrice .. MaxPrice
        BY <2>1, LadderAssumption DEF inRange
      <3>2. rec \in Order
        BY <3>1 DEF Order
      <3>3. QED
        BY <3>1, <3>2, LadderIndex, PoolAssumption
    <2>4. /\ o \in Slots /\ pool_[o] = NULL /\ o # NULL /\ o \notin Live
          /\ list \in Seq(Slots)
      BY <2>3, PoolAssumption DEF FreeSlots, Live, BookOK, BookTypeOK
    <2> HIDE DEF rec
    <2>5. /\ Live' = Live \cup {o} /\ pool_'[o] = rec
          /\ \A x \in Live : pool_'[x] = pool_[x]
      BY <2>2, <2>3, <2>4 DEF Live, BookOK, BookTypeOK
    <2>6. o \notin Range(list) /\ IsInjective(list)
      BY <2>3, <2>4 DEF BookOK, IndexesAgree
    <2>7. /\ Append(list, o) \in Seq(Slots) /\ Append(list, o) # <<>>
          /\ Range(Append(list, o)) = Range(list) \cup {o}
          /\ IsInjective(Append(list, o))
      BY <2>4, <2>6, AppendList
    <2>8. \A s \in Side, i \in Index :
             levels_'[s][i] = IF s = side /\ i = idx THEN Append(list, o) ELSE levels_[s][i]
      BY <2>2, <2>3 DEF BookOK, BookTypeOK
    <2>9. BookTypeOK'
      <3>1. bestAfterAdd(side, idx) \in Index \cup {-1}
        BY <2>3 DEF bestAfterAdd, BookOK, BookTypeOK
      <3>2. levels_' \in [Side -> [Index -> Seq(Slots)]]
        BY <2>2, <2>3, <2>7 DEF BookOK, BookTypeOK
      <3>3. /\ pool_' \in [Slots -> Order \cup {NULL}]
            /\ orders_' \in [OrderIds -> Slots \cup {NULL}]
            /\ total_orders_' \in Int
        BY <2>2, <2>3, <2>4 DEF BookOK, BookTypeOK
      <3>4. total_quantity_' \in [Side -> [Index -> Int]]
        BY <2>2, <2>3 DEF BookOK, BookTypeOK
      <3>5. /\ words_' \in [Side -> SUBSET Index]
            /\ best_idx_' \in [Side -> Index \cup {-1}]
            /\ count_' \in [Side -> Int]
        <4>1. CASE isEmpty(side, idx)
          <5>1. words_[side] \cup {idx} \in SUBSET Index
            BY <2>3 DEF BookOK, BookTypeOK
          <5>2. words_' \in [Side -> SUBSET Index]
            BY <2>2, <4>1, <5>1 DEF BookOK, BookTypeOK
          <5>3. best_idx_' \in [Side -> Index \cup {-1}]
            BY <2>2, <3>1, <4>1 DEF BookOK, BookTypeOK
          <5>4. count_' \in [Side -> Int]
            BY <2>2, <4>1 DEF BookOK, BookTypeOK
          <5>5. QED
            BY <5>2, <5>3, <5>4
        <4>2. CASE ~isEmpty(side, idx)
          BY <2>2, <4>2 DEF BookOK, BookTypeOK
        <4>3. QED
          BY <4>1, <4>2
      <3>6. QED
        BY <3>2, <3>3, <3>4, <3>5 DEF BookTypeOK
    <2>10. IndexesAgree'
      <3>1. ASSUME NEW d \in OrderIds, orders_'[d] # NULL
            PROVE  orders_'[d] \in Live' /\ pool_'[orders_'[d]].id = d
        <4>1. CASE d = id
          BY <2>2, <2>5, <4>1 DEF BookOK, BookTypeOK, rec
        <4>2. CASE d # id
          <5>1. orders_'[d] = orders_[d]
            BY <2>2, <4>2 DEF BookOK, BookTypeOK
          <5>2. orders_[d] \in Live /\ pool_[orders_[d]].id = d
            BY <3>1, <5>1 DEF BookOK, IndexesAgree
          <5>3. QED
            BY <2>5, <5>1, <5>2
        <4>3. QED
          BY <4>1, <4>2
      <3>2. ASSUME NEW x \in Live' PROVE orders_'[pool_'[x].id] = x
        <4>1. CASE x = o
          BY <2>2, <2>5, <4>1 DEF BookOK, BookTypeOK, rec
        <4>2. CASE x # o
          <5>1. x \in Live /\ pool_'[x] = pool_[x]
            BY <2>5, <3>2, <4>2
          <5>2. orders_[pool_[x].id] = x /\ x # NULL /\ pool_[x].id \in OrderIds
            BY <5>1, PoolAssumption DEF BookOK, BookTypeOK, IndexesAgree, Live, Order
          <5>3. pool_[x].id # id
            BY <5>2
          <5>4. QED
            BY <2>2, <5>1, <5>2, <5>3 DEF BookOK, BookTypeOK
        <4>3. QED
          BY <4>1, <4>2
      <3>3. ASSUME NEW s \in Side, NEW i \in Index
            PROVE  /\ Range(levels_'[s][i]) =
                         {x \in Live' : pool_'[x].side = s /\ priceToIndex(pool_'[x].price) = i}
                   /\ IsInjective(levels_'[s][i])
        <4>1. /\ Range(levels_[s][i]) =
                    {x \in Live : pool_[x].side = s /\ priceToIndex(pool_[x].price) = i}
              /\ IsInjective(levels_[s][i])
          BY DEF BookOK, IndexesAgree
        <4>2. pool_'[o].side = side /\ priceToIndex(pool_'[o].price) = idx
          BY <2>5 DEF rec
        <4>3. CASE s = side /\ i = idx
          <5>1. levels_'[s][i] = Append(list, o) /\ levels_[s][i] = list
            BY <2>8, <4>3
          <5>2. QED
            BY <2>4, <2>5, <2>7, <4>1, <4>2, <4>3, <5>1
        <4>4. CASE ~(s = side /\ i = idx)
          <5>1. levels_'[s][i] = levels_[s][i]
            BY <2>8, <4>4
          <5>2. QED
            BY <2>4, <2>5, <4>1, <4>2, <4>4, <5>1
        <4>5. QED
          BY <4>3, <4>4
      <3>4. QED
        BY <3>1, <3>2, <3>3 DEF IndexesAgree
    <2>11. BestIsBest'
      <3> SUFFICES ASSUME NEW s \in Side
                   PROVE  /\ words_'[s] = Occupied(s)'
                          /\ IsTouch(s, best_idx_'[s], Occupied(s)')
        BY DEF BestIsBest
      <3>1. /\ words_[s] = Occupied(s) /\ IsTouch(s, best_idx_[s], Occupied(s))
            /\ Occupied(s) \in SUBSET Index /\ best_idx_[s] \in Index \cup {-1}
        BY DEF BookOK, BookTypeOK, BestIsBest, Occupied
      <3>2. Occupied(s)' = IF s = side THEN Occupied(s) \cup {idx} ELSE Occupied(s)
        BY <2>3, <2>7, <2>8 DEF Occupied
      <3>3. CASE s # side
        BY <2>2, <3>1, <3>2, <3>3 DEF BookOK, BookTypeOK
      <3>4. CASE s = side /\ isEmpty(side, idx)
        <4>1. /\ words_'[s] = words_[s] \cup {idx}
              /\ best_idx_'[s] = bestAfterAdd(s, idx)
          BY <2>2, <3>4 DEF BookOK, BookTypeOK
        <4>2. IsTouch(s, bestAfterAdd(s, idx), Occupied(s) \cup {idx})
          BY <2>3, <3>1, TouchAfterAdd DEF bestAfterAdd
        <4>3. QED
          BY <3>1, <3>2, <3>4, <4>1, <4>2
      <3>5. CASE s = side /\ ~isEmpty(side, idx)
        <4>1. idx \in Occupied(s)
          BY <2>3, <3>5 DEF Occupied, isEmpty
        <4>2. QED
          BY <2>2, <3>1, <3>2, <3>5, <4>1
      <3>6. QED
        BY <3>3, <3>4, <3>5
    <2>12. QED
      BY <2>9, <2>10, <2>11 DEF BookOK
  <1>3. QED
    BY <1>1, <1>2
\* cancelOrder keeps the book consistent, whether the order was found or not.
LEMMA CancelKeepsBook ==
    ASSUME BookOK, NEW id \in OrderIds, cancelOrder(id)
    PROVE  BookOK'
  <1>1. CASE orders_[id] = NULL
    BY <1>1, UnchangedBook DEF cancelOrder
  <1>2. CASE orders_[id] # NULL
    <2> DEFINE o == orders_[id]
               side == pool_[o].side
               idx == priceToIndex(pool_[o].price)
               list == levels_[side][idx]
               rest == unlink(list, o)
               w == words_[side] \ {idx}
    <2>1. /\ levels_' = [levels_ EXCEPT ![side][idx] = rest]
          /\ total_quantity_' = [total_quantity_ EXCEPT ![side][idx] = @ - pool_[o].quantity]
          /\ IF rest = <<>>
             THEN /\ words_' = [words_ EXCEPT ![side] = w]
                  /\ count_' = [count_ EXCEPT ![side] = @ - 1]
                  /\ best_idx_' = [best_idx_ EXCEPT ![side] = bestAfterRemove(side, idx, w)]
             ELSE UNCHANGED <<words_, count_, best_idx_>>
          /\ orders_' = [orders_ EXCEPT ![id] = NULL]
          /\ pool_' = [pool_ EXCEPT ![o] = NULL]
          /\ total_orders_' = total_orders_ - 1
      BY <1>2 DEF cancelOrder
    <2>2. o \in Live /\ o \in Slots /\ pool_[o] \in Order /\ pool_[o].id = id
      BY <1>2 DEF BookOK, BookTypeOK, IndexesAgree, Live
    <2>3. /\ side \in Side /\ pool_[o].price \in MinPrice .. MaxPrice
          /\ pool_[o].quantity \in Nat
      BY <2>2 DEF Order
    <2>4. idx \in Index
      BY <2>3, LadderIndex
    <2>5. /\ list \in Seq(Slots) /\ IsInjective(list)
          /\ Range(list) = {x \in Live : pool_[x].side = side
                                          /\ priceToIndex(pool_[x].price) = idx}
      BY <2>3, <2>4 DEF BookOK, BookTypeOK, IndexesAgree
    <2>6. o \in Range(list)
      BY <2>2, <2>5
    <2>7. /\ rest \in Seq(Slots) /\ Range(rest) = Range(list) \ {o}
          /\ IsInjective(rest)
      BY <2>5, <2>6, UnlinkList
    <2>8. list # <<>>
      BY <2>5, <2>6, EmptyList
    <2> HIDE DEF o, side, idx, list, rest, w
    <2>9. /\ Live' = Live \ {o}
          /\ \A x \in Live' : pool_'[x] = pool_[x]
      BY <2>1, <2>2 DEF BookOK, BookTypeOK, Live
    <2>10. \A s \in Side, i \in Index :
             levels_'[s][i] = IF s = side /\ i = idx THEN rest ELSE levels_[s][i]
      BY <2>1, <2>3, <2>4 DEF BookOK, BookTypeOK
    <2>11. /\ idx \in Occupied(side) /\ w = words_[side] \ {idx}
           /\ words_[side] = Occupied(side)
           /\ words_[side] \in SUBSET Index
           /\ best_idx_[side] \in Index \cup {-1}
           /\ IsTouch(side, best_idx_[side], words_[side])
      BY <2>3, <2>4, <2>8 DEF Occupied, BookOK, BookTypeOK, BestIsBest, w, list
    <2>12. /\ IsTouch(side, bestAfterRemove(side, idx, w), w)
           /\ w \in SUBSET Index
           /\ bestAfterRemove(side, idx, w) \in Index \cup {-1}
      <3>1. IsTouch(side, bestAfterRemove(side, idx, w), w)
        BY <2>3, <2>11, TouchAfterRemove DEF bestAfterRemove
      <3>2. w \in SUBSET Index
        BY <2>11
      <3>3. QED
        BY <3>1, <3>2 DEF IsTouch
    <2>13. BookTypeOK'
      <3>1. levels_' \in [Side -> [Index -> Seq(Slots)]]
        BY <2>1, <2>3, <2>4, <2>7 DEF BookOK, BookTypeOK
      <3>2. /\ pool_' \in [Slots -> Order \cup {NULL}]
            /\ orders_' \in [OrderIds -> Slots \cup {NULL}]
            /\ total_orders_' \in Int
        BY <2>1, <2>2 DEF BookOK, BookTypeOK
      <3>3. total_quantity_' \in [Side -> [Index -> Int]]
        BY <2>1, <2>3, <2>4 DEF BookOK, BookTypeOK
      <3>4. /\ words_' \in [Side -> SUBSET Index]
            /\ best_idx_' \in [Side -> Index \cup {-1}]
            /\ count_' \in [Side -> Int]
        <4>1. CASE rest = <<>>
          <5>1. words_' \in [Side -> SUBSET Index]
            BY <2>1, <2>12, <4>1 DEF BookOK, BookTypeOK
          <5>2. best_idx_' \in [Side -> Index \cup {-1}]
            BY <2>1, <2>12, <4>1 DEF BookOK, BookTypeOK
          <5>3. count_' \in [Side -> Int]
            BY <2>1, <4>1 DEF BookOK, BookTypeOK
          <5>4. QED
            BY <5>1, <5>2, <5>3
        <4>2. CASE rest # <<>>
          BY <2>1, <4>2 DEF BookOK, BookTypeOK
        <4>3. QED
          BY <4>1, <4>2
      <3>5. QED
        BY <3>1, <3>2, <3>3, <3>4 DEF BookTypeOK
    <2>14. IndexesAgree'
      <3>1. ASSUME NEW d \in OrderIds, orders_'[d] # NULL
            PROVE  orders_'[d] \in Live' /\ pool_'[orders_'[d]].id = d
        <4>1. d # id
          BY <2>1, <3>1 DEF BookOK, BookTypeOK
        <4>2. orders_'[d] = orders_[d]
          BY <2>1, <4>1 DEF BookOK, BookTypeOK
        <4>3. orders_[d] \in Live /\ pool_[orders_[d]].id = d
          BY <3>1, <4>2 DEF BookOK, IndexesAgree
        <4>4. orders_[d] # o
          BY <2>2, <4>1, <4>3
        <4>5. QED
          BY <2>9, <4>2, <4>3, <4>4
      <3>2. ASSUME NEW x \in Live' PROVE orders_'[pool_'[x].id] = x
        <4>1. x \in Live /\ x # o /\ pool_'[x] = pool_[x]
          BY <2>9
        <4>2. orders_[pool_[x].id] = x /\ pool_[x].id \in OrderIds
          BY <4>1 DEF BookOK, BookTypeOK, IndexesAgree, Live, Order
        <4>3. pool_[x].id # id
          BY <4>1, <4>2 DEF o
        <4>4. QED
          BY <2>1, <4>1, <4>2, <4>3 DEF BookOK, BookTypeOK
      <3>3. ASSUME NEW s \in Side, NEW i \in Index
            PROVE  /\ Range(levels_'[s][i]) =
                         {x \in Live' : pool_'[x].side = s /\ priceToIndex(pool_'[x].price) = i}
                   /\ IsInjective(levels_'[s][i])
        <4>1. /\ Range(levels_[s][i]) =
                    {x \in Live : pool_[x].side = s /\ priceToIndex(pool_[x].price) = i}
              /\ IsInjective(levels_[s][i])
          BY DEF BookOK, IndexesAgree
        <4>2. CASE s = side /\ i = idx
          <5>1. levels_'[s][i] = rest /\ levels_[s][i] = list
            BY <2>10, <4>2 DEF list
          <5>2. QED
            BY <2>7, <2>9, <4>1, <4>2, <5>1
        <4>3. CASE ~(s = side /\ i = idx)
          <5>1. levels_'[s][i] = levels_[s][i]
            BY <2>10, <4>3
          <5>2. ~(pool_[o].side = s /\ priceToIndex(pool_[o].price) = i)
            BY <4>3 DEF side, idx
          <5>3. QED
            BY <2>9, <4>1, <5>1, <5>2
        <4>4. QED
          BY <4>2, <4>3
      <3>4. QED
        BY <3>1, <3>2, <3>3 DEF IndexesAgree
    <2>15. BestIsBest'
      <3> SUFFICES ASSUME NEW s \in Side
                   PROVE  /\ words_'[s] = Occupied(s)'
                          /\ IsTouch(s, best_idx_'[s], Occupied(s)')
        BY DEF BestIsBest
      <3>1. words_[s] = Occupied(s) /\ IsTouch(s, best_idx_[s], Occupied(s))
        BY DEF BookOK, BestIsBest
      <3>2. Occupied(s)' = {i \in Index : levels_'[s][i] # <<>>}
        BY DEF Occupied
      <3>3. CASE s # side
        <4>1. Occupied(s)' = Occupied(s)
          BY <2>10, <3>2, <3>3 DEF Occupied
        <4>2. words_'[s] = words_[s] /\ best_idx_'[s] = best_idx_[s]
          BY <2>1, <3>3 DEF BookOK, BookTypeOK
        <4>3. QED
          BY <3>1, <4>1, <4>2
      <3>4. CASE s = side /\ rest = <<>>
        <4>1. Occupied(s)' = Occupied(s) \ {idx}
          BY <2>10, <3>2, <3>4 DEF Occupied
        <4>2. words_'[s] = w /\ best_idx_'[s] = bestAfterRemove(side, idx, w)
          BY <2>1, <3>4 DEF BookOK, BookTypeOK
        <4>3. QED
          BY <2>11, <2>12, <3>4, <4>1, <4>2
      <3>5. CASE s = side /\ rest # <<>>
        <4>1. \A i \in Index : levels_'[s][i] # <<>> <=> levels_[s][i] # <<>>
          BY <2>8, <2>10, <3>5 DEF list
        <4>2. Occupied(s)' = Occupied(s)
          BY <3>2, <4>1 DEF Occupied
        <4>3. words_'[s] = words_[s] /\ best_idx_'[s] = best_idx_[s]
          BY <2>1, <3>5
        <4>4. QED
          BY <3>1, <4>2, <4>3
      <3>6. QED
        BY <3>3, <3>4, <3>5
    <2>16. QED
      BY <2>13, <2>14, <2>15 DEF BookOK
  <1>3. QED
    BY <1>1, <1>2

\* A change of an order's quantity keeps the book consistent: none of the
\* indexes depends on it.
LEMMA ResizeKeepsBook ==
    ASSUME BookOK, NEW o \in Live, NEW q \in Nat, NEW side \in Side, NEW i \in Index,
           NEW delta \in Int,
           pool_' = [pool_ EXCEPT ![o].quantity = q],
           total_quantity_' = [total_quantity_ EXCEPT ![side][i] = @ + delta],
           UNCHANGED <<orders_, levels_, words_, best_idx_, count_, total_orders_>>
    PROVE  BookOK'
  <1>1. o \in Slots /\ pool_[o] \in Order
    BY DEF Live, BookOK, BookTypeOK
  <1> DEFINE rec == [pool_[o] EXCEPT !.quantity = q]
  <1>2. /\ rec \in Order /\ rec # NULL /\ rec.id = pool_[o].id
        /\ rec.side = pool_[o].side /\ rec.price = pool_[o].price
    <2>1. rec \in Order /\ rec.id = pool_[o].id /\ rec.side = pool_[o].side
            /\ rec.price = pool_[o].price
      BY <1>1 DEF Order
    <2>2. QED
      BY <2>1, PoolAssumption
  <1>3. pool_' = [pool_ EXCEPT ![o] = rec]
    BY <1>1 DEF BookOK, BookTypeOK
  <1> HIDE DEF rec
  <1>4. /\ pool_' \in [Slots -> Order \cup {NULL}] /\ Live' = Live
        /\ \A x \in Live : /\ pool_'[x].id = pool_[x].id
                           /\ pool_'[x].side = pool_[x].side
                           /\ pool_'[x].price = pool_[x].price
    BY <1>1, <1>2, <1>3 DEF BookOK, BookTypeOK, Live
  <1>5. total_quantity_' \in [Side -> [Index -> Int]]
    BY DEF BookOK, BookTypeOK
  <1>6. BookTypeOK'
    BY <1>4, <1>5 DEF BookOK, BookTypeOK
  <1>7. IndexesAgree'
    <2>1. ASSUME NEW d \in OrderIds, orders_'[d] # NULL
          PROVE  orders_'[d] \in Live' /\ pool_'[orders_'[d]].id = d
      BY <1>4, <2>1 DEF BookOK, IndexesAgree
    <2>2. ASSUME NEW x \in Live' PROVE orders_'[pool_'[x].id] = x
      BY <1>4 DEF BookOK, IndexesAgree
    <2>3. ASSUME NEW s \in Side, NEW j \in Index
          PROVE  /\ Range(levels_'[s][j]) =
                       {x \in Live' : pool_'[x].side = s /\ priceToIndex(pool_'[x].price) = j}
                 /\ IsInjective(levels_'[s][j])
      BY <1>4 DEF BookOK, IndexesAgree
    <2>4. QED
      BY <2>1, <2>2, <2>3 DEF IndexesAgree
  <1>8. BestIsBest'
    <2>1. \A s \in Side : Occupied(s)' = Occupied(s)
      BY DEF Occupied
    <2>2. QED
      BY <2>1 DEF BookOK, BestIsBest
  <1>9. QED
    BY <1>6, <1>7, <1>8 DEF BookOK
-----------------------------------------------------------------------------
(* The call in progress.                                                   *)

\* What the loops rely on between two iterations: the id under which the
\* remainder of a limit order will rest is still unused, and executeMarketOrder
\* never takes from a level more than the remainder it will subtract.
CallOK ==
    op # Idle =>
        /\ op.kind = "limit" => op.taker \in OrderIds /\ orders_[op.taker] = NULL
        /\ op.kind = "exec" => op.filled <= op.rem /\ op.fill <= op.rem

\* The inductive invariant.
Inv == TypeOK /\ IndexesAgree /\ BestIsBest /\ CallOK

\* The oldest order of an occupied level is allocated and belongs to that level.
LEMMA HeadOfLevel ==
    ASSUME BookOK, NEW side \in Side, NEW i \in Index, ~isEmpty(side, i)
    PROVE  /\ getHead(side, i) \in Live
           /\ pool_[getHead(side, i)] \in Order
           /\ pool_[getHead(side, i)].side = side
           /\ orders_[pool_[getHead(side, i)].id] = getHead(side, i)
  <1> DEFINE list == levels_[side][i]
  <1>1. list \in Seq(Slots) /\ list # <<>>
    BY DEF BookOK, BookTypeOK, isEmpty
  <1>2. Head(list) = list[1] /\ 1 \in DOMAIN list
    <2>1. Len(list) \in Nat \ {0} /\ DOMAIN list = 1 .. Len(list)
      BY <1>1, LenProperties, EmptySeq
    <2>2. 1 \in DOMAIN list
      BY <2>1
    <2>3. Head(list) = list[1]
      BY <1>1, HeadTailProperties
    <2>4. QED
      BY <2>2, <2>3
  <1>3. Head(list) \in Range(list)
    BY <1>2 DEF Range
  <1>4. Range(list) = {o \in Live : pool_[o].side = side /\ priceToIndex(pool_[o].price) = i}
    BY DEF BookOK, IndexesAgree
  <1>5. Head(list) \in Live /\ pool_[Head(list)].side = side
    BY <1>3, <1>4
  <1>6. getHead(side, i) = Head(list)
    BY DEF getHead
  <1>7. QED
    BY <1>5, <1>6 DEF BookOK, BookTypeOK, IndexesAgree, Live

\* cancelOrder takes ids out of the map and never puts one in.
LEMMA CancelFrees ==
    ASSUME BookOK, NEW id \in OrderIds, NEW d \in OrderIds, cancelOrder(id), orders_[d] = NULL
    PROVE  orders_'[d] = NULL
  BY DEF cancelOrder, bookVars, BookOK, BookTypeOK

\* One fill of a sweep, of qty out of the oldest order of a level: the whole
\* order leaves, or what is left of it keeps its place.
LEMMA FillKeepsBook ==
    ASSUME BookOK, NEW side \in Side, NEW i \in Index, ~isEmpty(side, i), NEW qty \in Nat,
           qty <= pool_[getHead(side, i)].quantity,
           IF qty = pool_[getHead(side, i)].quantity
           THEN cancelOrder(pool_[getHead(side, i)].id)
           ELSE reduceQuantity(getHead(side, i), side, i, qty)
    PROVE  /\ BookOK'
           /\ \A d \in OrderIds : orders_[d] = NULL => orders_'[d] = NULL
  <1> DEFINE m == getHead(side, i)
  <1>1. m \in Live /\ pool_[m] \in Order
    BY HeadOfLevel
  <1>2. pool_[m].id \in OrderIds /\ pool_[m].quantity \in Nat /\ m \in Slots
    BY <1>1 DEF Order, Live
  <1> HIDE DEF m
  <1>3. CASE qty = pool_[m].quantity
    <2>1. cancelOrder(pool_[m].id)
      BY <1>3 DEF m
    <2>2. QED
      BY <1>2, <2>1, CancelKeepsBook, CancelFrees
  <1>4. CASE qty # pool_[m].quantity
    <2>1. reduceQuantity(m, side, i, qty)
      BY <1>4 DEF m
    <2>2. pool_[m].quantity - qty \in Nat
      BY <1>2 DEF m
    <2>3. pool_' = [pool_ EXCEPT ![m].quantity = pool_[m].quantity - qty]
      BY <1>2, <2>1 DEF reduceQuantity, BookOK, BookTypeOK
    <2>4. total_quantity_' = [total_quantity_ EXCEPT ![side][i] = @ + (-qty)]
      BY <2>1 DEF reduceQuantity, BookOK, BookTypeOK
    <2>5. UNCHANGED <<orders_, levels_, words_, best_idx_, count_, total_orders_>>
      BY <2>1 DEF reduceQuantity
    <2>6. -qty \in Int
      OBVIOUS
    <2>7. BookOK'
      BY <1>1, <2>2, <2>3, <2>4, <2>5, <2>6, ResizeKeepsBook
    <2>8. QED
      BY <2>5, <2>7
  <1>5. QED
    BY <1>3, <1>4
\* The empty book.
LEMMA InitInv == Init => Inv
  <1> SUFFICES ASSUME Init PROVE Inv
    OBVIOUS
  <1>1. /\ Live = {} /\ \A side \in Side : Occupied(side) = {}
    BY DEF Init, Live, Occupied
  <1>2. BookTypeOK
    <2>1. -1 \in Index \cup {-1} /\ <<>> \in Seq(Slots)
      OBVIOUS
    <2>2. QED
      BY <2>1 DEF Init, BookTypeOK
  <1>3. TypeOK
    BY <1>2 DEF Init, TypeOK
  <1>4. IndexesAgree
    <2>1. Range(<<>>) = {} /\ IsInjective(<<>>)
      BY DEF Range, IsInjective
    <2>2. \A side \in Side, i \in Index : levels_[side][i] = <<>>
      BY DEF Init
    <2>3. \A id \in OrderIds : orders_[id] = NULL
      BY DEF Init
    <2>4. QED
      BY <1>1, <2>1, <2>2, <2>3 DEF IndexesAgree
  <1>5. BestIsBest
    BY <1>1 DEF Init, BestIsBest, IsTouch
  <1>6. CallOK
    BY DEF Init, CallOK
  <1>7. QED
    BY <1>3, <1>4, <1>5, <1>6 DEF Inv

\* A step that returns to the caller has only the book to keep consistent.
LEMMA BackToIdle ==
    ASSUME BookOK', op' = Idle, trades' = <<>>, next_order_id_' \in Nat
    PROVE  Inv'
  BY DEF Inv, BookOK, TypeOK, CallOK

\* An add, a cancel or a modify is a single step and has only the book to keep
\* consistent.
LEMMA IdleStep ==
    ASSUME Inv, BookOK', op = Idle, UNCHANGED callVars, next_order_id_' \in Nat
    PROVE  Inv'
  BY DEF Inv, BookOK, TypeOK, CallOK, callVars

\* Every operation a client or a feed may call keeps the invariant.
LEMMA RequestKeepsInv ==
    ASSUME Inv, SeparateIds, Trading \/ Feeding
    PROVE  Inv'
  <1> USE RequestAssumption
  <1>1. BookOK /\ next_order_id_ \in Nat
    BY DEF Inv, TypeOK, BookOK
  <1>2. ASSUME NEW side \in Side, NEW p \in Prices, NEW q \in Quantities, NEW id \in OrderIds,
               submitLimit(side, p, q, id)
        PROVE  Inv'
    <2>1. BookOK'
      BY <1>1, <1>2, UnchangedBook DEF submitLimit
    <2>2. /\ op' = [kind |-> "limit", side |-> side, limit |-> p, quantity |-> q,
                    rem |-> q, taker |-> id, lvl |-> -1, fill |-> 0, filled |-> 0]
          /\ UNCHANGED <<orders_, trades, next_order_id_>> /\ orders_[id] = NULL
      BY <1>2 DEF submitLimit, Call, Unused, bookVars
    <2>3. op' \in CallInProgress
      BY <2>2 DEF CallInProgress
    <2>4. TypeOK'
      BY <2>1, <2>2, <2>3 DEF Inv, TypeOK, BookOK
    <2>5. CallOK'
      BY <2>2 DEF CallOK
    <2>6. QED
      BY <2>1, <2>4, <2>5 DEF Inv, BookOK
  <1>3. ASSUME NEW side \in Side, NEW q \in Quantities, NEW kind \in {"market", "exec"},
               Call(kind, side, IF side = "BUY" THEN MaxPrice ELSE MinPrice, q, NULL),
               UNCHANGED <<bookVars, next_order_id_, trades>>
        PROVE  Inv'
    <2>1. BookOK'
      BY <1>1, <1>3, UnchangedBook
    <2> DEFINE limit == IF side = "BUY" THEN MaxPrice ELSE MinPrice
    <2>2. limit \in Int
      BY LadderAssumption
    <2>3. op' = [kind |-> kind, side |-> side, limit |-> limit, quantity |-> q,
                 rem |-> q, taker |-> NULL, lvl |-> -1, fill |-> 0, filled |-> 0]
      BY <1>3 DEF Call
    <2> HIDE DEF limit
    <2>4. op' \in CallInProgress
      BY <2>2, <2>3 DEF CallInProgress
    <2>5. TypeOK'
      BY <1>3, <2>1, <2>4 DEF Inv, TypeOK, BookOK
    <2>6. CallOK'
      BY <2>3 DEF CallOK
    <2>7. QED
      BY <2>1, <2>5, <2>6 DEF Inv, BookOK
  <1>4. ASSUME NEW id \in OrderIds, Cancel(id) PROVE Inv'
    BY <1>1, <1>4, CancelKeepsBook, IdleStep DEF Cancel
  <1>5. ASSUME NEW id \in OrderIds, NEW q \in Quantities, Modify(id, q) PROVE Inv'
    <2>1. BookOK'
      <3>1. CASE orders_[id] = NULL
        BY <1>1, <1>5, <3>1, UnchangedBook DEF Modify, modifyOrder
      <3>2. CASE orders_[id] # NULL
        <4> DEFINE o == orders_[id]
        <4>1. o \in Live /\ pool_[o] \in Order
          BY <1>1, <3>2 DEF BookOK, BookTypeOK, IndexesAgree, Live
        <4>2. /\ pool_[o].side \in Side /\ priceToIndex(pool_[o].price) \in Index
              /\ q - pool_[o].quantity \in Int /\ q \in Nat
          BY <4>1, LadderIndex DEF Order
        <4>3. /\ pool_' = [pool_ EXCEPT ![o].quantity = q]
              /\ total_quantity_' =
                   [total_quantity_ EXCEPT ![pool_[o].side][priceToIndex(pool_[o].price)] =
                        @ + (q - pool_[o].quantity)]
              /\ UNCHANGED <<orders_, levels_, words_, best_idx_, count_, total_orders_>>
          BY <1>5, <3>2 DEF Modify, modifyOrder
        <4> HIDE DEF o
        <4>4. QED
          BY <1>1, <4>1, <4>2, <4>3, ResizeKeepsBook
      <3>3. QED
        BY <3>1, <3>2
    <2>2. QED
      BY <1>1, <1>5, <2>1, IdleStep DEF Modify
  <1>6. ASSUME NEW side \in Side, NEW p \in Prices, NEW q \in Quantities, AddAuto(side, p, q)
        PROVE  Inv'
    <2>1. BookOK'
      BY <1>1, <1>6, AddKeepsBook DEF AddAuto, Unused
    <2>2. next_order_id_' \in Nat
      BY <1>1, <1>6 DEF AddAuto
    <2>3. QED
      BY <1>6, <2>1, <2>2, IdleStep DEF AddAuto
  <1>7. ASSUME NEW side \in Side, NEW p \in Prices, NEW q \in Quantities, NEW id \in OrderIds,
               Add(side, p, q, id)
        PROVE  Inv'
    BY <1>1, <1>7, AddKeepsBook, IdleStep DEF Add, Unused
  <1>8. QED
    BY <1>2, <1>3, <1>4, <1>5, <1>6, <1>7
       DEF Trading, Feeding, submitMarket, executeMarketOrder
\* Every iteration of the loops of a call keeps the invariant.
LEMMA StepKeepsInv ==
    ASSUME Inv, Step
    PROVE  Inv'
  <1>1. /\ BookOK /\ TypeOK /\ CallOK /\ next_order_id_ \in Nat
    BY DEF Inv, TypeOK, BookOK
  <1>2. op # Idle /\ op \in CallInProgress
    <2>1. op.kind \in {"limit", "market", "exec"}
      BY DEF Step, Running, MatchLevel, MatchFill, MatchLevelDone, MatchReturn,
             ExecLevel, ExecFill, ExecLevelDone, ExecReturn
    <2>2. op # Idle
      BY <2>1 DEF Idle
    <2>3. QED
      BY <1>1, <2>2 DEF TypeOK
  <1>3. /\ op.side \in Side /\ Book \in Side /\ op.rem \in Nat /\ op.fill \in Int
        /\ op.filled \in Nat /\ op.lvl \in Index \cup {-1} /\ op.limit \in Int
        /\ op.kind \in {"limit", "market", "exec"}
    BY <1>2 DEF CallInProgress, Book, Opposite, Side
  <1>4. /\ best_idx_[Book] \in Index \cup {-1} /\ Index \subseteq Nat
        /\ \A i \in Index : total_quantity_[Book][i] \in Int
    <2>1. Index \subseteq Nat
      BY LadderAssumption DEF Index
    <2>2. best_idx_[Book] \in Index \cup {-1} /\ total_quantity_[Book] \in [Index -> Int]
      BY <1>1, <1>3 DEF BookOK, BookTypeOK
    <2>3. QED
      BY <2>1, <2>2
  \* A step of the loops that leaves the book alone.
  <1>5. ASSUME op' \in CallInProgress, CallOK', UNCHANGED <<bookVars, next_order_id_, trades>>
        PROVE  Inv'
    <2>1. BookOK'
      BY <1>1, <1>5, UnchangedBook
    <2>2. TypeOK'
      BY <1>1, <1>5, <2>1 DEF TypeOK, BookOK
    <2>3. QED
      BY <1>5, <2>1, <2>2 DEF Inv, BookOK
  \* A step that returns to the caller without touching the book.
  <1>6. ASSUME Return, UNCHANGED <<bookVars, next_order_id_>> PROVE Inv'
    <2>1. BookOK'
      BY <1>1, <1>6, UnchangedBook
    <2>2. QED
      BY <1>1, <1>6, <2>1, BackToIdle DEF Return
  <1>7. CASE MatchLevel
    <2>1. best_idx_[Book] \in Index
      BY <1>4, <1>7 DEF MatchLevel, OuterLoop
    <2>2. op' \in CallInProgress
      BY <1>2, <1>7, <2>1 DEF MatchLevel, CallInProgress
    <2>3. op'.kind = op.kind /\ op'.taker = op.taker /\ orders_' = orders_ /\ op.kind # "exec"
      BY <1>2, <1>7 DEF MatchLevel, CallInProgress, bookVars, Running
    <2>4. CallOK'
      BY <1>1, <1>2, <2>3 DEF CallOK
    <2>5. QED
      BY <1>5, <1>7, <2>2, <2>4 DEF MatchLevel
  <1>8. CASE MatchFill
    <2> DEFINE m == getHead(Book, op.lvl)
               fill == Lesser(op.rem, pool_[m].quantity)
    <2>1. op.lvl \in Index /\ ~isEmpty(Book, op.lvl) /\ op.kind # "exec"
      BY <1>3, <1>8 DEF MatchFill, Running
    <2>2. pool_[m] \in Order
      BY <1>1, <1>3, <2>1, HeadOfLevel
    <2>3. pool_[m].quantity \in Nat /\ pool_[m].id \in OrderIds
      BY <2>2 DEF Order
    <2>4. fill \in Nat /\ fill <= pool_[m].quantity /\ fill <= op.rem
      BY <1>3, <2>3 DEF Lesser
    <2>5. /\ trades' = Append(trades, [price |-> indexToPrice(op.lvl), quantity |-> fill,
                                        makerId |-> pool_[m].id])
          /\ op' = [op EXCEPT !.rem = @ - fill]
          /\ IF fill = pool_[m].quantity
             THEN cancelOrder(pool_[m].id)
             ELSE reduceQuantity(m, Book, op.lvl, fill)
          /\ UNCHANGED next_order_id_
      BY <1>8 DEF MatchFill
    <2> HIDE DEF fill
    <2>6. /\ BookOK'
          /\ \A d \in OrderIds : orders_[d] = NULL => orders_'[d] = NULL
      BY <1>1, <1>3, <2>1, <2>4, <2>5, FillKeepsBook
    <2> HIDE DEF m
    <2>7. op.rem - fill \in Nat
      BY <1>3, <2>4
    <2>8. /\ op' \in CallInProgress /\ op'.kind = op.kind /\ op'.taker = op.taker
      BY <1>2, <2>5, <2>7 DEF CallInProgress
    <2>9. indexToPrice(op.lvl) \in MinPrice .. MaxPrice
      BY <2>1, LadderAssumption DEF indexToPrice, Index
    <2>10. TypeOK'
      <3> DEFINE T == [price : MinPrice .. MaxPrice, quantity : Nat, makerId : OrderIds]
                 t == [price |-> indexToPrice(op.lvl), quantity |-> fill, makerId |-> pool_[m].id]
      <3>1. t \in T
        BY <2>3, <2>4, <2>9
      <3>2. trades \in Seq(T)
        BY <1>1 DEF TypeOK
      <3> HIDE DEF T, t
      <3>3. Append(trades, t) \in Seq(T)
        BY <3>1, <3>2, AppendProperties
      <3>4. trades' \in Seq(T)
        BY <2>5, <3>3 DEF t
      <3>5. QED
        BY <1>1, <2>5, <2>6, <2>8, <3>4 DEF TypeOK, BookOK, T
    <2>11. CallOK'
      BY <1>1, <1>2, <2>1, <2>6, <2>8 DEF CallOK
    <2>12. QED
      BY <2>6, <2>10, <2>11 DEF Inv, BookOK
  <1>9. CASE MatchLevelDone
    <2>1. op' \in CallInProgress
      BY <1>2, <1>9 DEF MatchLevelDone, CallInProgress
    <2>2. op'.kind = op.kind /\ op'.taker = op.taker /\ orders_' = orders_ /\ op.kind # "exec"
      BY <1>2, <1>9 DEF MatchLevelDone, CallInProgress, bookVars, Running
    <2>3. CallOK'
      BY <1>1, <1>2, <2>2 DEF CallOK
    <2>4. QED
      BY <1>5, <1>9, <2>1, <2>3 DEF MatchLevelDone
  <1>10. CASE MatchReturn
    <2>1. CASE op.kind = "limit" /\ op.rem > 0
      <3>1. addOrder(op.side, op.limit, op.rem, op.taker) /\ Return /\ UNCHANGED next_order_id_
        BY <1>10, <2>1 DEF MatchReturn
      <3>2. op.taker \in OrderIds /\ orders_[op.taker] = NULL
        BY <1>1, <1>2, <2>1 DEF CallOK
      <3>3. BookOK'
        BY <1>1, <1>3, <3>1, <3>2, AddKeepsBook
      <3>4. QED
        BY <1>1, <3>1, <3>3, BackToIdle DEF Return
    <2>2. CASE ~(op.kind = "limit" /\ op.rem > 0)
      BY <1>6, <1>10, <2>2 DEF MatchReturn
    <2>3. QED
      BY <2>1, <2>2
  <1>11. CASE ExecLevel
    <2> DEFINE lvl == best_idx_[Book]
               fill == Lesser(op.rem, total_quantity_[Book][lvl])
    <2>1. lvl \in Index
      BY <1>4, <1>11 DEF ExecLevel, OuterLoop
    <2>2. fill \in Int /\ fill <= op.rem
      <3> DEFINE total == total_quantity_[Book][lvl]
      <3>1. total \in Int
        BY <1>4, <2>1
      <3> HIDE DEF total
      <3>2. Lesser(op.rem, total) \in Int /\ Lesser(op.rem, total) <= op.rem
        BY <1>3, <3>1 DEF Lesser
      <3>3. QED
        BY <3>2 DEF total
    <2>3. op' = [op EXCEPT !.lvl = lvl, !.fill = fill, !.filled = 0]
      BY <1>11 DEF ExecLevel
    <2> HIDE DEF lvl, fill
    <2>4. /\ op' \in CallInProgress /\ op'.kind = op.kind /\ op'.rem = op.rem
          /\ op'.fill = fill /\ op'.filled = 0 /\ op.kind = "exec"
      <3>1. op.kind = "exec"
        BY <1>11 DEF ExecLevel, Running
      <3>2. [op EXCEPT !.lvl = lvl] \in CallInProgress
        BY <1>2, <2>1 DEF CallInProgress
      <3>3. [[op EXCEPT !.lvl = lvl] EXCEPT !.fill = fill] \in CallInProgress
        BY <2>2, <3>2 DEF CallInProgress
      <3>4. op' = [[[op EXCEPT !.lvl = lvl] EXCEPT !.fill = fill] EXCEPT !.filled = 0]
        BY <2>3
      <3>5. op' \in CallInProgress
        BY <3>3, <3>4 DEF CallInProgress
      <3>6. QED
        BY <1>2, <2>3, <3>1, <3>5 DEF CallInProgress
    <2>5. CallOK'
      BY <1>3, <2>2, <2>4 DEF CallOK
    <2>6. QED
      BY <1>5, <1>11, <2>4, <2>5 DEF ExecLevel
  <1>12. CASE ExecFill
    <2> DEFINE h == getHead(Book, op.lvl)
               tf == Lesser(pool_[h].quantity, op.fill - op.filled)
    <2>1. op.lvl \in Index /\ ~isEmpty(Book, op.lvl) /\ op.kind = "exec" /\ op.filled < op.fill
      BY <1>3, <1>12 DEF ExecFill, Running
    <2>2. pool_[h] \in Order
      BY <1>1, <1>3, <2>1, HeadOfLevel
    <2>3. pool_[h].quantity \in Nat
      BY <2>2 DEF Order
    <2>4. tf \in Nat /\ tf <= pool_[h].quantity /\ op.filled + tf <= op.fill
      BY <1>3, <2>1, <2>3 DEF Lesser
    <2>5. /\ op' = [op EXCEPT !.filled = @ + tf]
          /\ IF tf = pool_[h].quantity
             THEN cancelOrder(pool_[h].id)
             ELSE reduceQuantity(h, Book, op.lvl, tf)
          /\ UNCHANGED <<next_order_id_, trades>>
      BY <1>12 DEF ExecFill
    <2> HIDE DEF tf
    <2>6. BookOK'
      BY <1>1, <1>3, <2>1, <2>4, <2>5, FillKeepsBook
    <2> HIDE DEF h
    <2>7. /\ op' \in CallInProgress /\ op'.kind = op.kind /\ op'.rem = op.rem
          /\ op'.fill = op.fill /\ op'.filled = op.filled + tf
      BY <1>2, <1>3, <2>4, <2>5 DEF CallInProgress
    <2>8. CallOK'
      <3>1. op.fill <= op.rem
        BY <1>1, <1>2, <2>1 DEF CallOK
      <3>2. op'.filled <= op'.rem /\ op'.fill <= op'.rem
        BY <1>3, <2>4, <2>7, <3>1
      <3>3. QED
        BY <2>1, <2>7, <3>2 DEF CallOK
    <2>9. TypeOK'
      BY <1>1, <2>5, <2>6, <2>7 DEF TypeOK, BookOK
    <2>10. QED
      BY <2>6, <2>8, <2>9 DEF Inv, BookOK
  <1>13. CASE ExecLevelDone
    <2>1. CASE op.filled = 0
      BY <1>6, <1>13, <2>1 DEF ExecLevelDone
    <2>2. CASE op.filled # 0
      <3>1. /\ op' = [op EXCEPT !.rem = @ - op.filled, !.lvl = -1, !.fill = 0, !.filled = 0]
            /\ UNCHANGED <<bookVars, next_order_id_, trades>>
            /\ op.kind = "exec"
        BY <1>13, <2>2 DEF ExecLevelDone, Running
      <3>2. op.rem - op.filled \in Nat
        BY <1>1, <1>2, <1>3, <3>1 DEF CallOK
      <3>3. /\ op' \in CallInProgress /\ op'.kind = "exec" /\ op'.rem = op.rem - op.filled
            /\ op'.fill = 0 /\ op'.filled = 0
        <4> DEFINE r == op.rem - op.filled
                   op1 == [op EXCEPT !.rem = r]
                   op2 == [op1 EXCEPT !.lvl = -1]
                   op3 == [op2 EXCEPT !.fill = 0]
        <4>1. op1 \in CallInProgress
          BY <1>2, <3>2 DEF CallInProgress
        <4> HIDE DEF op1
        <4>2. op2 \in CallInProgress
          BY <4>1 DEF CallInProgress
        <4> HIDE DEF op2
        <4>3. op3 \in CallInProgress
          BY <4>2 DEF CallInProgress
        <4>4. op' = [op3 EXCEPT !.filled = 0]
          BY <3>1 DEF op1, op2
        <4> HIDE DEF op3
        <4>5. op' \in CallInProgress
          BY <4>3, <4>4 DEF CallInProgress
        <4>6. QED
          BY <1>2, <3>1, <4>5 DEF CallInProgress
      <3>4. CallOK'
        BY <3>2, <3>3 DEF CallOK
      <3>5. QED
        BY <1>5, <3>1, <3>3, <3>4
    <2>3. QED
      BY <2>1, <2>2
  <1>14. CASE ExecReturn
    BY <1>6, <1>14 DEF ExecReturn
  <1>15. QED
    BY <1>7, <1>8, <1>9, <1>10, <1>11, <1>12, <1>13, <1>14 DEF Step

-----------------------------------------------------------------------------
(* The theorems.                                                           *)

\* Every step of the system, and every stuttering step, keeps the invariant.
LEMMA NextKeepsInv ==
    ASSUME Inv, SeparateIds, [Next]_vars
    PROVE  Inv'
  <1>1. CASE Next
    BY <1>1, RequestKeepsInv, StepKeepsInv DEF Next
  <1>2. CASE UNCHANGED vars
    <2>1. BookOK'
      BY <1>2, UnchangedBook DEF vars, Inv, TypeOK, BookOK
    <2>2. QED
      BY <1>2, <2>1 DEF vars, callVars, bookVars, Inv, TypeOK, BookOK, CallOK
  <1>3. QED
    BY <1>1, <1>2

\* The invariant holds in every reachable state when supplied ids keep clear of
\* the book's own numbering.
THEOREM BookInvariant ==
    ASSUME SeparateIds PROVE Spec => []Inv
  <1>1. Inv /\ [Next]_vars => Inv'
    BY NextKeepsInv
  <1>2. QED
    BY <1>1, InitInv, PTL DEF Spec

\* Every field stays in its range: no fill takes more than is there, so the
\* unsigned quantities of match and executeMarketOrder never wrap below zero.
THEOREM BookTypeCorrect ==
    ASSUME SeparateIds PROVE Spec => []TypeOK
  <1>1. Inv => TypeOK
    BY DEF Inv
  <1>2. QED
    BY <1>1, BookInvariant, PTL

\* The id map, the object pool and the level lists always hold the same orders.
THEOREM BookIndexesAgree ==
    ASSUME SeparateIds PROVE Spec => []IndexesAgree
  <1>1. Inv => IndexesAgree
    BY DEF Inv
  <1>2. QED
    BY <1>1, BookInvariant, PTL

\* The bitmap marks the occupied levels and the cached best index is the best
\* occupied level, at every point of every call.
THEOREM BookBestIsBest ==
    ASSUME SeparateIds PROVE Spec => []BestIsBest
  <1>1. Inv => BestIsBest
    BY DEF Inv
  <1>2. QED
    BY <1>1, BookInvariant, PTL
\* cancelOrder, a fill or a change of quantity never moves a best price towards
\* the touch: an uncrossed book stays uncrossed.
LEMMA ShrinkKeepsUncrossed ==
    ASSUME BookOK, BookOK', NotCrossed,
           \A s \in Side : Occupied(s)' \subseteq Occupied(s)
    PROVE  NotCrossed'
  <1> SUFFICES ASSUME best_idx_'["BUY"] >= 0, best_idx_'["SELL"] >= 0
               PROVE  best_idx_'["BUY"] < best_idx_'["SELL"]
    BY DEF NotCrossed
  <1>1. ASSUME NEW s \in Side, best_idx_'[s] >= 0
        PROVE  /\ best_idx_'[s] \in Occupied(s) /\ best_idx_[s] \in Occupied(s)
               /\ best_idx_'[s] # best_idx_[s] => Better(s, best_idx_[s], best_idx_'[s])
    <2>1. best_idx_'[s] # -1
      BY <1>1
    <2>2. best_idx_'[s] \in Occupied(s)'
      BY <2>1 DEF BookOK, BestIsBest, IsTouch
    <2>3. best_idx_'[s] \in Occupied(s)
      BY <2>2
    <2>4. IsTouch(s, best_idx_[s], Occupied(s))
      BY DEF BookOK, BestIsBest
    <2>5. QED
      BY <2>3, <2>4 DEF IsTouch
  <1>2. \A s \in Side : Occupied(s) \subseteq Nat
    BY LadderAssumption DEF Occupied, Index
  <1>3. "BUY" \in Side /\ "SELL" \in Side
    BY DEF Side
  <1>4. /\ best_idx_["BUY"] \in Nat /\ best_idx_["SELL"] \in Nat
        /\ best_idx_'["BUY"] \in Nat /\ best_idx_'["SELL"] \in Nat
        /\ best_idx_'["BUY"] <= best_idx_["BUY"]
        /\ best_idx_'["SELL"] >= best_idx_["SELL"]
    BY <1>1, <1>2, <1>3 DEF Better
  <1>5. QED
    BY <1>4 DEF NotCrossed

\* cancelOrder empties levels and fills none.
LEMMA CancelShrinks ==
    ASSUME BookOK, NEW id \in OrderIds, cancelOrder(id), NEW s \in Side
    PROVE  Occupied(s)' \subseteq Occupied(s)
  <1>1. CASE orders_[id] = NULL
    BY <1>1 DEF cancelOrder, bookVars, Occupied
  <1>2. CASE orders_[id] # NULL
    <2> DEFINE o == orders_[id]
               side == pool_[o].side
               idx == priceToIndex(pool_[o].price)
               rest == unlink(levels_[side][idx], o)
    <2>1. levels_' = [levels_ EXCEPT ![side][idx] = rest]
      BY <1>2 DEF cancelOrder
    <2>2. o \in Live /\ pool_[o] \in Order
      BY <1>2 DEF BookOK, BookTypeOK, IndexesAgree, Live
    <2>3. side \in Side /\ idx \in Index
      BY <2>2, LadderIndex DEF Order
    <2>4. o \in Range(levels_[side][idx]) /\ levels_[side][idx] \in Seq(Slots)
      BY <2>2, <2>3 DEF BookOK, BookTypeOK, IndexesAgree
    <2>5. levels_[side][idx] # <<>>
      BY <2>4, EmptyList
    <2> HIDE DEF side, idx, rest
    <2>6. \A i \in Index : levels_'[s][i] # levels_[s][i] => s = side /\ i = idx
      BY <2>1 DEF BookOK, BookTypeOK
    <2>7. QED
      BY <2>5, <2>6 DEF Occupied
  <1>3. QED
    BY <1>1, <1>2

\* A fill of a sweep empties levels and fills none.
LEMMA FillShrinks ==
    ASSUME BookOK, NEW side \in Side, NEW i \in Index, ~isEmpty(side, i), NEW qty,
           IF qty = pool_[getHead(side, i)].quantity
           THEN cancelOrder(pool_[getHead(side, i)].id)
           ELSE reduceQuantity(getHead(side, i), side, i, qty),
           NEW s \in Side
    PROVE  Occupied(s)' \subseteq Occupied(s)
  <1>1. pool_[getHead(side, i)].id \in OrderIds
    BY HeadOfLevel DEF Order
  <1>2. CASE cancelOrder(pool_[getHead(side, i)].id)
    BY <1>1, <1>2, CancelShrinks
  <1>3. CASE reduceQuantity(getHead(side, i), side, i, qty)
    BY <1>3 DEF reduceQuantity, Occupied
  <1>4. QED
    BY <1>2, <1>3

\* What is left of a limit order rests only where the opposing best price does
\* not cross it.
LEMMA RestKeepsUncrossed ==
    ASSUME BookOK, NotCrossed, NEW side \in Side, NEW price \in Int, NEW quantity, NEW id,
           best_idx_[Opposite(side)] < 0 \/ ~Crosses(side, best_idx_[Opposite(side)], price),
           addOrder(side, price, quantity, id)
    PROVE  NotCrossed'
  <1>1. CASE UNCHANGED bookVars
    BY <1>1 DEF bookVars, NotCrossed
  <1>2. CASE ~UNCHANGED bookVars
    <2> DEFINE idx == priceToIndex(price)
    <2>1. /\ inRange(price)
          /\ \/ best_idx_' = [best_idx_ EXCEPT ![side] = bestAfterAdd(side, idx)]
             \/ best_idx_' = best_idx_
      BY <1>2 DEF addOrder
    <2>2. CASE best_idx_' = best_idx_
      BY <2>2 DEF NotCrossed
    <2>3. CASE best_idx_' = [best_idx_ EXCEPT ![side] = bestAfterAdd(side, idx)]
      <3>1. best_idx_'[side] \in {best_idx_[side], idx}
        BY <2>3 DEF bestAfterAdd, BookOK, BookTypeOK
      <3>2. /\ Opposite(side) \in Side
            /\ best_idx_'[Opposite(side)] = best_idx_[Opposite(side)]
        BY <2>3 DEF Opposite, Side, BookOK, BookTypeOK
      <3>3. best_idx_["BUY"] \in Int /\ best_idx_["SELL"] \in Int /\ idx \in Int
        BY LadderAssumption DEF BookOK, BookTypeOK, Side, Index, priceToIndex
      <3>4. best_idx_[Opposite(side)] >= 0 =>
              IF side = "BUY" THEN idx < best_idx_["SELL"] ELSE best_idx_["BUY"] < idx
        BY <3>3, LadderAssumption DEF Crosses, indexToPrice, priceToIndex, Opposite, Side
      <3> HIDE DEF idx
      <3>5. CASE side = "BUY"
        BY <3>1, <3>2, <3>3, <3>4, <3>5 DEF NotCrossed, Opposite
      <3>6. CASE side = "SELL"
        BY <3>1, <3>2, <3>3, <3>4, <3>6 DEF NotCrossed, Opposite
      <3>7. QED
        BY <3>5, <3>6 DEF Side
    <2>4. QED
      BY <2>1, <2>2, <2>3
  <1>3. QED
    BY <1>1, <1>2

\* test_matching.cpp: "a matched book is NEVER crossed".  While orders enter only
\* through submitLimit the best bid stays below the best ask, in the middle of
\* a sweep too.
THEOREM NeverCrossed ==
    ASSUME SeparateIds PROVE TradingSpec => []NotCrossed
  <1>1. Init => NotCrossed
    BY DEF Init, NotCrossed, Side
  <1>2. TradingNext => Next
    BY DEF TradingNext, Next
  <1>3. ASSUME Inv, NotCrossed, [TradingNext]_vars PROVE Inv' /\ NotCrossed'
    <2>1. Inv'
      BY <1>2, <1>3, NextKeepsInv
    <2> SUFFICES NotCrossed'
      BY <2>1
    <2>2. BookOK /\ BookOK'
      BY <1>3, <2>1 DEF Inv, TypeOK, BookOK
    <2>3. ASSUME UNCHANGED best_idx_ PROVE NotCrossed'
      BY <1>3, <2>3 DEF NotCrossed
    <2>4. ASSUME NEW id \in OrderIds, Cancel(id) PROVE NotCrossed'
      BY <1>3, <2>2, <2>4, CancelShrinks, ShrinkKeepsUncrossed DEF Cancel
    <2>5. CASE MatchFill
      <3>1. op.lvl \in Index /\ Book \in Side /\ ~isEmpty(Book, op.lvl)
        <4>1. op # Idle
          BY <2>5 DEF MatchFill, Running, Idle
        <4>2. op \in CallInProgress
          BY <1>3, <4>1 DEF Inv, TypeOK
        <4>3. QED
          BY <2>5, <4>2 DEF MatchFill, CallInProgress, Book, Opposite, Side
      <3>2. \A s \in Side : Occupied(s)' \subseteq Occupied(s)
        BY <2>2, <2>5, <3>1, FillShrinks DEF MatchFill
      <3>3. QED
        BY <1>3, <2>2, <3>2, ShrinkKeepsUncrossed
    <2>6. CASE ExecFill
      <3>1. op.lvl \in Index /\ Book \in Side /\ ~isEmpty(Book, op.lvl)
        <4>1. op # Idle
          BY <2>6 DEF ExecFill, Running, Idle
        <4>2. op \in CallInProgress
          BY <1>3, <4>1 DEF Inv, TypeOK
        <4>3. QED
          BY <2>6, <4>2 DEF ExecFill, CallInProgress, Book, Opposite, Side
      <3>2. \A s \in Side : Occupied(s)' \subseteq Occupied(s)
        BY <2>2, <2>6, <3>1, FillShrinks DEF ExecFill
      <3>3. QED
        BY <1>3, <2>2, <3>2, ShrinkKeepsUncrossed
    <2>7. CASE MatchReturn
      <3>1. CASE op.kind = "limit" /\ op.rem > 0
        <4>1. op \in CallInProgress
          BY <1>3, <3>1 DEF Inv, TypeOK, Idle
        <4>2. /\ op.side \in Side /\ op.limit \in Int
              /\ best_idx_[Opposite(op.side)] \in Int
          <5>1. op.side \in Side /\ op.limit \in Int
            BY <4>1 DEF CallInProgress
          <5>2. Opposite(op.side) \in Side
            BY <5>1 DEF Opposite, Side
          <5>3. QED
            BY <2>2, <5>1, <5>2, LadderAssumption DEF BookOK, BookTypeOK, Index
        <4>3. /\ best_idx_[Opposite(op.side)] < 0
                   \/ ~Crosses(op.side, best_idx_[Opposite(op.side)], op.limit)
              /\ addOrder(op.side, op.limit, op.rem, op.taker)
          BY <2>7, <3>1, <4>2 DEF MatchReturn, OuterLoop, Book
        <4>4. QED
          BY <1>3, <2>2, <4>2, <4>3, RestKeepsUncrossed
      <3>2. CASE ~(op.kind = "limit" /\ op.rem > 0)
        BY <2>3, <2>7, <3>2 DEF MatchReturn, bookVars
      <3>3. QED
        BY <3>1, <3>2
    <2>8. CASE Step
      BY <2>3, <2>5, <2>6, <2>7, <2>8
         DEF Step, MatchLevel, MatchLevelDone, ExecLevel, ExecLevelDone, ExecReturn, bookVars
    <2>9. CASE Trading
      BY <2>3, <2>4, <2>9
         DEF Trading, submitLimit, submitMarket, executeMarketOrder, Modify, modifyOrder, bookVars
    <2>10. CASE UNCHANGED vars
      BY <2>3, <2>10 DEF vars, bookVars
    <2>11. QED
      BY <1>3, <2>1, <2>8, <2>9, <2>10 DEF TradingNext
  <1>4. Inv /\ NotCrossed /\ [TradingNext]_vars => (Inv /\ NotCrossed)'
    BY <1>3
  <1>5. QED
    BY <1>1, <1>4, InitInv, PTL DEF TradingSpec

-----------------------------------------------------------------------------
(* The three ways to change the book.                                      *)

At(o, side, i) == pool_[o].side = side /\ priceToIndex(pool_[o].price) = i

\* addOrder: slot o is taken by an order that stands last in its level.
Enters(o, id, side, price, quantity) ==
    LET idx == priceToIndex(price) IN
    /\ o \in Slots /\ o \notin Live /\ side \in Side /\ idx \in Index
    /\ quantity \in Nat /\ price \in MinPrice .. MaxPrice /\ id \in OrderIds
    /\ pool_' = [pool_ EXCEPT ![o] = [id |-> id, side |-> side, price |-> price,
                                      quantity |-> quantity]]
    /\ levels_' = [levels_ EXCEPT ![side][idx] = Append(@, o)]
    /\ total_quantity_' = [total_quantity_ EXCEPT ![side][idx] = @ + quantity]
    /\ count_' = [count_ EXCEPT ![side] = IF isEmpty(side, idx) THEN @ + 1 ELSE @]
    /\ total_orders_' = total_orders_ + 1

\* cancelOrder: the order in slot o leaves its level, wherever it stands there.
Leaves(o) ==
    LET side == pool_[o].side
        idx == priceToIndex(pool_[o].price)
        rest == unlink(levels_[side][idx], o)
    IN  /\ o \in Live
        /\ pool_' = [pool_ EXCEPT ![o] = NULL]
        /\ levels_' = [levels_ EXCEPT ![side][idx] = rest]
        /\ total_quantity_' = [total_quantity_ EXCEPT ![side][idx] = @ - pool_[o].quantity]
        /\ count_' = [count_ EXCEPT ![side] = IF rest = <<>> THEN @ - 1 ELSE @]
        /\ total_orders_' = total_orders_ - 1

\* modifyOrder and a partial fill: the order keeps its place.
Resizes(o, q) ==
    /\ o \in Live /\ q \in Nat
    /\ pool_' = [pool_ EXCEPT ![o].quantity = q]
    /\ total_quantity_' = [total_quantity_ EXCEPT ![pool_[o].side][priceToIndex(pool_[o].price)] =
                               @ + (q - pool_[o].quantity)]
    /\ UNCHANGED <<levels_, words_, best_idx_, count_, total_orders_>>

LEMMA AddEnters ==
    ASSUME BookOK, NEW side \in Side, NEW price \in Int, NEW quantity \in Nat,
           NEW id \in OrderIds,
           addOrder(side, price, quantity, id)
    PROVE  \/ ~inRange(price) /\ UNCHANGED bookVars
           \/ inRange(price) /\ \E o \in Slots : Enters(o, id, side, price, quantity)
<1>1. CASE ~inRange(price)
  BY <1>1 DEF addOrder
<1>2. CASE inRange(price)
  <2>1. price \in MinPrice .. MaxPrice /\ priceToIndex(price) \in Index
    BY <1>2, LadderAssumption DEF inRange, priceToIndex, Index
  <2> DEFINE idx == priceToIndex(price)
  <2>2. PICK o \in FreeSlots :
          /\ pool_' = [pool_ EXCEPT ![o] = [id |-> id, side |-> side, price |-> price,
                                            quantity |-> quantity]]
          /\ levels_' = [levels_ EXCEPT ![side][idx] = Append(@, o)]
          /\ total_quantity_' = [total_quantity_ EXCEPT ![side][idx] = @ + quantity]
          /\ IF isEmpty(side, idx)
             THEN count_' = [count_ EXCEPT ![side] = @ + 1]
             ELSE UNCHANGED count_
          /\ total_orders_' = total_orders_ + 1
    BY <1>2 DEF addOrder
  <2>3. o \in Slots /\ o \notin Live
    BY DEF FreeSlots, Live
  <2>4. count_' = [count_ EXCEPT ![side] = IF isEmpty(side, idx) THEN @ + 1 ELSE @]
    BY <2>2 DEF BookOK, BookTypeOK
  <2>5. Enters(o, id, side, price, quantity)
    BY <2>1, <2>2, <2>3, <2>4 DEF Enters
  <2> QED
    BY <1>2, <2>3, <2>5
<1> QED
  BY <1>1, <1>2

LEMMA CancelLeaves ==
    ASSUME BookOK, NEW id \in OrderIds, orders_[id] # NULL, cancelOrder(id)
    PROVE  Leaves(orders_[id]) /\ orders_' = [orders_ EXCEPT ![id] = NULL]
<1> DEFINE o == orders_[id]
           side == pool_[o].side
           idx == priceToIndex(pool_[o].price)
           rest == unlink(levels_[side][idx], o)
<1>1. o \in Live /\ pool_[o] \in Order
  BY DEF BookOK, BookTypeOK, IndexesAgree, Live
<1>2. /\ pool_' = [pool_ EXCEPT ![o] = NULL]
      /\ levels_' = [levels_ EXCEPT ![side][idx] = rest]
      /\ total_quantity_' = [total_quantity_ EXCEPT ![side][idx] = @ - pool_[o].quantity]
      /\ IF rest = <<>> THEN count_' = [count_ EXCEPT ![side] = @ - 1] ELSE UNCHANGED count_
      /\ total_orders_' = total_orders_ - 1
      /\ orders_' = [orders_ EXCEPT ![id] = NULL]
  BY DEF cancelOrder
<1>3. count_' = [count_ EXCEPT ![side] = IF rest = <<>> THEN @ - 1 ELSE @]
  <2> HIDE DEF rest, side
  <2> QED
    BY <1>2 DEF BookOK, BookTypeOK
<1> QED
  BY <1>1, <1>2, <1>3 DEF Leaves

LEMMA ModifyResizes ==
    ASSUME BookOK, NEW id \in OrderIds, orders_[id] # NULL, NEW q \in Nat, modifyOrder(id, q)
    PROVE  Resizes(orders_[id], q) /\ UNCHANGED orders_
<1>1. orders_[id] \in Live
  BY DEF BookOK, IndexesAgree
<1> QED
  BY <1>1 DEF modifyOrder, Resizes

\* One fill of a sweep, of qty out of the oldest order of a level.
LEMMA FillEffect ==
    ASSUME BookOK, NEW side \in Side, NEW i \in Index, ~isEmpty(side, i), NEW qty \in Nat,
           qty <= pool_[getHead(side, i)].quantity,
           IF qty = pool_[getHead(side, i)].quantity
           THEN cancelOrder(pool_[getHead(side, i)].id)
           ELSE reduceQuantity(getHead(side, i), side, i, qty)
    PROVE  LET m == getHead(side, i) IN
           /\ m \in Live /\ At(m, side, i) /\ pool_[m].quantity \in Nat
           /\ \/ qty = pool_[m].quantity /\ Leaves(m)
              \/ qty # pool_[m].quantity /\ Resizes(m, pool_[m].quantity - qty)
<1> DEFINE m == getHead(side, i)
<1>1. /\ m \in Live /\ pool_[m] \in Order /\ pool_[m].side = side /\ orders_[pool_[m].id] = m
  BY HeadOfLevel
<1>2. m \in Range(levels_[side][i])
  <2>1. levels_[side][i] \in Seq(Slots) /\ levels_[side][i] # <<>>
    BY DEF BookOK, BookTypeOK, isEmpty
  <2> DEFINE list == levels_[side][i]
  <2> HIDE DEF list
  <2>2. Len(list) \in Nat \ {0} /\ DOMAIN list = 1 .. Len(list) /\ Head(list) = list[1]
    BY <2>1, LenProperties, EmptySeq, HeadTailProperties DEF list
  <2>3. 1 \in DOMAIN list
    BY <2>2
  <2> QED
    BY <2>2, <2>3 DEF Range, getHead, list
<1>3. At(m, side, i)
  BY <1>2 DEF BookOK, IndexesAgree, At
<1>4. pool_[m].quantity \in Nat /\ pool_[m].id \in OrderIds /\ m \in Slots /\ m # NULL
  BY <1>1, PoolAssumption DEF Order, Live
<1>5. CASE qty = pool_[m].quantity
  <2>1. cancelOrder(pool_[m].id)
    BY <1>5
  <2> HIDE DEF m
  <2>2. Leaves(m)
    BY <2>1, <1>1, <1>4, CancelLeaves
  <2> QED
    BY <2>2, <1>1, <1>3, <1>4, <1>5 DEF m
<1>6. CASE qty # pool_[m].quantity
  <2>1. reduceQuantity(m, side, i, qty)
    BY <1>6
  <2> HIDE DEF m
  <2> DEFINE q == pool_[m].quantity - qty
  <2>2. q \in Nat /\ q - pool_[m].quantity = -qty
    BY <1>4 DEF m
  <2>3. total_quantity_[side][i] - qty = total_quantity_[side][i] + (q - pool_[m].quantity)
    BY <2>2 DEF BookOK, BookTypeOK
  <2>4. /\ pool_' = [pool_ EXCEPT ![m].quantity = q]
        /\ UNCHANGED <<levels_, words_, best_idx_, count_, total_orders_>>
    BY <2>1 DEF reduceQuantity
  <2>5. total_quantity_' = [total_quantity_ EXCEPT ![side][i] = @ + (q - pool_[m].quantity)]
    <3>1. total_quantity_' = [total_quantity_ EXCEPT ![side][i] = @ - qty]
      BY <2>1 DEF reduceQuantity
    <3> HIDE DEF q
    <3> QED
      BY <3>1, <2>3
  <2>6. Resizes(m, q)
    BY <2>2, <2>4, <2>5, <1>1, <1>3 DEF Resizes, At
  <2> QED
    BY <2>6, <1>1, <1>3, <1>4, <1>6 DEF m
<1> QED
  BY <1>5, <1>6

-----------------------------------------------------------------------------
(* What they do to the pool, the levels and the sides.                     *)

OnSide(s) == {o \in Slots : pool_[o] # NULL /\ pool_[o].side = s}
Members(s, i) == Range(levels_[s][i])

\* The orders of a level and of a side are finitely many, with natural quantities.
LEMMA FiniteBook ==
    ASSUME BookOK
    PROVE  /\ SlotQuantity \in [Slots -> Nat] /\ IsFiniteSet(Live) /\ Live \subseteq Slots
           /\ \A o \in Live : SlotQuantity[o] = pool_[o].quantity /\ pool_[o] \in Order
           /\ \A s \in Side : /\ OnSide(s) \subseteq Live /\ IsFiniteSet(OnSide(s))
                              /\ Occupied(s) \subseteq Index /\ IsFiniteSet(Occupied(s))
           /\ \A s \in Side, i \in Index : /\ Members(s, i) = {o \in Live : At(o, s, i)}
                                           /\ IsFiniteSet(Members(s, i))
<1>1. pool_ \in [Slots -> Order \cup {NULL}] /\ NULL \notin Order /\ IsFiniteSet(Slots)
  BY PoolAssumption DEF BookOK, BookTypeOK
<1>2. \A r \in Order : r.quantity \in Nat
  BY DEF Order
<1>3. SlotQuantity \in [Slots -> Nat]
  BY <1>1, <1>2 DEF SlotQuantity
<1>4. Live \subseteq Slots /\ \A o \in Live : SlotQuantity[o] = pool_[o].quantity /\ pool_[o] \in Order
  BY <1>1 DEF Live, SlotQuantity
<1>5. IsFiniteSet(Live)
  BY <1>1, <1>4, FS_Subset
<1>6. ASSUME NEW s \in Side
      PROVE  /\ OnSide(s) \subseteq Live /\ IsFiniteSet(OnSide(s))
             /\ Occupied(s) \subseteq Index /\ IsFiniteSet(Occupied(s))
  <2>1. OnSide(s) \subseteq Live /\ Occupied(s) \subseteq Index
    BY DEF OnSide, Live, Occupied
  <2>2. IsFiniteSet(Index)
    BY LadderAssumption, FS_Interval DEF Index
  <2> QED
    BY <2>1, <2>2, <1>5, FS_Subset
<1>7. ASSUME NEW s \in Side, NEW i \in Index
      PROVE  Members(s, i) = {o \in Live : At(o, s, i)} /\ IsFiniteSet(Members(s, i))
  <2>1. Members(s, i) = {o \in Live : At(o, s, i)}
    BY DEF BookOK, IndexesAgree, Members, At
  <2>2. Members(s, i) \subseteq Live
    BY <2>1
  <2> QED
    BY <2>1, <2>2, <1>5, FS_Subset
<1> QED
  BY <1>3, <1>4, <1>5, <1>6, <1>7

\* What an addition leaves behind.
Entered(o, id, side, price, quantity) ==
    /\ o \in Slots /\ o \notin Live /\ side \in Side /\ priceToIndex(price) \in Index
    /\ quantity \in Nat /\ price \in MinPrice .. MaxPrice /\ id \in OrderIds
    /\ Live' = Live \cup {o}
    /\ pool_'[o] = [id |-> id, side |-> side, price |-> price, quantity |-> quantity]
    /\ pool_'[o] # NULL
    /\ \A x \in Live : pool_'[x] = pool_[x]
    /\ \A x \in Slots : SlotQuantity'[x] = IF x = o THEN quantity ELSE SlotQuantity[x]
    /\ \A s \in Side : OnSide(s)' = IF s = side THEN OnSide(s) \cup {o} ELSE OnSide(s)
    /\ \A s \in Side, i \in Index :
          levels_'[s][i] = IF s = side /\ i = priceToIndex(price)
                           THEN Append(levels_[s][i], o) ELSE levels_[s][i]
    /\ \A s \in Side, i \in Index :
          Members(s, i)' = IF s = side /\ i = priceToIndex(price)
                           THEN Members(s, i) \cup {o} ELSE Members(s, i)
    /\ \A s \in Side : Occupied(s)' = IF s = side THEN Occupied(s) \cup {priceToIndex(price)}
                                      ELSE Occupied(s)

LEMMA EnterFacts ==
    ASSUME BookOK, NEW o, NEW id, NEW side, NEW price, NEW quantity,
           Enters(o, id, side, price, quantity)
    PROVE  Entered(o, id, side, price, quantity)
<1> DEFINE idx == priceToIndex(price)
           rec == [id |-> id, side |-> side, price |-> price, quantity |-> quantity]
<1>1. /\ o \in Slots /\ o \notin Live /\ side \in Side /\ idx \in Index
      /\ quantity \in Nat /\ price \in MinPrice .. MaxPrice /\ id \in OrderIds
      /\ pool_' = [pool_ EXCEPT ![o] = rec]
      /\ levels_' = [levels_ EXCEPT ![side][idx] = Append(@, o)]
  BY DEF Enters
<1>2. rec.quantity = quantity /\ rec.side = side
  OBVIOUS
<1>3. rec # NULL
  <2>1. rec \in Order
    BY <1>1 DEF Order
  <2> QED
    BY <2>1, PoolAssumption
<1> HIDE DEF rec, idx
<1>4. /\ pool_'[o] = rec
      /\ \A x \in Slots \ {o} : pool_'[x] = pool_[x]
      /\ pool_[o] = NULL /\ Live \subseteq Slots
  BY <1>1 DEF BookOK, BookTypeOK, Live
<1>5. Live' = Live \cup {o} /\ \A x \in Live : pool_'[x] = pool_[x]
  BY <1>1, <1>3, <1>4 DEF Live
<1>6. \A x \in Slots : SlotQuantity'[x] = IF x = o THEN quantity ELSE SlotQuantity[x]
  BY <1>1, <1>2, <1>3, <1>4 DEF SlotQuantity
<1>7. \A s \in Side : OnSide(s)' = IF s = side THEN OnSide(s) \cup {o} ELSE OnSide(s)
  BY <1>1, <1>2, <1>3, <1>4 DEF OnSide
<1>8. \A s \in Side, i \in Index :
         /\ levels_'[s][i] = IF s = side /\ i = idx THEN Append(levels_[s][i], o) ELSE levels_[s][i]
         /\ levels_[s][i] \in Seq(Slots)
  BY <1>1 DEF BookOK, BookTypeOK
<1>9. \A s \in Side, i \in Index :
         /\ Append(levels_[s][i], o) # <<>>
         /\ Range(Append(levels_[s][i], o)) = Range(levels_[s][i]) \cup {o}
  BY <1>1, <1>8, AppendList
<1>10. \A s \in Side, i \in Index :
         Members(s, i)' = IF s = side /\ i = idx THEN Members(s, i) \cup {o} ELSE Members(s, i)
  BY <1>8, <1>9 DEF Members
<1>11. \A s \in Side : Occupied(s)' = IF s = side THEN Occupied(s) \cup {idx} ELSE Occupied(s)
  <2> SUFFICES ASSUME NEW s \in Side
               PROVE  Occupied(s)' = IF s = side THEN Occupied(s) \cup {idx} ELSE Occupied(s)
    OBVIOUS
  <2>1. Occupied(s)' = {i \in Index : levels_'[s][i] # <<>>}
    BY DEF Occupied
  <2>2. CASE s # side
    BY <2>1, <2>2, <1>8 DEF Occupied
  <2>3. CASE s = side
    <3>1. \A i \in Index : levels_'[s][i] # <<>> <=> levels_[s][i] # <<>> \/ i = idx
      BY <2>3, <1>8, <1>9
    <3> QED
      BY <3>1, <2>1, <2>3, <1>1 DEF Occupied
  <2> QED
    BY <2>2, <2>3
<1> QED
  BY <1>1, <1>3, <1>4, <1>5, <1>6, <1>7, <1>8, <1>10, <1>11 DEF idx, rec, Entered

LEMMA LeaveFacts ==
    ASSUME BookOK, NEW o, Leaves(o)
    PROVE  LET side == pool_[o].side
               idx == priceToIndex(pool_[o].price)
           IN  /\ o \in Live /\ o \in Slots /\ side \in Side /\ idx \in Index
               /\ Live' = Live \ {o} /\ pool_'[o] = NULL
               /\ \A x \in Slots \ {o} : pool_'[x] = pool_[x]
               /\ \A x \in Slots : SlotQuantity'[x] = IF x = o THEN 0 ELSE SlotQuantity[x]
               /\ \A s \in Side : OnSide(s)' = OnSide(s) \ {o}
               /\ \A s \in Side, i \in Index :
                     levels_'[s][i] = IF s = side /\ i = idx THEN unlink(levels_[s][i], o)
                                      ELSE levels_[s][i]
               /\ \A s \in Side, i \in Index : Members(s, i)' = Members(s, i) \ {o}
               /\ o \in Members(side, idx)
               /\ \A s \in Side : Occupied(s)' = IF s = side /\ unlink(levels_[side][idx], o) = <<>>
                                                 THEN Occupied(s) \ {idx} ELSE Occupied(s)
               /\ idx \in Occupied(side)
<1> DEFINE side == pool_[o].side
           idx == priceToIndex(pool_[o].price)
           rest == unlink(levels_[side][idx], o)
<1>1. /\ o \in Live
      /\ pool_' = [pool_ EXCEPT ![o] = NULL]
      /\ levels_' = [levels_ EXCEPT ![side][idx] = rest]
  BY DEF Leaves
<1>2. o \in Slots /\ pool_[o] \in Order
  BY <1>1 DEF BookOK, BookTypeOK, Live
<1>3. side \in Side /\ idx \in Index
  BY <1>2, LadderIndex DEF Order
<1> DEFINE list == levels_[side][idx]
<1>4. /\ list \in Seq(Slots) /\ IsInjective(list)
      /\ Range(list) = {x \in Live : pool_[x].side = side /\ priceToIndex(pool_[x].price) = idx}
  BY <1>3 DEF BookOK, BookTypeOK, IndexesAgree
<1>5. o \in Range(list)
  BY <1>1, <1>4
<1>6. rest \in Seq(Slots) /\ Range(rest) = Range(list) \ {o}
  BY <1>4, <1>5, UnlinkList
<1>7. list # <<>>
  BY <1>4, <1>5, EmptyList
<1>8. \A s \in Side, i \in Index : ~(s = side /\ i = idx) => o \notin Range(levels_[s][i])
  BY DEF BookOK, IndexesAgree
<1> HIDE DEF side, idx, rest, list
<1>9. /\ pool_'[o] = NULL /\ Live' = Live \ {o}
      /\ \A x \in Slots \ {o} : pool_'[x] = pool_[x]
  BY <1>1, <1>2 DEF BookOK, BookTypeOK, Live
<1>10. \A x \in Slots : SlotQuantity'[x] = IF x = o THEN 0 ELSE SlotQuantity[x]
  BY <1>2, <1>9 DEF SlotQuantity
<1>11. \A s \in Side : OnSide(s)' = OnSide(s) \ {o}
  BY <1>2, <1>9 DEF OnSide
<1>12. \A s \in Side, i \in Index :
         levels_'[s][i] = IF s = side /\ i = idx THEN rest ELSE levels_[s][i]
  BY <1>1, <1>3 DEF BookOK, BookTypeOK
<1>13. \A s \in Side, i \in Index : Members(s, i)' = Members(s, i) \ {o}
  BY <1>6, <1>8, <1>12 DEF Members, list
<1>14. \A s \in Side : Occupied(s)' = IF s = side /\ rest = <<>>
                                      THEN Occupied(s) \ {idx} ELSE Occupied(s)
  BY <1>3, <1>7, <1>12 DEF Occupied, list
<1>15. idx \in Occupied(side)
  BY <1>3, <1>7 DEF Occupied, list
<1>16. o \in Members(side, idx)
  BY <1>5 DEF list, Members
<1>17. \A s \in Side, i \in Index :
         levels_'[s][i] = IF s = side /\ i = idx THEN unlink(levels_[s][i], o) ELSE levels_[s][i]
  BY <1>12 DEF rest
<1>18. \A s \in Side : Occupied(s)' = IF s = side /\ unlink(levels_[side][idx], o) = <<>>
                                      THEN Occupied(s) \ {idx} ELSE Occupied(s)
  BY <1>14 DEF rest
<1> QED
  BY <1>1, <1>2, <1>3, <1>9, <1>10, <1>11, <1>13, <1>15, <1>16, <1>17, <1>18, Zenon DEF side, idx

LEMMA ResizeFacts ==
    ASSUME BookOK, NEW o, NEW q, Resizes(o, q)
    PROVE  /\ o \in Live /\ o \in Slots /\ q \in Nat /\ Live' = Live
           /\ pool_[o].side \in Side /\ priceToIndex(pool_[o].price) \in Index
           /\ pool_'[o] = [pool_[o] EXCEPT !.quantity = q] /\ pool_'[o] # NULL
           /\ pool_'[o].id = pool_[o].id /\ pool_'[o].quantity = q
           /\ \A x \in Slots \ {o} : pool_'[x] = pool_[x]
           /\ \A x \in Slots : SlotQuantity'[x] = IF x = o THEN q ELSE SlotQuantity[x]
           /\ \A s \in Side : OnSide(s)' = OnSide(s) /\ Occupied(s)' = Occupied(s)
           /\ \A s \in Side, i \in Index : Members(s, i)' = Members(s, i)
           /\ UNCHANGED <<levels_, words_, best_idx_, count_, total_orders_>>
<1> DEFINE rec == [pool_[o] EXCEPT !.quantity = q]
<1>1. /\ o \in Live /\ q \in Nat
      /\ pool_' = [pool_ EXCEPT ![o].quantity = q]
      /\ UNCHANGED <<levels_, words_, best_idx_, count_, total_orders_>>
  BY DEF Resizes
<1>2. o \in Slots /\ pool_[o] \in Order /\ pool_[o] # NULL
  BY <1>1 DEF BookOK, BookTypeOK, Live
<1>3. pool_[o].side \in Side /\ priceToIndex(pool_[o].price) \in Index
  BY <1>2, LadderIndex DEF Order
<1>4. /\ rec \in Order /\ rec.quantity = q /\ rec.side = pool_[o].side
      /\ rec.id = pool_[o].id /\ rec # NULL
  <2>1. rec \in Order /\ rec.quantity = q /\ rec.side = pool_[o].side /\ rec.id = pool_[o].id
    BY <1>1, <1>2 DEF Order
  <2> QED
    BY <2>1, PoolAssumption
<1>5. pool_'[o] = rec /\ \A x \in Slots \ {o} : pool_'[x] = pool_[x]
  BY <1>1, <1>2 DEF BookOK, BookTypeOK
<1> HIDE DEF rec
<1>6. Live' = Live /\ \A x \in Slots : SlotQuantity'[x] = IF x = o THEN q ELSE SlotQuantity[x]
  BY <1>2, <1>4, <1>5 DEF Live, SlotQuantity
<1>7. \A s \in Side : OnSide(s)' = OnSide(s)
  BY <1>2, <1>4, <1>5 DEF OnSide
<1>8. /\ \A s \in Side : Occupied(s)' = Occupied(s)
      /\ \A s \in Side, i \in Index : Members(s, i)' = Members(s, i)
  BY <1>1 DEF Occupied, Members
<1>9. pool_'[o].id = pool_[o].id /\ pool_'[o].quantity = q /\ pool_'[o] # NULL
  BY <1>4, <1>5
<1> QED
  BY <1>1, <1>2, <1>3, <1>5, <1>6, <1>7, <1>8, <1>9 DEF rec

-----------------------------------------------------------------------------
(* The counters.                                                           *)

\* CountersExact in the words of NumberLemmas.
Counted ==
    /\ \A s \in Side : count_[s] = Cardinality(Occupied(s))
    /\ total_orders_ = Cardinality(Live)
    /\ \A s \in Side, i \in Index : total_quantity_[s][i] = SumOver(SlotQuantity, Members(s, i))

LEMMA CountsAre == CountersExact <=> Counted
BY DEF CountersExact, Counted, SumOver, Members

LEMMA CountsAreNext == CountersExact' <=> Counted'
BY CountsAre, PTL

\* The sum over a set of slots is a natural number.
LEMMA SlotSum ==
    ASSUME BookOK, NEW S \in SUBSET Slots
    PROVE  IsFiniteSet(S) /\ SumOver(SlotQuantity, S) \in Nat
           /\ \A x \in S : SlotQuantity[x] \in Nat /\ SlotQuantity[x] \in Int
<1>1. IsFiniteSet(S)
  BY PoolAssumption, FS_Subset
<1>2. \A x \in S : SlotQuantity[x] \in Nat /\ SlotQuantity[x] \in Int
  BY FiniteBook
<1> QED
  BY <1>1, <1>2, SumType

\* A slot that is not in the set changes nothing of its sum.
LEMMA SumElsewhere ==
    ASSUME BookOK, NEW S \in SUBSET Slots, NEW o, o \notin S,
           \A x \in Slots \ {o} : SlotQuantity'[x] = SlotQuantity[x]
    PROVE  SumOver(SlotQuantity', S) = SumOver(SlotQuantity, S)
<1>1. IsFiniteSet(S) /\ \A x \in S : SlotQuantity'[x] = SlotQuantity[x]
  BY SlotSum
<1> QED
  BY <1>1, SumAgree

\* An order that enters a set of slots adds its quantity to the sum.
LEMMA SumEnter ==
    ASSUME BookOK, NEW S \in SUBSET Slots, NEW o \in Slots, o \notin S, NEW q \in Nat,
           \A x \in Slots : SlotQuantity'[x] = IF x = o THEN q ELSE SlotQuantity[x]
    PROVE  SumOver(SlotQuantity', S \cup {o}) = SumOver(SlotQuantity, S) + q
<1> DEFINE f == SlotQuantity'
<1>1. /\ IsFiniteSet(S) /\ f[o] = q /\ q \in Int /\ \A x \in S : f[x] \in Int
      /\ SumOver(SlotQuantity, S) \in Int
  BY SlotSum
<1>2. SumOver(f, S) = SumOver(SlotQuantity, S)
  BY SumElsewhere
<1> HIDE DEF f
<1>3. SumOver(f, S \cup {o}) = f[o] + SumOver(f, S)
  BY <1>1, SumAdd
<1>4. SumOver(f, S \cup {o}) = SumOver(SlotQuantity, S) + q
  BY <1>1, <1>2, <1>3
<1> QED
  BY <1>4 DEF f

\* An order that leaves a set of slots takes its quantity with it.
LEMMA SumLeave ==
    ASSUME BookOK, NEW S \in SUBSET Slots, NEW o \in S,
           \A x \in Slots \ {o} : SlotQuantity'[x] = SlotQuantity[x]
    PROVE  SumOver(SlotQuantity', S \ {o}) = SumOver(SlotQuantity, S) - SlotQuantity[o]
<1>1. /\ IsFiniteSet(S) /\ \A x \in S : SlotQuantity[x] \in Int
      /\ SumOver(SlotQuantity, S \ {o}) \in Int /\ SlotQuantity[o] \in Int
  BY SlotSum
<1>2. SumOver(SlotQuantity', S \ {o}) = SumOver(SlotQuantity, S \ {o})
  BY SumElsewhere
<1>3. SumOver(SlotQuantity, S) = SlotQuantity[o] + SumOver(SlotQuantity, S \ {o})
  BY <1>1, SumRemove
<1> QED
  BY <1>1, <1>2, <1>3

\* An order of the set changes its quantity and the sum by the difference.
LEMMA SumResize ==
    ASSUME BookOK, NEW S \in SUBSET Slots, NEW o \in S, NEW q \in Nat,
           \A x \in Slots : SlotQuantity'[x] = IF x = o THEN q ELSE SlotQuantity[x]
    PROVE  SumOver(SlotQuantity', S) = SumOver(SlotQuantity, S) + (q - SlotQuantity[o])
<1> DEFINE f == SlotQuantity'
<1>1. /\ IsFiniteSet(S) /\ \A x \in S : SlotQuantity[x] \in Int
      /\ f[o] = q /\ f[o] \in Int /\ \A x \in S \ {o} : f[x] = SlotQuantity[x]
  BY SlotSum
<1> HIDE DEF f
<1>2. SumOver(f, S) = SumOver(SlotQuantity, S) + (f[o] - SlotQuantity[o])
  BY <1>1, SumChange
<1> QED
  BY <1>1, <1>2 DEF f

\* addOrder counts the order, its quantity and, if it was empty, its level.
LEMMA EnterCounts ==
    ASSUME BookOK, CountersExact, NEW o, NEW id, NEW side, NEW price, NEW quantity,
           Enters(o, id, side, price, quantity)
    PROVE  CountersExact'
<1> DEFINE idx == priceToIndex(price)
<1>1. /\ o \in Slots /\ o \notin Live /\ side \in Side /\ idx \in Index /\ quantity \in Nat
      /\ Live' = Live \cup {o}
      /\ \A x \in Slots : SlotQuantity'[x] = IF x = o THEN quantity ELSE SlotQuantity[x]
      /\ \A s \in Side, i \in Index :
            Members(s, i)' = IF s = side /\ i = idx THEN Members(s, i) \cup {o} ELSE Members(s, i)
      /\ \A s \in Side : Occupied(s)' = IF s = side THEN Occupied(s) \cup {idx} ELSE Occupied(s)
  <2>1. Entered(o, id, side, price, quantity)
    BY EnterFacts
  <2> QED
    BY <2>1 DEF Entered
<1>2. Counted
  BY CountsAre
<1>3. /\ total_quantity_' = [total_quantity_ EXCEPT ![side][idx] = @ + quantity]
      /\ count_' = [count_ EXCEPT ![side] = IF isEmpty(side, idx) THEN @ + 1 ELSE @]
      /\ total_orders_' = total_orders_ + 1
  BY DEF Enters
<1> HIDE DEF idx
<1>4. total_orders_' = Cardinality(Live')
  BY <1>1, <1>2, <1>3, FiniteBook, FS_AddElement DEF Counted
<1>5. ASSUME NEW s \in Side
      PROVE  count_'[s] = Cardinality(Occupied(s)')
  <2>1. /\ count_[s] = Cardinality(Occupied(s)) /\ IsFiniteSet(Occupied(s))
        /\ count_ \in [Side -> Int]
    BY <1>2, FiniteBook DEF Counted, BookOK, BookTypeOK
  <2>2. CASE s # side
    BY <2>1, <2>2, <1>1, <1>3
  <2>3. CASE s = side
    <3>1. isEmpty(side, idx) <=> idx \notin Occupied(s)
      BY <1>1, <2>3 DEF isEmpty, Occupied
    <3>2. count_'[s] = IF idx \in Occupied(s) THEN count_[s] ELSE count_[s] + 1
      BY <3>1, <2>1, <2>3, <1>3
    <3>3. Occupied(s)' = Occupied(s) \cup {idx}
      BY <2>3, <1>1
    <3>4. Cardinality(Occupied(s) \cup {idx}) =
            IF idx \in Occupied(s) THEN Cardinality(Occupied(s)) ELSE Cardinality(Occupied(s)) + 1
      BY <2>1, FS_AddElement
    <3> QED
      BY <3>2, <3>3, <3>4, <2>1
  <2> QED
    BY <2>2, <2>3
<1>6. ASSUME NEW s \in Side, NEW i \in Index
      PROVE  total_quantity_'[s][i] = SumOver(SlotQuantity', Members(s, i)')
  <2>1. /\ Members(s, i) \in SUBSET Slots /\ o \notin Members(s, i)
        /\ total_quantity_[s][i] = SumOver(SlotQuantity, Members(s, i))
    BY <1>1, <1>2, FiniteBook DEF Counted
  <2>2. total_quantity_'[s][i] = IF s = side /\ i = idx THEN total_quantity_[s][i] + quantity
                                 ELSE total_quantity_[s][i]
    BY <1>1, <1>3 DEF BookOK, BookTypeOK
  <2>3. CASE s = side /\ i = idx
    <3>1. SumOver(SlotQuantity', Members(s, i) \cup {o}) =
            SumOver(SlotQuantity, Members(s, i)) + quantity
      BY <2>1, <1>1, SumEnter
    <3> QED
      BY <3>1, <2>1, <2>2, <2>3, <1>1
  <2>4. CASE ~(s = side /\ i = idx)
    <3>1. SumOver(SlotQuantity', Members(s, i)) = SumOver(SlotQuantity, Members(s, i))
      BY <2>1, <1>1, SumElsewhere
    <3> QED
      BY <3>1, <2>1, <2>2, <2>4, <1>1
  <2> QED
    BY <2>3, <2>4
<1> QED
  BY <1>4, <1>5, <1>6, CountsAreNext DEF Counted

\* cancelOrder takes the order, its quantity and, if it was the last, its level out.
LEMMA LeaveCounts ==
    ASSUME BookOK, CountersExact, NEW o, Leaves(o)
    PROVE  CountersExact'
<1> DEFINE side == pool_[o].side
           idx == priceToIndex(pool_[o].price)
           rest == unlink(levels_[side][idx], o)
<1>1. /\ o \in Live /\ o \in Slots /\ side \in Side /\ idx \in Index
      /\ Live' = Live \ {o}
      /\ \A x \in Slots \ {o} : SlotQuantity'[x] = SlotQuantity[x]
      /\ \A s \in Side, i \in Index : Members(s, i)' = Members(s, i) \ {o}
      /\ \A s \in Side : Occupied(s)' = IF s = side /\ rest = <<>>
                                        THEN Occupied(s) \ {idx} ELSE Occupied(s)
      /\ idx \in Occupied(side)
  BY LeaveFacts
<1>2. Counted /\ SlotQuantity[o] = pool_[o].quantity
  BY <1>1, CountsAre, FiniteBook
<1>3. /\ total_quantity_' = [total_quantity_ EXCEPT ![side][idx] = @ - pool_[o].quantity]
      /\ count_' = [count_ EXCEPT ![side] = IF rest = <<>> THEN @ - 1 ELSE @]
      /\ total_orders_' = total_orders_ - 1
  BY DEF Leaves
<1>4. \A s \in Side, i \in Index :
        /\ o \in Members(s, i) <=> s = side /\ i = idx
        /\ Members(s, i) \in SUBSET Slots
        /\ total_quantity_[s][i] = SumOver(SlotQuantity, Members(s, i))
  BY <1>1, <1>2, FiniteBook DEF At, Counted
<1> HIDE DEF side, idx, rest
<1>5. total_orders_' = Cardinality(Live')
  BY <1>1, <1>2, <1>3, FiniteBook, FS_RemoveElement DEF Counted
<1>6. ASSUME NEW s \in Side
      PROVE  count_'[s] = Cardinality(Occupied(s)')
  <2>1. /\ count_[s] = Cardinality(Occupied(s)) /\ IsFiniteSet(Occupied(s))
        /\ count_ \in [Side -> Int]
    BY <1>2, FiniteBook DEF Counted, BookOK, BookTypeOK
  <2>2. CASE s = side /\ rest = <<>>
    <3>1. count_'[s] = count_[s] - 1 /\ Occupied(s)' = Occupied(s) \ {idx} /\ idx \in Occupied(s)
      BY <2>1, <2>2, <1>1, <1>3
    <3>2. Cardinality(Occupied(s) \ {idx}) = Cardinality(Occupied(s)) - 1
      BY <3>1, <2>1, FS_RemoveElement
    <3> QED
      BY <3>1, <3>2, <2>1
  <2>3. CASE ~(s = side /\ rest = <<>>)
    <3>1. count_'[s] = count_[s] /\ Occupied(s)' = Occupied(s)
      BY <2>1, <2>3, <1>1, <1>3
    <3> QED
      BY <3>1, <2>1
  <2> QED
    BY <2>2, <2>3
<1>7. ASSUME NEW s \in Side, NEW i \in Index
      PROVE  total_quantity_'[s][i] = SumOver(SlotQuantity', Members(s, i)')
  <2>1. total_quantity_'[s][i] = IF s = side /\ i = idx THEN total_quantity_[s][i] - SlotQuantity[o]
                                 ELSE total_quantity_[s][i]
    BY <1>1, <1>2, <1>3 DEF BookOK, BookTypeOK
  <2>2. CASE s = side /\ i = idx
    <3>1. SumOver(SlotQuantity', Members(s, i) \ {o}) =
            SumOver(SlotQuantity, Members(s, i)) - SlotQuantity[o]
      BY <2>2, <1>1, <1>4, SumLeave
    <3> QED
      BY <3>1, <2>1, <2>2, <1>1, <1>4
  <2>3. CASE ~(s = side /\ i = idx)
    <3>1. o \notin Members(s, i) /\ Members(s, i) \ {o} = Members(s, i)
      BY <2>3, <1>4
    <3>2. SumOver(SlotQuantity', Members(s, i)) = SumOver(SlotQuantity, Members(s, i))
      BY <3>1, <1>1, <1>4, SumElsewhere
    <3> QED
      BY <3>1, <3>2, <2>1, <2>3, <1>1, <1>4
  <2> QED
    BY <2>2, <2>3
<1> QED
  BY <1>5, <1>6, <1>7, CountsAreNext DEF Counted

\* modifyOrder and a partial fill change one order and the total of its level alike.
LEMMA ResizeCounts ==
    ASSUME BookOK, CountersExact, NEW o, NEW q, Resizes(o, q)
    PROVE  CountersExact'
<1> DEFINE side == pool_[o].side
           idx == priceToIndex(pool_[o].price)
<1>1. /\ o \in Live /\ o \in Slots /\ q \in Nat /\ side \in Side /\ idx \in Index /\ Live' = Live
      /\ \A x \in Slots : SlotQuantity'[x] = IF x = o THEN q ELSE SlotQuantity[x]
      /\ \A s \in Side : Occupied(s)' = Occupied(s)
      /\ \A s \in Side, i \in Index : Members(s, i)' = Members(s, i)
      /\ UNCHANGED <<count_, total_orders_>>
  BY ResizeFacts
<1>2. Counted /\ SlotQuantity[o] = pool_[o].quantity
  BY <1>1, CountsAre, FiniteBook
<1>3. total_quantity_' = [total_quantity_ EXCEPT ![side][idx] = @ + (q - SlotQuantity[o])]
  BY <1>2 DEF Resizes
<1>4. \A s \in Side, i \in Index :
        /\ o \in Members(s, i) <=> s = side /\ i = idx
        /\ Members(s, i) \in SUBSET Slots
        /\ total_quantity_[s][i] = SumOver(SlotQuantity, Members(s, i))
  BY <1>1, <1>2, FiniteBook DEF At, Counted
<1> HIDE DEF side, idx
<1>5. ASSUME NEW s \in Side, NEW i \in Index
      PROVE  total_quantity_'[s][i] = SumOver(SlotQuantity', Members(s, i)')
  <2>1. total_quantity_'[s][i] = IF s = side /\ i = idx
                                 THEN total_quantity_[s][i] + (q - SlotQuantity[o])
                                 ELSE total_quantity_[s][i]
    BY <1>1, <1>3 DEF BookOK, BookTypeOK
  <2>2. CASE s = side /\ i = idx
    <3>1. SumOver(SlotQuantity', Members(s, i)) =
            SumOver(SlotQuantity, Members(s, i)) + (q - SlotQuantity[o])
      BY <2>2, <1>1, <1>4, SumResize
    <3> QED
      BY <3>1, <2>1, <2>2, <1>1, <1>4
  <2>3. CASE ~(s = side /\ i = idx)
    <3>1. SumOver(SlotQuantity', Members(s, i)) = SumOver(SlotQuantity, Members(s, i))
      BY <2>3, <1>1, <1>4, SumElsewhere
    <3> QED
      BY <3>1, <2>1, <2>3, <1>1, <1>4
  <2> QED
    BY <2>2, <2>3
<1>6. /\ \A s \in Side : count_'[s] = Cardinality(Occupied(s)')
      /\ total_orders_' = Cardinality(Live')
  BY <1>1, <1>2 DEF Counted
<1> QED
  BY <1>5, <1>6, CountsAreNext DEF Counted

-----------------------------------------------------------------------------
(* The steps of the loops that trade.                                      *)

\* The locals of the call in progress.
LEMMA CallFacts ==
    ASSUME Inv, op # Idle
    PROVE  /\ op \in CallInProgress /\ BookOK
           /\ op.side \in Side /\ Book \in Side /\ op.rem \in Nat /\ op.fill \in Int
           /\ op.filled \in Nat /\ op.quantity \in Nat /\ op.lvl \in Index \cup {-1}
           /\ op.limit \in Int /\ op.kind \in {"limit", "market", "exec"}
           /\ Index \subseteq Nat /\ best_idx_[Book] \in Index \cup {-1}
           /\ op.kind = "exec" => op.filled <= op.rem /\ op.fill <= op.rem
<1>1. op \in CallInProgress /\ BookOK
  BY DEF Inv, TypeOK, BookOK
<1>2. /\ op.side \in Side /\ op.rem \in Nat /\ op.fill \in Int
      /\ op.filled \in Nat /\ op.quantity \in Nat /\ op.lvl \in Index \cup {-1}
      /\ op.limit \in Int /\ op.kind \in {"limit", "market", "exec"}
  BY <1>1 DEF CallInProgress
<1>3. Book \in Side /\ Index \subseteq Nat
  BY <1>2, LadderAssumption DEF Book, Opposite, Side, Index
<1>4. best_idx_[Book] \in Index \cup {-1}
  BY <1>1, <1>3 DEF BookOK, BookTypeOK
<1> QED
  BY <1>1, <1>2, <1>3, <1>4 DEF Inv, CallOK

\* A fill takes qty from m, the oldest order at the level the call is working on.
Fills(m, qty) ==
    /\ op # Idle /\ op.lvl \in Index /\ ~isEmpty(Book, op.lvl)
    /\ m = getHead(Book, op.lvl) /\ m \in Live /\ At(m, Book, op.lvl)
    /\ pool_[m].quantity \in Nat /\ qty \in Nat /\ qty <= pool_[m].quantity
    /\ \/ qty = pool_[m].quantity /\ Leaves(m)
       \/ qty # pool_[m].quantity /\ Resizes(m, pool_[m].quantity - qty)

LEMMA MatchFills ==
    ASSUME Inv, MatchFill
    PROVE  \E m \in Live, qty \in Nat :
              /\ Fills(m, qty) /\ op.kind \in {"limit", "market"}
              /\ op.rem > 0 /\ qty = Lesser(op.rem, pool_[m].quantity) /\ qty <= op.rem
              /\ op' = [op EXCEPT !.rem = @ - qty] /\ avail' = avail
              /\ trades' = Append(trades, [price |-> indexToPrice(op.lvl), quantity |-> qty,
                                           makerId |-> pool_[m].id])
<1> DEFINE m == getHead(Book, op.lvl)
           qty == Lesser(op.rem, pool_[m].quantity)
<1>1. op # Idle /\ op.kind \in {"limit", "market"} /\ op.rem > 0 /\ ~isEmpty(Book, op.lvl)
  BY DEF MatchFill, Running, Idle
<1>2. BookOK /\ Book \in Side /\ op.lvl \in Index /\ op.rem \in Nat
  BY <1>1, CallFacts DEF MatchFill
<1>3. m \in Live /\ pool_[m].quantity \in Nat
  BY <1>1, <1>2, HeadOfLevel DEF Order
<1>4. qty \in Nat /\ qty <= pool_[m].quantity /\ qty <= op.rem
  BY <1>2, <1>3 DEF Lesser
<1>5. /\ IF qty = pool_[m].quantity THEN cancelOrder(pool_[m].id)
         ELSE reduceQuantity(m, Book, op.lvl, qty)
      /\ op' = [op EXCEPT !.rem = @ - qty] /\ avail' = avail
      /\ trades' = Append(trades, [price |-> indexToPrice(op.lvl), quantity |-> qty,
                                   makerId |-> pool_[m].id])
  BY DEF MatchFill
<1> HIDE DEF qty
<1>6. Fills(m, qty)
  BY <1>1, <1>2, <1>3, <1>4, <1>5, FillEffect DEF Fills
<1>7. qty = Lesser(op.rem, pool_[m].quantity)
  BY DEF qty
<1> HIDE DEF m
<1> QED
  BY <1>1, <1>3, <1>4, <1>5, <1>6, <1>7

LEMMA ExecFills ==
    ASSUME Inv, ExecFill
    PROVE  \E m \in Live, qty \in Nat :
              /\ Fills(m, qty) /\ op.kind = "exec" /\ op.filled < op.fill
              /\ qty = Lesser(pool_[m].quantity, op.fill - op.filled)
              /\ op.filled + qty <= op.fill
              /\ op' = [op EXCEPT !.filled = @ + qty] /\ UNCHANGED <<trades, avail>>
<1> DEFINE m == getHead(Book, op.lvl)
           qty == Lesser(pool_[m].quantity, op.fill - op.filled)
<1>1. op # Idle /\ op.kind = "exec" /\ op.filled < op.fill /\ ~isEmpty(Book, op.lvl)
  BY DEF ExecFill, Running, Idle
<1>2. BookOK /\ Book \in Side /\ op.lvl \in Index /\ op.fill \in Int /\ op.filled \in Nat
  BY <1>1, CallFacts DEF ExecFill
<1>3. m \in Live /\ pool_[m].quantity \in Nat
  BY <1>1, <1>2, HeadOfLevel DEF Order
<1>4. qty \in Nat /\ qty <= pool_[m].quantity /\ op.filled + qty <= op.fill
  BY <1>1, <1>2, <1>3 DEF Lesser
<1>5. /\ IF qty = pool_[m].quantity THEN cancelOrder(pool_[m].id)
         ELSE reduceQuantity(m, Book, op.lvl, qty)
      /\ op' = [op EXCEPT !.filled = @ + qty] /\ UNCHANGED <<trades, avail>>
  BY DEF ExecFill
<1> HIDE DEF qty
<1>6. Fills(m, qty)
  BY <1>1, <1>2, <1>3, <1>4, <1>5, FillEffect DEF Fills
<1>7. qty = Lesser(pool_[m].quantity, op.fill - op.filled)
  BY DEF qty
<1> HIDE DEF m
<1> QED
  BY <1>1, <1>3, <1>4, <1>5, <1>6, <1>7

\* Every step leaves the book alone or changes it in one of the three ways.
LEMMA BookSteps ==
    ASSUME Inv, [Next]_vars
    PROVE  \/ UNCHANGED bookVars
           \/ \E o, id, side, price, quantity :
                 Enters(o, id, side, price, quantity) /\ (quantity \in Quantities \/ quantity > 0)
           \/ \E o : Leaves(o)
           \/ \E o, q : Resizes(o, q) /\ (q \in Quantities \/ q > 0)
<1> USE RequestAssumption
<1>1. BookOK
  BY DEF Inv, TypeOK, BookOK
<1>2. ASSUME NEW side \in Side, NEW p \in Int, NEW q \in Nat, NEW id \in OrderIds,
             addOrder(side, p, q, id)
      PROVE  \/ UNCHANGED bookVars
             \/ \E o \in Slots : Enters(o, id, side, p, q)
  BY <1>1, <1>2, AddEnters
<1>3. ASSUME NEW id \in OrderIds, Cancel(id)
      PROVE  UNCHANGED bookVars \/ \E o : Leaves(o)
  <2>1. CASE orders_[id] = NULL
    BY <1>3, <2>1 DEF Cancel, cancelOrder
  <2>2. CASE orders_[id] # NULL
    BY <1>1, <1>3, <2>2, CancelLeaves DEF Cancel
  <2> QED
    BY <2>1, <2>2
<1>4. ASSUME NEW id \in OrderIds, NEW q \in Quantities, Modify(id, q)
      PROVE  UNCHANGED bookVars \/ \E o, r : Resizes(o, r) /\ r \in Quantities
  <2>1. CASE orders_[id] = NULL
    BY <1>4, <2>1 DEF Modify, modifyOrder
  <2>2. CASE orders_[id] # NULL
    <3>1. q \in Nat
      OBVIOUS
    <3>2. Resizes(orders_[id], q)
      BY <3>1, <1>1, <1>4, <2>2, ModifyResizes DEF Modify
    <3> QED
      BY <3>2
  <2> QED
    BY <2>1, <2>2
<1>5. ASSUME NEW m, NEW qty, Fills(m, qty)
      PROVE  (\E o : Leaves(o)) \/ \E o, q : Resizes(o, q) /\ q > 0
  <2>1. CASE Leaves(m)
    BY <2>1
  <2>2. CASE qty # pool_[m].quantity /\ Resizes(m, pool_[m].quantity - qty)
    <3>1. pool_[m].quantity - qty > 0
      BY <1>5, <2>2 DEF Fills
    <3> QED
      BY <2>2, <3>1
  <2> QED
    BY <1>5, <2>1, <2>2 DEF Fills
<1>6. CASE MatchReturn
  <2>1. CASE op.kind = "limit" /\ op.rem > 0
    <3>1. addOrder(op.side, op.limit, op.rem, op.taker) /\ op # Idle
      BY <1>6, <2>1 DEF MatchReturn, Idle
    <3>2. op.side \in Side /\ op.limit \in Int /\ op.rem \in Nat /\ op.taker \in OrderIds
      BY <3>1, <2>1, CallFacts DEF Inv, CallOK
    <3> QED
      BY <3>1, <3>2, <2>1, <1>2
  <2>2. CASE ~(op.kind = "limit" /\ op.rem > 0)
    BY <1>6, <2>2 DEF MatchReturn
  <2> QED
    BY <2>1, <2>2
<1>7. CASE Step
  <2>1. CASE MatchFill
    BY <2>1, <1>5, MatchFills
  <2>2. CASE ExecFill
    BY <2>2, <1>5, ExecFills
  <2>3. CASE MatchLevel \/ MatchLevelDone \/ ExecLevel \/ ExecLevelDone \/ ExecReturn
    BY <2>3 DEF MatchLevel, MatchLevelDone, ExecLevel, ExecLevelDone, ExecReturn
  <2> QED
    BY <1>6, <1>7, <2>1, <2>2, <2>3 DEF Step
<1>8. CASE Trading
  BY <1>3, <1>4, <1>8 DEF Trading, submitLimit, submitMarket, executeMarketOrder
<1>9. CASE Feeding
  BY <1>2, <1>9 DEF Feeding, AddAuto, Add
<1>10. CASE UNCHANGED vars
  BY <1>10 DEF vars
<1> QED
  BY <1>7, <1>8, <1>9, <1>10 DEF Next

\* The counters stay exact.
LEMMA NextCounts ==
    ASSUME Inv, CountersExact, [Next]_vars
    PROVE  CountersExact'
<1>1. BookOK
  BY DEF Inv, TypeOK, BookOK
<1>2. CASE UNCHANGED bookVars
  <2>1. /\ UNCHANGED <<count_, total_orders_, total_quantity_, SlotQuantity, Live>>
        /\ \A s \in Side : Occupied(s)' = Occupied(s)
        /\ \A s \in Side, i \in Index : Members(s, i)' = Members(s, i)
    BY <1>2 DEF bookVars, SlotQuantity, Live, Occupied, Members
  <2> QED
    BY <2>1, CountsAre, CountsAreNext DEF Counted
<1>3. ASSUME NEW o, NEW id, NEW side, NEW price, NEW quantity,
             Enters(o, id, side, price, quantity)
      PROVE  CountersExact'
  BY <1>1, <1>3, EnterCounts
<1>4. ASSUME NEW o, Leaves(o)
      PROVE  CountersExact'
  BY <1>1, <1>4, LeaveCounts
<1>5. ASSUME NEW o, NEW q, Resizes(o, q)
      PROVE  CountersExact'
  BY <1>1, <1>5, ResizeCounts
<1> QED
  BY <1>2, <1>3, <1>4, <1>5, BookSteps

LEMMA InitCounts == Init => CountersExact
<1> SUFFICES ASSUME Init
             PROVE  CountersExact
  OBVIOUS
<1>1. Live = {} /\ total_orders_ = 0
  BY DEF Init, Live
<1>2. \A s \in Side : Occupied(s) = {} /\ count_[s] = 0
  BY DEF Init, Occupied
<1>3. \A s \in Side, i \in Index : Members(s, i) = {} /\ total_quantity_[s][i] = 0
  <2>1. Range(<<>>) = {}
    BY DEF Range
  <2> QED
    BY <2>1 DEF Init, Members
<1> QED
  BY <1>1, <1>2, <1>3, SumEmpty, FS_EmptySet, CountsAre DEF Counted

\* orderbook.hpp: getBidLevelCount, getAskLevelCount, getTotalOrders and every level's
\* total_quantity_ are exact after any step of any call.
THEOREM CountersAlwaysExact ==
    ASSUME SeparateIds
    PROVE  Spec => []CountersExact
<1>1. Inv /\ CountersExact /\ [Next]_vars => CountersExact'
  BY NextCounts
<1> QED
  BY <1>1, BookInvariant, InitCounts, PTL DEF Spec

-----------------------------------------------------------------------------
(* A sweep stops for a reason.                                             *)

\* The calls return in three places.
LEMMA ReturnSteps ==
    ASSUME Inv, [Next]_vars, op # Idle, op' = Idle
    PROVE  MatchReturn \/ ExecReturn \/ (ExecLevelDone /\ op.filled = 0)
<1>1. op \in CallInProgress
  BY CallFacts
<1>2. ASSUME op' \in CallInProgress \/ op'.kind = op.kind
      PROVE  FALSE
  BY <1>1, <1>2 DEF CallInProgress, Idle
<1>3. CASE Trading \/ Feeding
  BY <1>3 DEF Trading, Feeding, submitLimit, submitMarket, executeMarketOrder, Cancel, Modify,
              AddAuto, Add
<1>4. CASE UNCHANGED vars
  BY <1>4 DEF vars, callVars
<1>5. CASE MatchLevel
  BY <1>1, <1>2, <1>5 DEF MatchLevel, CallInProgress
<1>6. CASE MatchFill
  BY <1>1, <1>2, <1>6 DEF MatchFill, CallInProgress
<1>7. CASE MatchLevelDone
  BY <1>1, <1>2, <1>7 DEF MatchLevelDone, CallInProgress
<1>8. CASE ExecLevel
  BY <1>1, <1>2, <1>8 DEF ExecLevel, CallInProgress
<1>9. CASE ExecFill
  BY <1>1, <1>2, <1>9 DEF ExecFill, CallInProgress
<1>10. CASE ExecLevelDone /\ op.filled # 0
  BY <1>1, <1>2, <1>10 DEF ExecLevelDone, CallInProgress
<1> QED
  BY <1>3, <1>4, <1>5, <1>6, <1>7, <1>8, <1>9, <1>10 DEF Next, Step

\* When the best level of a side does not cross a limit, no order of the side does.
LEMMA BestCrossesFirst ==
    ASSUME BookOK, NEW side \in Side, NEW limit \in Int, NEW o \in Live,
           pool_[o].side = Opposite(side),
           Crosses(side, priceToIndex(pool_[o].price), limit)
    PROVE  /\ best_idx_[Opposite(side)] >= 0
           /\ Crosses(side, best_idx_[Opposite(side)], limit)
<1> DEFINE s == Opposite(side)
           i == priceToIndex(pool_[o].price)
           b == best_idx_[s]
<1>1. s \in Side
  BY DEF Opposite, Side
<1>2. pool_[o] \in Order
  BY FiniteBook
<1>3. i \in Index
  BY <1>2, LadderIndex DEF Order
<1>4. o \in Range(levels_[s][i]) /\ levels_[s][i] \in Seq(Slots)
  BY <1>1, <1>3 DEF BookOK, BookTypeOK, IndexesAgree
<1>5. i \in Occupied(s)
  BY <1>3, <1>4, EmptyList DEF Occupied
<1>6. b \in Occupied(s) /\ (b = i \/ Better(s, b, i))
  BY <1>1, <1>5 DEF BookOK, BestIsBest, IsTouch
<1>7. b \in Nat /\ i \in Nat /\ MinPrice \in Int
  BY <1>3, <1>6, LadderAssumption DEF Occupied, Index
<1> HIDE DEF b, i
<1>8. CASE side = "BUY"
  <2>1. b <= i /\ MinPrice + i <= limit
    BY <1>6, <1>7, <1>8 DEF Better, Opposite, s, Crosses, indexToPrice, i
  <2> QED
    BY <2>1, <1>7, <1>8 DEF Crosses, indexToPrice, b
<1>9. CASE side = "SELL"
  <2>1. b >= i /\ MinPrice + i >= limit
    BY <1>6, <1>7, <1>9 DEF Better, Opposite, s, Crosses, indexToPrice, i
  <2> QED
    BY <2>1, <1>7, <1>9 DEF Crosses, indexToPrice, b
<1> QED
  BY <1>8, <1>9 DEF Side

\* orderbook.cpp, the outer loop of match: a limit or market order returns filled, or when
\* no resting order of the other side crosses its limit, wherever in the ladder it stands.
THEOREM SweepsComplete ==
    ASSUME SeparateIds
    PROVE  Spec => SweepComplete
<1> DEFINE Done == \/ op.rem = 0
                   \/ \A o \in Live : pool_[o].side = Book =>
                          ~Crosses(op.side, priceToIndex(pool_[o].price), op.limit)
<1>1. ASSUME Inv, [Next]_vars, Running({"limit", "market"}), op' = Idle
      PROVE  Done
  <2>1. op # Idle /\ op.kind # "exec"
    BY <1>1 DEF Running, Idle
  <2>2. MatchReturn
    BY <1>1, <2>1, ReturnSteps DEF ExecReturn, ExecLevelDone, Running
  <2>3. BookOK /\ op.side \in Side /\ op.limit \in Int /\ op.rem \in Nat
    BY <1>1, <2>1, CallFacts
  <2>4. op.rem = 0 \/ ~(best_idx_[Book] >= 0 /\ Crosses(op.side, best_idx_[Book], op.limit))
    BY <2>2, <2>3 DEF MatchReturn, OuterLoop
  <2> QED
    BY <2>3, <2>4, BestCrossesFirst DEF Book
<1>2. Inv /\ [Next]_vars => [Running({"limit", "market"}) /\ op' = Idle => Done]_vars
  BY <1>1
<1> QED
  BY <1>2, BookInvariant, PTL DEF Spec, SweepComplete

-----------------------------------------------------------------------------
(* Quantities.                                                             *)

LEMMA RestingIs == \A s \in Side : RestingQuantity(s) = SumOver(SlotQuantity, OnSide(s))
BY DEF RestingQuantity, SumOver, OnSide

LEMMA RestingIsNext == (\A s \in Side : RestingQuantity(s) = SumOver(SlotQuantity, OnSide(s)))'
BY RestingIs, PTL

LEMMA TradedIs == Traded = SumOver(TradeQuantity, DOMAIN trades)
BY DEF Traded, SumOver

LEMMA TradedIsNext == (Traded = SumOver(TradeQuantity, DOMAIN trades))'
BY TradedIs, PTL

LEMMA RestingSame ==
    ASSUME UNCHANGED bookVars, NEW s \in Side
    PROVE  RestingQuantity(s)' = RestingQuantity(s)
<1>1. UNCHANGED SlotQuantity /\ OnSide(s)' = OnSide(s)
  BY DEF bookVars, SlotQuantity, OnSide
<1>2. RestingQuantity(s)' = SumOver(SlotQuantity', OnSide(s)')
  BY RestingIsNext
<1> QED
  BY <1>1, <1>2, RestingIs

LEMMA RestingNat ==
    ASSUME BookOK, NEW s \in Side
    PROVE  RestingQuantity(s) \in Nat
<1>1. OnSide(s) \in SUBSET Slots
  BY DEF OnSide
<1> QED
  BY <1>1, SlotSum, RestingIs

\* A fill takes the same from the order, from the total of its level and from its side,
\* and empties levels but fills none.
LEMMA FillQuantities ==
    ASSUME BookOK, NEW s \in Side, s = Book, NEW i \in Index, i = op.lvl,
           NEW m, NEW qty, Fills(m, qty)
    PROVE  /\ RestingQuantity(s)' = RestingQuantity(s) - qty
           /\ total_quantity_'[s][i] = total_quantity_[s][i] - qty
           /\ \A t \in Side : Occupied(t)' \subseteq Occupied(t)
           /\ SlotQuantity[m] = pool_[m].quantity
<1>1. /\ m \in Live /\ pool_[m].side = s /\ priceToIndex(pool_[m].price) = i
      /\ pool_[m].quantity \in Nat /\ qty \in Nat
  BY DEF Fills, At
<1>2. SlotQuantity[m] = pool_[m].quantity /\ m \in Slots /\ m \in OnSide(s)
      /\ OnSide(s) \in SUBSET Slots
  BY <1>1, FiniteBook DEF OnSide, Live
<1>3. RestingQuantity(s)' = SumOver(SlotQuantity', OnSide(s)')
      /\ RestingQuantity(s) = SumOver(SlotQuantity, OnSide(s))
      /\ SumOver(SlotQuantity, OnSide(s)) \in Nat
  BY <1>2, RestingIs, RestingIsNext, SlotSum
<1>4. total_quantity_ \in [Side -> [Index -> Int]] /\ total_quantity_[s][i] \in Int
  BY DEF BookOK, BookTypeOK
<1>5. CASE qty = pool_[m].quantity /\ Leaves(m)
  <2>1. /\ \A x \in Slots \ {m} : SlotQuantity'[x] = SlotQuantity[x]
        /\ OnSide(s)' = OnSide(s) \ {m}
        /\ \A t \in Side : Occupied(t)' \subseteq Occupied(t)
    BY <1>5, LeaveFacts
  <2>2. SumOver(SlotQuantity', OnSide(s) \ {m}) = SumOver(SlotQuantity, OnSide(s)) - SlotQuantity[m]
    BY <2>1, <1>2, SumLeave
  <2>3. total_quantity_' = [total_quantity_ EXCEPT ![s][i] = @ - qty]
    BY <1>1, <1>5 DEF Leaves
  <2>4. total_quantity_'[s][i] = total_quantity_[s][i] - qty
    BY <2>3, <1>4
  <2> QED
    BY <2>1, <2>2, <2>4, <1>2, <1>3, <1>5
<1>6. CASE qty # pool_[m].quantity /\ Resizes(m, pool_[m].quantity - qty)
  <2> DEFINE q == pool_[m].quantity - qty
  <2>1. /\ q \in Nat
        /\ \A x \in Slots : SlotQuantity'[x] = IF x = m THEN q ELSE SlotQuantity[x]
        /\ OnSide(s)' = OnSide(s)
        /\ \A t \in Side : Occupied(t)' \subseteq Occupied(t)
    BY <1>6, ResizeFacts
  <2>2. total_quantity_' = [total_quantity_ EXCEPT ![s][i] = @ + (q - pool_[m].quantity)]
    BY <1>1, <1>6 DEF Resizes
  <2>3. q - pool_[m].quantity = -qty
    BY <1>1
  <2> HIDE DEF q
  <2>4. SumOver(SlotQuantity', OnSide(s)) = SumOver(SlotQuantity, OnSide(s)) + (q - SlotQuantity[m])
    BY <2>1, <1>2, SumResize
  <2>5. total_quantity_'[s][i] = total_quantity_[s][i] - qty
    BY <2>2, <2>3, <1>1, <1>4
  <2> QED
    BY <2>1, <2>3, <2>4, <2>5, <1>1, <1>2, <1>3
<1> QED
  BY <1>5, <1>6 DEF Fills

\* A trade that is recorded adds its quantity to what was traded.
LEMMA TradeRecorded ==
    ASSUME NEW S, trades \in Seq(S), \A k \in DOMAIN trades : trades[k].quantity \in Nat,
           NEW t, t.quantity \in Nat, trades' = Append(trades, t), t \in S
    PROVE  Traded' = Traded + t.quantity /\ Traded \in Nat
<1> DEFINE n == Len(trades)
           D == DOMAIN trades
           f == TradeQuantity
           g == TradeQuantity'
<1>1. n \in Nat /\ D = 1 .. n
  BY LenProperties
<1>2. /\ Len(trades') = n + 1 /\ DOMAIN trades' = 1 .. n + 1
      /\ \A k \in 1 .. n : trades'[k] = trades[k]
      /\ trades'[n + 1] = t
  BY AppendProperties, LenProperties
<1>3. DOMAIN trades' = D \cup {n + 1} /\ n + 1 \notin D /\ IsFiniteSet(D)
  <2> HIDE DEF n, D
  <2>1. 1 .. n + 1 = (1 .. n) \cup {n + 1} /\ n + 1 \notin 1 .. n
    BY <1>1
  <2>2. IsFiniteSet(D)
    BY <1>1, FS_Interval
  <2> QED
    BY <1>1, <1>2, <2>1, <2>2
<1>4. \A k \in D : f[k] = trades[k].quantity /\ f[k] \in Nat
  BY DEF TradeQuantity
<1>5. g[n + 1] = t.quantity /\ \A k \in D : g[k] = f[k]
  BY <1>1, <1>2, <1>3, <1>4 DEF TradeQuantity
<1>6. Traded = SumOver(f, D) /\ Traded' = SumOver(g, DOMAIN trades')
  BY TradedIs, TradedIsNext
<1> HIDE DEF n, D, f, g
<1>7. SumOver(f, D) \in Nat
  BY <1>3, <1>4, SumType
<1>8. SumOver(g, D) = SumOver(f, D)
  BY <1>3, <1>5, SumAgree
<1>9. SumOver(g, D \cup {n + 1}) = g[n + 1] + SumOver(g, D)
  <2>1. g[n + 1] \in Int /\ \A k \in D : g[k] \in Int
    BY <1>4, <1>5
  <2>2. n + 1 \notin D /\ IsFiniteSet(D)
    BY <1>3
  <2> DEFINE y == n + 1
  <2> HIDE DEF y
  <2> QED
    BY <2>1, <2>2, SumAdd DEF y
<1> QED
  BY <1>3, <1>5, <1>6, <1>7, <1>8, <1>9

LEMMA NothingTraded ==
    ASSUME trades = <<>>
    PROVE  Traded = 0
<1>1. DOMAIN trades = {}
  OBVIOUS
<1> QED
  BY <1>1, TradedIs, SumEmpty

LEMMA TradedSame ==
    ASSUME UNCHANGED trades
    PROVE  Traded' = Traded
<1>1. UNCHANGED TradeQuantity
  BY DEF TradeQuantity
<1> QED
  BY <1>1, TradedIs, TradedIsNext

-----------------------------------------------------------------------------
(* The locals of a call.                                                   *)

\* The call goes on: its arguments stay and its locals become these.
GoesOn(rem, lvl, fill, filled) ==
    /\ op # Idle /\ op' # Idle /\ op'.kind = op.kind /\ op'.side = op.side /\ op'.limit = op.limit
    /\ op'.quantity = op.quantity /\ op'.taker = op.taker
    /\ op'.rem = rem /\ op'.lvl = lvl /\ op'.fill = fill /\ op'.filled = filled
    /\ avail' = avail

\* A call begins.
Begins(kind, side, limit, quantity, taker) ==
    /\ op = Idle /\ op' # Idle /\ op'.kind = kind /\ op'.side = side /\ op'.limit = limit
    /\ op'.quantity = quantity /\ op'.taker = taker
    /\ op'.rem = quantity /\ op'.lvl = -1 /\ op'.fill = 0 /\ op'.filled = 0
    /\ avail' = RestingQuantity(Opposite(side))
    /\ UNCHANGED <<bookVars, trades>>

\* The limit of a market order: every price of the ladder meets it.
AnyPrice(side) == IF side = "BUY" THEN MaxPrice ELSE MinPrice

LEMMA StepRuns ==
    ASSUME Inv, Step
    PROVE  op # Idle /\ op \in CallInProgress
<1>1. op.kind \in {"limit", "market", "exec"}
  BY DEF Step, Running, MatchLevel, MatchFill, MatchLevelDone, MatchReturn,
         ExecLevel, ExecFill, ExecLevelDone, ExecReturn
<1>2. op # Idle
  BY <1>1 DEF Idle
<1> QED
  BY <1>2, CallFacts

\* A step of a call that goes on.
LEMMA LoopSteps ==
    ASSUME Inv, Step
    PROVE  \/ /\ MatchLevel /\ UNCHANGED <<bookVars, trades>>
              /\ GoesOn(op.rem, best_idx_[Book], op.fill, op.filled)
           \/ /\ MatchLevelDone /\ UNCHANGED <<bookVars, trades>>
              /\ GoesOn(op.rem, -1, op.fill, op.filled)
           \/ /\ ExecLevel /\ UNCHANGED <<bookVars, trades>>
              /\ GoesOn(op.rem, best_idx_[Book],
                        Lesser(op.rem, total_quantity_[Book][best_idx_[Book]]), 0)
           \/ /\ ExecLevelDone /\ op.filled # 0 /\ UNCHANGED <<bookVars, trades>>
              /\ GoesOn(op.rem - op.filled, -1, 0, 0)
           \/ MatchFill /\ \E m \in Live, qty \in Nat :
                 /\ Fills(m, qty) /\ op.kind \in {"limit", "market"}
                 /\ op.rem > 0 /\ qty = Lesser(op.rem, pool_[m].quantity) /\ qty <= op.rem
                 /\ GoesOn(op.rem - qty, op.lvl, op.fill, op.filled)
                 /\ trades' = Append(trades, [price |-> indexToPrice(op.lvl), quantity |-> qty,
                                              makerId |-> pool_[m].id])
           \/ ExecFill /\ \E m \in Live, qty \in Nat :
                 /\ Fills(m, qty) /\ op.kind = "exec" /\ op.filled < op.fill
                 /\ qty = Lesser(pool_[m].quantity, op.fill - op.filled)
                 /\ op.filled + qty <= op.fill
                 /\ GoesOn(op.rem, op.lvl, op.fill, op.filled + qty) /\ UNCHANGED trades
           \/ /\ op' = Idle /\ trades' = <<>>
              /\ MatchReturn \/ ExecReturn \/ (ExecLevelDone /\ op.filled = 0)
<1>1. op # Idle /\ op \in CallInProgress
  BY StepRuns
<1>2. op.kind # "idle"
  BY <1>1 DEF CallInProgress
<1>3. \A x : x.kind = op.kind => x # Idle
  BY <1>2 DEF Idle
<1>4. CASE MatchLevel
  BY <1>1, <1>3, <1>4 DEF MatchLevel, CallInProgress, GoesOn
<1>5. CASE MatchLevelDone
  BY <1>1, <1>3, <1>5 DEF MatchLevelDone, CallInProgress, GoesOn
<1>6. CASE ExecLevel
  <2> DEFINE f == Lesser(op.rem, total_quantity_[Book][best_idx_[Book]])
             b == best_idx_[Book]
  <2>1. /\ op' = [op EXCEPT !.lvl = b, !.fill = f, !.filled = 0]
        /\ UNCHANGED <<bookVars, trades, avail>>
    BY <1>6 DEF ExecLevel
  <2> HIDE DEF f, b
  <2>2. GoesOn(op.rem, b, f, 0)
    BY <1>1, <1>3, <2>1 DEF CallInProgress, GoesOn
  <2> QED
    BY <1>6, <2>1, <2>2 DEF f, b
<1>7. CASE ExecLevelDone /\ op.filled # 0
  <2> DEFINE r == op.rem - op.filled
  <2>1. /\ op' = [op EXCEPT !.rem = r, !.lvl = -1, !.fill = 0, !.filled = 0]
        /\ UNCHANGED <<bookVars, trades, avail>>
    BY <1>7 DEF ExecLevelDone
  <2> HIDE DEF r
  <2>2. GoesOn(r, -1, 0, 0)
    BY <1>1, <1>3, <2>1 DEF CallInProgress, GoesOn
  <2> QED
    BY <1>7, <2>1, <2>2 DEF r
<1>8. CASE MatchFill
  <2>1. PICK m \in Live, qty \in Nat :
              /\ Fills(m, qty) /\ op.kind \in {"limit", "market"}
              /\ op.rem > 0 /\ qty = Lesser(op.rem, pool_[m].quantity) /\ qty <= op.rem
              /\ op' = [op EXCEPT !.rem = @ - qty] /\ avail' = avail
              /\ trades' = Append(trades, [price |-> indexToPrice(op.lvl), quantity |-> qty,
                                           makerId |-> pool_[m].id])
    BY <1>8, MatchFills
  <2>2. GoesOn(op.rem - qty, op.lvl, op.fill, op.filled)
    BY <1>1, <1>3, <2>1 DEF CallInProgress, GoesOn
  <2> QED
    BY <1>8, <2>1, <2>2
<1>9. CASE ExecFill
  <2>1. PICK m \in Live, qty \in Nat :
              /\ Fills(m, qty) /\ op.kind = "exec" /\ op.filled < op.fill
              /\ qty = Lesser(pool_[m].quantity, op.fill - op.filled)
              /\ op.filled + qty <= op.fill
              /\ op' = [op EXCEPT !.filled = @ + qty] /\ UNCHANGED <<trades, avail>>
    BY <1>9, ExecFills
  <2>2. GoesOn(op.rem, op.lvl, op.fill, op.filled + qty)
    BY <1>1, <1>3, <2>1 DEF CallInProgress, GoesOn
  <2> QED
    BY <1>9, <2>1, <2>2
<1>10. CASE MatchReturn \/ ExecReturn \/ (ExecLevelDone /\ op.filled = 0)
  BY <1>10 DEF MatchReturn, ExecReturn, ExecLevelDone, Return
<1> QED
  BY <1>4, <1>5, <1>6, <1>7, <1>8, <1>9, <1>10 DEF Step

\* A step that is not one of a call in progress begins one or leaves the caller's thread idle.
LEMMA CallerSteps ==
    ASSUME Trading \/ Feeding
    PROVE  \/ op = Idle /\ UNCHANGED callVars
           \/ \E side \in Side, p \in Prices, q \in Quantities, id \in OrderIds :
                 orders_[id] = NULL /\ Begins("limit", side, p, q, id)
           \/ \E side \in Side, q \in Quantities, kind \in {"market", "exec"} :
                 Begins(kind, side, AnyPrice(side), q, NULL)
<1>1. ASSUME NEW kind \in {"limit", "market", "exec"}, NEW side, NEW limit, NEW q, NEW taker,
             op = Idle, Call(kind, side, limit, q, taker), UNCHANGED <<bookVars, trades>>
      PROVE  Begins(kind, side, limit, q, taker)
  <2>1. op' = [kind |-> kind, side |-> side, limit |-> limit, quantity |-> q,
               rem |-> q, taker |-> taker, lvl |-> -1, fill |-> 0, filled |-> 0]
    BY <1>1 DEF Call
  <2>2. op'.kind = kind /\ op' # Idle
    BY <2>1 DEF Idle
  <2> QED
    BY <1>1, <2>1, <2>2 DEF Begins, Call
<1>2. ASSUME NEW side \in Side, NEW p \in Prices, NEW q \in Quantities, NEW id \in OrderIds,
             submitLimit(side, p, q, id)
      PROVE  orders_[id] = NULL /\ Begins("limit", side, p, q, id)
  BY <1>1, <1>2 DEF submitLimit, Unused
<1>3. ASSUME NEW side \in Side, NEW q \in Quantities, submitMarket(side, q)
      PROVE  Begins("market", side, AnyPrice(side), q, NULL)
  BY <1>1, <1>3 DEF submitMarket, AnyPrice
<1>4. ASSUME NEW side \in Side, NEW q \in Quantities, executeMarketOrder(side, q)
      PROVE  Begins("exec", side, AnyPrice(side), q, NULL)
  BY <1>1, <1>4 DEF executeMarketOrder, AnyPrice
<1>5. CASE Feeding
  BY <1>5 DEF Feeding, AddAuto, Add
<1>6. CASE Trading
  BY <1>2, <1>3, <1>4, <1>6 DEF Trading, Cancel, Modify
<1> QED
  BY <1>5, <1>6

\* What the loops of a call keep true of its locals: the level that is worked on crosses the
\* limit and is the best one for as long as it holds an order, and executeMarketOrder never
\* plans to take more than the level has, nor less than it could.
CallTight ==
    /\ op = Idle => trades = <<>>
    /\ op # Idle =>
         /\ op.kind = "limit" => op.limit \in Prices
         /\ op.kind # "limit" => op.limit = AnyPrice(op.side) /\ op.taker = NULL
         /\ op.kind # "exec" \/ op.lvl < 0 => op.fill = 0 /\ op.filled = 0
         /\ op.lvl >= 0 => /\ Crosses(op.side, op.lvl, op.limit)
                           /\ ~isEmpty(Book, op.lvl) => op.lvl = best_idx_[Book]
         /\ op.lvl >= 0 /\ op.kind = "exec" =>
              /\ op.rem > 0
              /\ op.fill - op.filled <= total_quantity_[Book][op.lvl]
              /\ \/ op.fill = op.rem
                 \/ op.fill - op.filled = total_quantity_[Book][op.lvl]
              /\ op.fill = 0 => ~isEmpty(Book, op.lvl)

\* The best level stays the best while levels are only emptied and it is not.
LEMMA BestStays ==
    ASSUME BookOK, BookOK', NEW s \in Side, NEW i \in Index, best_idx_[s] = i,
           Occupied(s)' \subseteq Occupied(s), levels_'[s][i] # <<>>
    PROVE  best_idx_'[s] = i
<1> DEFINE b == best_idx_'[s]
           A == Occupied(s)
           B == Occupied(s)'
<1>1. /\ IsTouch(s, i, A) /\ i \in A
  BY DEF BookOK, BestIsBest, Occupied, isEmpty
<1>2. i \in B
  BY DEF Occupied
<1>3. b \in B /\ \A j \in B \ {b} : Better(s, b, j)
  BY <1>2 DEF BookOK, BestIsBest, IsTouch
<1>4. \A j \in A \ {i} : Better(s, i, j)
  BY <1>1 DEF IsTouch
<1>5. b \in Int /\ i \in Int
  BY <1>3, LadderAssumption DEF Occupied, Index
<1> HIDE DEF b, A, B
<1>6. ASSUME b # i PROVE FALSE
  <2>1. Better(s, b, i) /\ Better(s, i, b)
    BY <1>2, <1>3, <1>4, <1>6 DEF A, B
  <2> QED
    BY <2>1, <1>5 DEF Better
<1> QED
  BY <1>6 DEF b

\* The level that is worked on after a fill.
LEMMA FillKeepsLevel ==
    ASSUME Inv, Inv', NEW s \in Side, s = Book, NEW m, NEW qty, Fills(m, qty), CallTight,
           levels_'[s][op.lvl] # <<>>
    PROVE  op.lvl = best_idx_'[s]
<1>1. op # Idle /\ op.lvl \in Index /\ ~isEmpty(s, op.lvl) /\ op.lvl >= 0
  BY LadderAssumption DEF Fills, Index
<1>2. op.lvl = best_idx_[s]
  BY <1>1 DEF CallTight
<1>3. BookOK /\ BookOK'
  BY DEF Inv, TypeOK, BookOK
<1>4. Occupied(s)' \subseteq Occupied(s)
  BY <1>1, <1>3, FillQuantities
<1> DEFINE i == op.lvl
<1>5. i \in Index /\ best_idx_[s] = i
  BY <1>1, <1>2
<1>6. levels_'[s][i] # <<>>
  OBVIOUS
<1> HIDE DEF i
<1> QED
  BY <1>3, <1>4, <1>5, <1>6, BestStays DEF i

\* A fill keeps the locals as they have to be.
LEMMA FillKeepsTight ==
    ASSUME Inv, Inv', CallTight, NEW m, NEW qty, Fills(m, qty), NEW r, NEW d,
           GoesOn(r, op.lvl, op.fill, d),
           op.kind # "exec" => d = op.filled,
           op.kind = "exec" => r = op.rem /\ op.filled < op.fill /\ d = op.filled + qty
    PROVE  CallTight'
<1> DEFINE s == Book
           i == op.lvl
<1>1. /\ op # Idle /\ op.lvl \in Index /\ op.lvl >= 0 /\ op.lvl \in Int /\ qty \in Nat
      /\ ~isEmpty(Book, op.lvl)
  BY LadderAssumption DEF Fills, Index
<1>2. /\ s \in Side /\ BookOK /\ op.rem \in Nat /\ op.fill \in Int /\ op.filled \in Nat
  BY <1>1, CallFacts
<1>3. /\ op' # Idle /\ op'.kind = op.kind /\ op'.side = op.side /\ op'.limit = op.limit
      /\ op'.taker = op.taker
      /\ op'.rem = r /\ op'.lvl = i /\ op'.fill = op.fill /\ op'.filled = d
  BY DEF GoesOn
<1>4. Book' = s
  BY <1>3 DEF Book
<1>5. levels_'[s][i] # <<>> => i = best_idx_'[s]
  BY <1>2, FillKeepsLevel
<1>6. total_quantity_'[s][i] = total_quantity_[s][i] - qty /\ total_quantity_[s][i] \in Int
  <2>1. total_quantity_[s][i] \in Int
    BY <1>1, <1>2 DEF BookOK, BookTypeOK
  <2>2. s = Book /\ i = op.lvl /\ i \in Index
    BY <1>1
  <2> HIDE DEF s, i
  <2> QED
    BY <1>2, <2>1, <2>2, FillQuantities
<1>7. Crosses(op.side, i, op.limit) = Crosses(op'.side, op'.lvl, op'.limit) /\ i \in Nat
  BY <1>1, <1>3, LadderAssumption DEF Index
<1>8. /\ op.kind = "limit" => op.limit \in Prices
      /\ op.kind # "limit" => op.limit = AnyPrice(op.side) /\ op.taker = NULL
      /\ op.kind # "exec" => op.fill = 0 /\ op.filled = 0
      /\ Crosses(op.side, i, op.limit)
      /\ op.kind = "exec" =>
              /\ op.rem > 0
              /\ op.fill - op.filled <= total_quantity_[s][i]
              /\ op.fill = op.rem \/ op.fill - op.filled = total_quantity_[s][i]
  BY <1>1 DEF CallTight
<1> HIDE DEF s, i
<1>9. op.kind = "exec" => /\ op.fill - d <= total_quantity_'[s][i]
                          /\ op.fill = r \/ op.fill - d = total_quantity_'[s][i]
                          /\ op.fill # 0
  BY <1>1, <1>2, <1>6, <1>8
<1>10. Crosses(op'.side, op'.lvl, op'.limit) = Crosses(op.side, op.lvl, op.limit)'
  BY DEF Crosses, indexToPrice
<1> QED
  BY <1>3, <1>4, <1>5, <1>7, <1>8, <1>9, <1>10 DEF CallTight, isEmpty, AnyPrice

LEMMA NextTight ==
    ASSUME Inv, Inv', CallTight, [Next]_vars
    PROVE  CallTight'
<1> USE DEF AnyPrice
<1>1. ASSUME op' = Idle, trades' = <<>>
      PROVE  CallTight'
  BY <1>1 DEF CallTight
<1>2. ASSUME op = Idle, UNCHANGED callVars
      PROVE  CallTight'
  BY <1>2 DEF CallTight, callVars
<1>3. ASSUME NEW side, NEW p \in Prices, NEW q, NEW id, Begins("limit", side, p, q, id)
      PROVE  CallTight'
  BY <1>3 DEF Begins, CallTight
<1>4. ASSUME NEW side, NEW q, NEW kind \in {"market", "exec"},
             Begins(kind, side, AnyPrice(side), q, NULL)
      PROVE  CallTight'
  BY <1>4 DEF Begins, CallTight
<1>5. CASE UNCHANGED vars
  BY <1>5 DEF vars, callVars, bookVars, CallTight, Book, isEmpty
<1>6. CASE Trading \/ Feeding
  BY <1>2, <1>3, <1>4, <1>6, CallerSteps
\* A step of a call that moves to the best level or leaves the level it was on.
<1>7. ASSUME op # Idle, UNCHANGED bookVars, op.lvl < 0, NEW f \in Int,
             OuterLoop, Crosses(op.side, best_idx_[Book], op.limit),
             GoesOn(op.rem, best_idx_[Book], f, 0),
             op.kind # "exec" => f = 0,
             op.kind = "exec" => f = Lesser(op.rem, total_quantity_[Book][best_idx_[Book]])
      PROVE  CallTight'
  <2> DEFINE b == best_idx_[Book]
             total == total_quantity_[Book][b]
  <2>1. BookOK /\ op.rem \in Nat /\ b \in Index /\ op.rem > 0 /\ b >= 0 /\ Book \in Side
    BY <1>7, CallFacts DEF OuterLoop
  <2>2. total \in Int
    BY <2>1 DEF BookOK, BookTypeOK
  <2>3. levels_[Book][b] # <<>>
    BY <2>1, LadderAssumption DEF BookOK, BestIsBest, IsTouch, Occupied, Index
  <2>4. Book' = Book /\ best_idx_'[Book] = b /\ levels_'[Book][b] # <<>>
        /\ total_quantity_'[Book][b] = total
    BY <1>7, <2>3 DEF GoesOn, Book, bookVars
  <2>5. op.kind = "exec" => f <= total /\ (f = op.rem \/ f = total)
    <3> HIDE DEF total
    <3>1. op.kind = "exec" => f = Lesser(op.rem, total)
      BY <1>7 DEF total
    <3> QED
      BY <3>1, <2>1, <2>2 DEF Lesser
  <2>6. /\ op' # Idle /\ op'.kind = op.kind /\ op'.side = op.side /\ op'.limit = op.limit
        /\ op'.taker = op.taker
        /\ op'.rem = op.rem /\ op'.lvl = b /\ op'.fill = f /\ op'.filled = 0
    BY <1>7 DEF GoesOn
  <2>7. Crosses(op.side, op.lvl, op.limit)' /\ b \in Nat
    BY <1>7, <2>1, <2>6, LadderAssumption DEF Crosses, indexToPrice, Index
  <2> HIDE DEF b, total
  <2> QED
    BY <1>7, <2>1, <2>2, <2>4, <2>5, <2>6, <2>7 DEF CallTight, isEmpty
<1>8. ASSUME op # Idle, NEW r, GoesOn(r, -1, 0, 0)
      PROVE  CallTight'
  BY <1>8 DEF CallTight, GoesOn
<1>9. CASE Step
  <2>1. op # Idle /\ op \in CallInProgress
    BY <1>9, StepRuns
  <2>2. CASE MatchLevel /\ UNCHANGED bookVars /\ GoesOn(op.rem, best_idx_[Book], op.fill, op.filled)
    <3>1. op.kind # "exec" /\ op.fill = 0 /\ op.filled = 0
      BY <2>1, <2>2 DEF MatchLevel, Running, CallTight
    <3> QED
      BY <3>1, <2>1, <2>2, <1>7 DEF MatchLevel
  <2>3. CASE MatchLevelDone /\ UNCHANGED bookVars /\ GoesOn(op.rem, -1, op.fill, op.filled)
    <3>1. op.kind # "exec" /\ op.fill = 0 /\ op.filled = 0
      BY <2>1, <2>3 DEF MatchLevelDone, Running, CallTight
    <3> QED
      BY <3>1, <2>1, <2>3, <1>8
  <2>4. CASE ExecLevel /\ UNCHANGED bookVars
             /\ GoesOn(op.rem, best_idx_[Book], Lesser(op.rem, total_quantity_[Book][best_idx_[Book]]), 0)
    <3> DEFINE b == best_idx_[Book]
               f == Lesser(op.rem, total_quantity_[Book][b])
    <3>1. op.kind = "exec" /\ op.lvl < 0 /\ OuterLoop
      BY <2>4 DEF ExecLevel, Running
    <3>2. b \in Index /\ op.rem \in Nat /\ Book \in Side /\ BookOK
      BY <2>1, <3>1, CallFacts DEF OuterLoop
    <3>3. total_quantity_[Book][b] \in Int
      BY <3>2 DEF BookOK, BookTypeOK
    <3>4. f \in Int
      BY <3>2, <3>3 DEF Lesser
    <3>5. Crosses(op.side, b, op.limit)
      <4>1. op.limit = AnyPrice(op.side)
        BY <2>1, <3>1 DEF CallTight
      <4>2. MinPrice + b <= MaxPrice /\ MinPrice + b >= MinPrice
        BY <3>2, LadderAssumption DEF Index
      <4> QED
        BY <4>1, <4>2 DEF Crosses, indexToPrice
    <3> QED
      BY <3>1, <3>4, <3>5, <2>1, <2>4, <1>7
  <2>5. CASE ExecLevelDone /\ GoesOn(op.rem - op.filled, -1, 0, 0)
    BY <2>1, <2>5, <1>8
  <2>6. ASSUME NEW m, NEW qty \in Nat, Fills(m, qty), op.kind \in {"limit", "market"},
               GoesOn(op.rem - qty, op.lvl, op.fill, op.filled)
        PROVE  CallTight'
    <3>1. op.kind # "exec"
      BY <2>6
    <3> QED
      BY <3>1, <2>6, FillKeepsTight
  <2>7. ASSUME NEW m, NEW qty \in Nat, Fills(m, qty), op.kind = "exec", op.filled < op.fill,
               GoesOn(op.rem, op.lvl, op.fill, op.filled + qty)
        PROVE  CallTight'
    BY <2>7, FillKeepsTight
  <2> QED
    BY <1>1, <1>9, <2>2, <2>3, <2>4, <2>5, <2>6, <2>7, LoopSteps
<1> QED
  BY <1>5, <1>6, <1>9 DEF Next

\* The locals of every call stay as they have to be.
LEMMA CallsTight ==
    ASSUME SeparateIds
    PROVE  Spec => []CallTight
<1>1. Init => CallTight
  BY DEF Init, CallTight
<1>2. Inv /\ Inv' /\ CallTight /\ [Next]_vars => CallTight'
  BY NextTight
<1> QED
  BY <1>1, <1>2, BookInvariant, PTL DEF Spec

-----------------------------------------------------------------------------
(* No quantity is created or lost in a sweep.                              *)

\* QuantityConserved with the book's side as a constant of the call.
Conserved ==
    \A s \in Side : s = Book =>
        /\ op.kind \in {"limit", "market"} => /\ RestingQuantity(s) + Traded = avail
                                              /\ op.rem + Traded = op.quantity
        /\ op.kind = "exec" => RestingQuantity(s) + (op.quantity - op.rem) + op.filled = avail

LEMMA ConservedIs == Inv => (QuantityConserved <=> Conserved)
<1> SUFFICES ASSUME Inv PROVE QuantityConserved <=> Conserved
  OBVIOUS
<1>1. CASE op = Idle
  BY <1>1 DEF QuantityConserved, Conserved, Running, Idle
<1>2. CASE op # Idle
  <2>1. Book \in Side
    BY <1>2, CallFacts
  <2> QED
    BY <2>1 DEF QuantityConserved, Conserved, Running
<1> QED
  BY <1>1, <1>2

LEMMA ConservedIsNext == Inv' => (QuantityConserved' <=> Conserved')
BY ConservedIs, PTL

LEMMA NextConserves ==
    ASSUME Inv, Inv', CallTight, QuantityConserved, [Next]_vars
    PROVE  QuantityConserved'
<1> SUFFICES ASSUME NEW s \in Side, s = Book'
             PROVE  /\ op'.kind \in {"limit", "market"} => /\ RestingQuantity(s)' + Traded' = avail'
                                                           /\ op'.rem + Traded' = op'.quantity
                    /\ op'.kind = "exec" =>
                         RestingQuantity(s)' + (op'.quantity - op'.rem) + op'.filled = avail'
  BY ConservedIsNext DEF Conserved
<1>1. CASE op' = Idle
  BY <1>1 DEF Idle
<1>2. ASSUME NEW kind, NEW side \in Side, NEW limit, NEW q \in Nat, NEW taker,
             Begins(kind, side, limit, q, taker)
      PROVE  /\ RestingQuantity(s)' + Traded' = avail' /\ op'.rem + Traded' = op'.quantity
             /\ RestingQuantity(s)' + (op'.quantity - op'.rem) + op'.filled = avail'
  <2>1. /\ op = Idle /\ op'.side = side /\ op'.rem = q /\ op'.quantity = q /\ op'.filled = 0
        /\ UNCHANGED bookVars /\ UNCHANGED trades
        /\ avail' = RestingQuantity(Opposite(side))
    BY <1>2 DEF Begins
  <2>2. s = Opposite(side)
    BY <2>1 DEF Book
  <2>3. RestingQuantity(s)' = RestingQuantity(s) /\ Traded' = Traded
    BY <2>1, RestingSame, TradedSame
  <2>4. Traded = 0
    BY <2>1, NothingTraded DEF CallTight
  <2>5. RestingQuantity(s) \in Nat
    BY RestingNat DEF Inv, TypeOK, BookOK
  <2> QED
    BY <1>2, <2>1, <2>2, <2>3, <2>4, <2>5
<1>3. ASSUME op # Idle, op'.side = op.side
      PROVE  /\ s = Book /\ BookOK /\ RestingQuantity(s) \in Nat
             /\ op.kind \in {"limit", "market"} => /\ RestingQuantity(s) + Traded = avail
                                                   /\ op.rem + Traded = op.quantity
             /\ op.kind = "exec" => RestingQuantity(s) + (op.quantity - op.rem) + op.filled = avail
             /\ op.rem \in Nat /\ op.quantity \in Nat /\ op.filled \in Nat
  <2>1. s = Book /\ BookOK
    BY <1>3, CallFacts DEF Book
  <2>2. Conserved
    BY ConservedIs
  <2> QED
    BY <2>1, <2>2, <1>3, RestingNat, CallFacts DEF Conserved
\* Steps between the levels.
<1>4. ASSUME NEW r, NEW lvl, NEW f, NEW d, GoesOn(r, lvl, f, d), UNCHANGED bookVars, UNCHANGED trades,
             op.kind # "exec" => r = op.rem,
             op.kind = "exec" => r \in Int /\ d \in Int /\ d - r = op.filled - op.rem
      PROVE  QuantityConserved'
  <2>1. op # Idle /\ op'.side = op.side /\ op'.kind = op.kind /\ op'.rem = r /\ op'.filled = d
        /\ op'.quantity = op.quantity /\ avail' = avail
    BY <1>4 DEF GoesOn
  <2>2. RestingQuantity(s)' = RestingQuantity(s) /\ Traded' = Traded
    BY <1>4, RestingSame, TradedSame
  <2>3. op'.kind \in {"limit", "market"} => /\ RestingQuantity(s)' + Traded' = avail'
                                            /\ op'.rem + Traded' = op'.quantity
    BY <1>3, <1>4, <2>1, <2>2
  <2>4. op'.kind = "exec" => RestingQuantity(s)' + (op'.quantity - op'.rem) + op'.filled = avail'
    BY <1>3, <1>4, <2>1, <2>2
  <2> QED
    BY <2>3, <2>4, ConservedIsNext DEF Conserved
\* A trade of match, and a fill of executeMarketOrder.
<1>5. ASSUME NEW m \in Live, NEW qty \in Nat, Fills(m, qty), op.kind \in {"limit", "market"},
             GoesOn(op.rem - qty, op.lvl, op.fill, op.filled),
             trades' = Append(trades, [price |-> indexToPrice(op.lvl), quantity |-> qty,
                                       makerId |-> pool_[m].id])
      PROVE  QuantityConserved'
  <2>1. op # Idle /\ op'.side = op.side /\ op'.kind = op.kind /\ op'.rem = op.rem - qty
        /\ op'.quantity = op.quantity /\ avail' = avail
    BY <1>5 DEF GoesOn
  <2>2. RestingQuantity(s)' = RestingQuantity(s) - qty
    <3>1. s = Book /\ BookOK /\ op.lvl \in Index
      BY <1>3, <1>5, <2>1 DEF Fills
    <3> QED
      BY <1>5, <3>1, FillQuantities
  <2>3. Traded' = Traded + qty /\ Traded \in Nat
    <3> DEFINE T == [price : MinPrice .. MaxPrice, quantity : Nat, makerId : OrderIds]
               t == [price |-> indexToPrice(op.lvl), quantity |-> qty, makerId |-> pool_[m].id]
    <3>1. trades \in Seq(T)
      BY DEF Inv, TypeOK
    <3>2. t \in T /\ t.quantity = qty
      <4>1. indexToPrice(op.lvl) \in MinPrice .. MaxPrice
        BY <1>5, LadderAssumption DEF Fills, Index, indexToPrice
      <4>2. pool_[m].id \in OrderIds
        BY FiniteBook DEF Inv, TypeOK, BookOK, Order
      <4> QED
        BY <4>1, <4>2
    <3>3. \A x \in T : x.quantity \in Nat
      OBVIOUS
    <3> HIDE DEF T, t
    <3>4. \A k \in DOMAIN trades : trades[k].quantity \in Nat
      <4>1. \A k \in 1 .. Len(trades) : trades[k] \in T
        BY <3>1, LenProperties
      <4> QED
        BY <4>1, <3>1, <3>3, LenProperties
    <3>5. trades' = Append(trades, t)
      BY <1>5 DEF t
    <3> QED
      BY <3>1, <3>2, <3>4, <3>5, TradeRecorded
  <2>4. /\ RestingQuantity(s)' + Traded' = avail' /\ op'.rem + Traded' = op'.quantity
    BY <1>3, <1>5, <2>1, <2>2, <2>3
  <2> QED
    BY <1>5, <2>1, <2>4, ConservedIsNext DEF Conserved
<1>6. ASSUME NEW m \in Live, NEW qty \in Nat, Fills(m, qty), op.kind = "exec",
             GoesOn(op.rem, op.lvl, op.fill, op.filled + qty)
      PROVE  QuantityConserved'
  <2>1. op # Idle /\ op'.side = op.side /\ op'.kind = "exec" /\ op'.rem = op.rem
        /\ op'.quantity = op.quantity /\ avail' = avail /\ op'.filled = op.filled + qty
    BY <1>6 DEF GoesOn
  <2>2. RestingQuantity(s)' = RestingQuantity(s) - qty
    <3>1. s = Book /\ BookOK /\ op.lvl \in Index
      BY <1>3, <1>6, <2>1 DEF Fills
    <3> QED
      BY <1>6, <3>1, FillQuantities
  <2>3. RestingQuantity(s)' + (op'.quantity - op'.rem) + op'.filled = avail'
    BY <1>3, <1>6, <2>1, <2>2
  <2> QED
    BY <2>1, <2>3, ConservedIsNext DEF Conserved
<1>7. ASSUME Step, op' # Idle
      PROVE  QuantityConserved'
  <2>1. op # Idle /\ op.rem \in Nat /\ op.filled \in Nat
    BY <1>7, StepRuns, CallFacts
  <2>2. CASE MatchLevel /\ UNCHANGED <<bookVars, trades>>
             /\ GoesOn(op.rem, best_idx_[Book], op.fill, op.filled)
    BY <1>4, <2>1, <2>2
  <2>3. CASE MatchLevelDone /\ UNCHANGED <<bookVars, trades>>
             /\ GoesOn(op.rem, -1, op.fill, op.filled)
    BY <1>4, <2>1, <2>3
  <2>4. CASE ExecLevel /\ UNCHANGED <<bookVars, trades>>
             /\ GoesOn(op.rem, best_idx_[Book],
                       Lesser(op.rem, total_quantity_[Book][best_idx_[Book]]), 0)
    <3>1. op.filled = 0
      BY <2>1, <2>4 DEF ExecLevel, CallTight
    <3> QED
      BY <1>4, <2>1, <2>4, <3>1
  <2>5. CASE ExecLevelDone /\ UNCHANGED <<bookVars, trades>>
             /\ GoesOn(op.rem - op.filled, -1, 0, 0)
    <3>1. op.rem - op.filled \in Int /\ 0 - (op.rem - op.filled) = op.filled - op.rem
          /\ op.kind = "exec"
      BY <2>1, <2>5 DEF ExecLevelDone, Running
    <3> QED
      BY <1>4, <2>5, <3>1
  <2> QED
    BY <1>5, <1>6, <1>7, <2>2, <2>3, <2>4, <2>5, LoopSteps
<1>8. CASE UNCHANGED vars
  <2>1. RestingQuantity(s)' = RestingQuantity(s) /\ Traded' = Traded
    BY <1>8, RestingSame, TradedSame DEF vars, callVars
  <2>2. op' = op /\ avail' = avail
    BY <1>8 DEF vars, callVars
  <2>3. CASE op # Idle
    BY <2>1, <2>2, <2>3, <1>3
  <2> QED
    BY <2>2, <2>3, <1>1
<1>9. CASE (Trading \/ Feeding) /\ op' # Idle
  <2>1. CASE op = Idle /\ UNCHANGED callVars
    BY <1>9, <2>1 DEF callVars
  <2> QED
    BY <1>2, <1>9, <2>1, CallerSteps, RequestAssumption
<1> QED
  BY <1>1, <1>7, <1>8, <1>9, ConservedIs, ConservedIsNext DEF Next, Conserved

\* orderbook.cpp, match and executeMarketOrder: at every point of a sweep what still rests
\* on the other side and what was traded add up to what rested when the call began, and the
\* taker's remainder has shrunk by what was traded.
THEOREM QuantityAlwaysConserved ==
    ASSUME SeparateIds
    PROVE  Spec => []QuantityConserved
<1>1. Init => QuantityConserved
  BY DEF Init, QuantityConserved, Running, Idle
<1>2. Inv /\ Inv' /\ CallTight /\ QuantityConserved /\ [Next]_vars => QuantityConserved'
  BY NextConserves
<1> QED
  BY <1>1, <1>2, BookInvariant, CallsTight, PTL DEF Spec

-----------------------------------------------------------------------------
(* executeMarketOrder takes all it can.                                    *)

\* The total of a level covers each of its orders.
LEMMA TotalCovers ==
    ASSUME BookOK, CountersExact, NEW s \in Side, NEW i \in Index, NEW o \in Members(s, i)
    PROVE  /\ o \in Live /\ pool_[o].side = s /\ pool_[o].quantity \in Nat
           /\ total_quantity_[s][i] \in Nat /\ pool_[o].quantity <= total_quantity_[s][i]
<1> DEFINE M == Members(s, i)
           f == SlotQuantity
<1>1. total_quantity_[s][i] = SumOver(f, M)
  BY CountsAre DEF Counted
<1>2. M \in SUBSET Slots /\ o \in Live /\ pool_[o].side = s /\ f[o] = pool_[o].quantity
  BY FiniteBook DEF At
<1>3. /\ IsFiniteSet(M) /\ \A x \in M : f[x] \in Int
      /\ SumOver(f, M \ {o}) \in Nat /\ f[o] \in Nat
  BY <1>2, SlotSum
<1> HIDE DEF M, f
<1>4. SumOver(f, M) = f[o] + SumOver(f, M \ {o})
  BY <1>3, SumRemove DEF M
<1> QED
  BY <1>1, <1>2, <1>3, <1>4

\* A level whose total is zero holds only orders of quantity zero.
LEMMA ZeroTotal ==
    ASSUME BookOK, CountersExact, NEW s \in Side, NEW i \in Index,
           total_quantity_[s][i] <= 0
    PROVE  \A o \in Members(s, i) : o \in Live /\ pool_[o].side = s /\ pool_[o].quantity = 0
BY TotalCovers

\* A level that fills nothing holds an order of quantity zero.
LEMMA LevelFillsNothing ==
    ASSUME Inv, CallTight, CountersExact, ExecLevelDone, op.filled = 0
    PROVE  \E o \in Live : pool_[o].side = Book /\ pool_[o].quantity = 0
<1> DEFINE s == Book
           i == op.lvl
<1>1. op # Idle /\ op.kind = "exec"
  BY DEF ExecLevelDone, Running, Idle
<1>2. /\ s \in Side /\ BookOK /\ op.rem \in Nat /\ op.fill \in Int
      /\ op.lvl \in Index \cup {-1}
  BY <1>1, CallFacts
<1>3. op.lvl >= 0 /\ (op.filled >= op.fill \/ isEmpty(Book, op.lvl)) /\ i \in Index
  BY <1>2 DEF ExecLevelDone
<1>4. total_quantity_[s][i] \in Int
  BY <1>2, <1>3 DEF BookOK, BookTypeOK
<1>5. /\ op.rem > 0 /\ op.fill <= total_quantity_[s][i]
      /\ op.fill = op.rem \/ op.fill = total_quantity_[s][i]
      /\ op.fill = 0 => ~isEmpty(s, i)
  BY <1>1, <1>2, <1>3, <1>4 DEF CallTight
<1>6. total_quantity_[s][i] = SumOver(SlotQuantity, Members(s, i))
      /\ SumOver(SlotQuantity, Members(s, i)) \in Nat
      /\ (isEmpty(s, i) => total_quantity_[s][i] = 0)
  <2>1. total_quantity_[s][i] = SumOver(SlotQuantity, Members(s, i))
    BY <1>2, <1>3, CountsAre DEF Counted
  <2>2. Members(s, i) \in SUBSET Slots
    BY <1>2, <1>3, FiniteBook
  <2>3. isEmpty(s, i) => Members(s, i) = {}
    BY DEF isEmpty, Members, Range
  <2> QED
    BY <2>1, <2>2, <2>3, <1>2, SlotSum, SumEmpty
<1>7. total_quantity_[s][i] <= 0 /\ ~isEmpty(s, i)
  BY <1>2, <1>3, <1>4, <1>5, <1>6
<1>8. \E o \in Members(s, i) : TRUE
  <2>1. levels_[s][i] \in Seq(Slots) /\ levels_[s][i] # <<>>
    BY <1>2, <1>3, <1>7 DEF BookOK, BookTypeOK, isEmpty
  <2> QED
    BY <2>1, EmptyList DEF Members
<1> QED
  BY <1>2, <1>3, <1>7, <1>8, ZeroTotal

\* A side without a best level holds nothing.
LEMMA NoBestNoQuantity ==
    ASSUME BookOK, NEW s \in Side, best_idx_[s] < 0
    PROVE  RestingQuantity(s) = 0
<1>1. Occupied(s) = {}
  BY LadderAssumption DEF BookOK, BestIsBest, IsTouch, Occupied, Index
<1>2. OnSide(s) = {}
  <2> SUFFICES ASSUME NEW o \in OnSide(s) PROVE FALSE
    OBVIOUS
  <2>1. o \in Live /\ pool_[o] \in Order /\ pool_[o].side = s
    BY FiniteBook DEF OnSide
  <2> DEFINE i == priceToIndex(pool_[o].price)
  <2>2. i \in Index
    BY <2>1, LadderIndex DEF Order
  <2>3. o \in Range(levels_[s][i]) /\ levels_[s][i] \in Seq(Slots)
    BY <2>1, <2>2 DEF BookOK, BookTypeOK, IndexesAgree
  <2>4. levels_[s][i] # <<>>
    BY <2>3, EmptyList
  <2> QED
    BY <2>2, <2>4, <1>1 DEF Occupied
<1> QED
  BY <1>2, RestingIs, SumEmpty

LEMMA MinIsLesser ==
    ASSUME NEW a \in Int, NEW b \in Int
    PROVE  Min({a, b}) = IF a <= b THEN a ELSE b
<1>1. \E x \in {a, b} : \A y \in {a, b} : x <= y
  OBVIOUS
<1>2. Min({a, b}) \in {a, b} /\ \A y \in {a, b} : Min({a, b}) <= y
  BY <1>1 DEF Min
<1> QED
  BY <1>2

\* orderbook.cpp, executeMarketOrder: it returns with the quantity asked for or with all
\* that rested when it was called, unless an order of quantity zero stopped it.
THEOREM ExecTakesAllAlways ==
    ASSUME SeparateIds
    PROVE  Spec => ExecTakesAll
<1> DEFINE Done == \/ op.quantity - op.rem + op.filled = Min({op.quantity, avail})
                   \/ \E o \in Live : pool_[o].side = Book /\ pool_[o].quantity = 0
<1>1. ASSUME Inv, CallTight, QuantityConserved, CountersExact, [Next]_vars,
             Running({"exec"}), op' = Idle
      PROVE  Done
  <2>1. op # Idle /\ op.kind = "exec"
    BY <1>1 DEF Running, Idle
  <2> DEFINE s == Book
             i == op.lvl
             rest == RestingQuantity(Book)
  <2>2. /\ s \in Side /\ BookOK /\ op.rem \in Nat /\ op.fill \in Int /\ op.filled \in Nat
        /\ op.quantity \in Nat /\ i \in Index \cup {-1} /\ Index \subseteq Nat
        /\ op.filled <= op.rem /\ best_idx_[s] \in Index \cup {-1}
    BY <1>1, <2>1, CallFacts
  <2>3. rest + (op.quantity - op.rem) + op.filled = avail /\ rest \in Nat
    BY <1>1, <2>2, RestingNat DEF QuantityConserved
  <2>4. ASSUME rest = 0 \/ (op.rem = 0 /\ op.filled = 0)
        PROVE  Done
    <3> HIDE DEF rest
    <3>1. op.quantity - op.rem + op.filled = IF op.quantity <= avail THEN op.quantity ELSE avail
      BY <2>2, <2>3, <2>4
    <3>2. avail \in Int
      BY <2>2, <2>3
    <3> QED
      BY <3>1, <3>2, <2>2, MinIsLesser
  <2>5. CASE ExecReturn
    <3>1. op.lvl < 0 /\ ~(op.rem > 0 /\ best_idx_[Book] >= 0)
      BY <2>5 DEF ExecReturn, OuterLoop
    <3>2. op.filled = 0
      BY <1>1, <2>1, <3>1 DEF CallTight
    <3>3. CASE op.rem = 0
      BY <2>4, <3>2, <3>3
    <3>4. CASE best_idx_[s] < 0
      BY <2>2, <2>4, <3>4, NoBestNoQuantity
    <3>5. op.rem = 0 \/ best_idx_[s] < 0
      <4> DEFINE b == best_idx_[Book]
      <4>1. b \in Int /\ op.rem \in Nat
        BY <2>2, LadderAssumption DEF Index
      <4>2. ~(op.rem > 0 /\ b >= 0)
        BY <3>1
      <4> HIDE DEF b
      <4>3. op.rem = 0 \/ b < 0
        BY <4>1, <4>2
      <4> QED
        BY <4>3 DEF b
    <3> QED
      BY <3>3, <3>4, <3>5
  <2>6. CASE ExecLevelDone /\ op.filled = 0
    BY <1>1, <2>6, LevelFillsNothing
  <2> QED
    BY <1>1, <2>1, <2>5, <2>6, ReturnSteps DEF MatchReturn, Running
<1>2. Inv /\ CallTight /\ QuantityConserved /\ CountersExact /\ [Next]_vars =>
        [Running({"exec"}) /\ op' = Idle => Done]_vars
  BY <1>1
<1> QED
  BY <1>2, BookInvariant, CallsTight, QuantityAlwaysConserved, CountersAlwaysExact, PTL
     DEF Spec, ExecTakesAll

-----------------------------------------------------------------------------
(* The lists of the engine and the queues of PriceTimeBook.                *)

\* A list of slots read through their contents.
Read(list, h) == [k \in DOMAIN list |-> h[list[k]]]

WithQuantity(item, q) == [item EXCEPT !.quantity = q]
WithQuantityAt(queue, k, q) == [queue EXCEPT ![k].quantity = q]

Maps(h, S, T) == \A x \in S : h[x] \in T
Agree(g, h, S) == \A x \in S : g[x] = h[x]
AgreeBut(g, h, list, k) == \A j \in 1 .. Len(list) : j # k => g[list[j]] = h[list[j]]

LEMMA ReadList ==
    ASSUME NEW S, NEW T, NEW list \in Seq(S), NEW h, Maps(h, S, T)
    PROVE  /\ Read(list, h) \in Seq(T) /\ Len(Read(list, h)) = Len(list) /\ Len(list) \in Nat
           /\ DOMAIN Read(list, h) = 1 .. Len(list) /\ DOMAIN list = 1 .. Len(list)
           /\ \A k \in 1 .. Len(list) : list[k] \in S /\ Read(list, h)[k] = h[list[k]]
<1>1. Len(list) \in Nat /\ DOMAIN list = 1 .. Len(list) /\ \A k \in 1 .. Len(list) : list[k] \in S
  BY LenProperties
<1> DEFINE n == Len(list)
<1> HIDE DEF n
<1>2. Read(list, h) = [k \in 1 .. n |-> h[list[k]]]
  BY <1>1 DEF Read, n
<1>3. Read(list, h) \in [1 .. n -> T]
  BY <1>1, <1>2 DEF n, Maps
<1>4. Read(list, h) \in Seq(T)
  BY <1>1, <1>3 DEF n
<1>5. Len(Read(list, h)) = n
  BY <1>1, <1>3, <1>4, LenProperties DEF n
<1> QED
  BY <1>1, <1>2, <1>4, <1>5 DEF n

\* An order that enters.
LEMMA ReadAppend ==
    ASSUME NEW S, NEW list \in Seq(S), NEW o \in S, NEW h, NEW g,
           Agree(g, h, Range(list))
    PROVE  Read(Append(list, o), g) = Append(Read(list, h), g[o])
<1> DEFINE T == {h[x] : x \in S} \cup {g[x] : x \in S}
           n == Len(list)
           A == Append(list, o)
           L == Read(A, g)
           R == Append(Read(list, h), g[o])
<1>0. Maps(h, S, T) /\ Maps(g, S, T) /\ g[o] \in T
  BY DEF Maps
<1> HIDE DEF T
<1>1. n \in Nat /\ DOMAIN list = 1 .. n /\ \A k \in 1 .. n : list[k] \in Range(list)
  BY LenProperties DEF Range
<1>2. /\ A \in Seq(S) /\ Len(A) = n + 1 /\ A[n + 1] = o /\ \A k \in 1 .. n : A[k] = list[k]
  BY AppendProperties
<1>3. /\ L \in Seq(T) /\ Len(L) = n + 1 /\ \A k \in 1 .. n + 1 : L[k] = g[A[k]]
  <2> HIDE DEF A, n
  <2> QED
    BY <1>0, <1>2, ReadList
<1>4. /\ Read(list, h) \in Seq(T) /\ Len(Read(list, h)) = n
      /\ \A k \in 1 .. n : Read(list, h)[k] = h[list[k]]
  BY <1>0, ReadList
<1>5. g[o] \in T
  BY <1>0
<1>6. /\ R \in Seq(T) /\ Len(R) = n + 1 /\ R[n + 1] = g[o]
      /\ \A k \in 1 .. n : R[k] = Read(list, h)[k]
  <2> DEFINE r == Read(list, h)
             x == g[o]
  <2> HIDE DEF r, x, n
  <2> QED
    BY <1>4, <1>5, AppendProperties DEF r, x
<1> HIDE DEF n, A, L, R
<1>7. \A k \in 1 .. n + 1 : L[k] = R[k]
  <2> SUFFICES ASSUME NEW k \in 1 .. n + 1 PROVE L[k] = R[k]
    OBVIOUS
  <2>1. CASE k = n + 1
    BY <2>1, <1>2, <1>3, <1>6
  <2>2. CASE k \in 1 .. n
    BY <2>2, <1>1, <1>2, <1>3, <1>4, <1>6 DEF Agree
  <2> QED
    BY <1>1, <2>1, <2>2
<1> QED
  BY <1>3, <1>6, <1>7, SeqEqual DEF L, R, A

\* An order that leaves.
LEMMA ReadRemove ==
    ASSUME NEW S, NEW list \in Seq(S), NEW k \in 1 .. Len(list),
           NEW h, NEW g, AgreeBut(g, h, list, k)
    PROVE  Read(RemoveAt(list, k), g) = RemoveAt(Read(list, h), k)
<1> DEFINE T == {h[x] : x \in S}
           n == Len(list)
           r == Read(list, h)
           cut == [j \in 1 .. n - 1 |-> IF j < k THEN list[j] ELSE list[j + 1]]
<1>0. Maps(h, S, T)
  BY DEF Maps
<1> HIDE DEF T
<1>1. /\ r \in Seq(T) /\ Len(r) = n /\ n \in Nat
      /\ \A j \in 1 .. n : r[j] = h[list[j]]
  BY <1>0, ReadList
<1>2. RemoveAt(list, k) = cut
  BY RemoveAtIs
<1>3. RemoveAt(r, k) = [j \in 1 .. n - 1 |-> IF j < k THEN r[j] ELSE r[j + 1]]
  <2> HIDE DEF r, n
  <2>1. k \in 1 .. Len(r)
    BY <1>1 DEF n
  <2> QED
    BY <1>1, <2>1, RemoveAtIs
<1>4. Read(cut, g) = [j \in 1 .. n - 1 |-> g[cut[j]]]
  BY DEF Read
<1>5. k \in 1 .. n /\ \A j \in 1 .. n : j # k => g[list[j]] = h[list[j]]
  BY DEF AgreeBut
<1> HIDE DEF n, r
<1>6. \A j \in 1 .. n - 1 : g[cut[j]] = IF j < k THEN r[j] ELSE r[j + 1]
  <2> SUFFICES ASSUME NEW j \in 1 .. n - 1
               PROVE  g[cut[j]] = IF j < k THEN r[j] ELSE r[j + 1]
    OBVIOUS
  <2>1. j \in 1 .. n /\ j + 1 \in 1 .. n /\ k \in Int
    BY <1>1, <1>5
  <2>2. CASE j < k
    BY <2>1, <2>2, <1>1, <1>5
  <2>3. CASE ~(j < k)
    <3>1. j + 1 # k
      BY <2>1, <2>3
    <3> QED
      BY <2>1, <2>3, <3>1, <1>1, <1>5
  <2> QED
    BY <2>2, <2>3
<1> QED
  BY <1>2, <1>3, <1>4, <1>6 DEF r

LEMMA RemoveOldest ==
    ASSUME NEW T, NEW list \in Seq(T), list # <<>>
    PROVE  RemoveAt(list, 1) = Tail(list)
<1> DEFINE n == Len(list)
           moved == [j \in 1 .. n - 1 |-> list[j + 1]]
<1>1. n \in Nat /\ n # 0
  BY LenProperties, EmptySeq
<1>2. 1 \in 1 .. n
  BY <1>1
<1>3. RemoveAt(list, 1) = [j \in 1 .. n - 1 |-> IF j < 1 THEN list[j] ELSE list[j + 1]]
  BY <1>2, RemoveAtIs
<1>4. /\ Tail(list) \in Seq(T) /\ Len(Tail(list)) = n - 1
      /\ \A j \in 1 .. n - 1 : Tail(list)[j] = list[j + 1]
  BY HeadTailProperties
<1>5. Tail(list) = [j \in 1 .. n - 1 |-> Tail(list)[j]]
  BY <1>4, LenProperties
<1> HIDE DEF n
<1>6. [j \in 1 .. n - 1 |-> IF j < 1 THEN list[j] ELSE list[j + 1]] = moved
  <2>1. \A j \in 1 .. n - 1 : ~(j < 1)
    BY <1>1
  <2> QED
    BY <2>1
<1>7. [j \in 1 .. n - 1 |-> Tail(list)[j]] = moved
  BY <1>4
<1> QED
  BY <1>3, <1>5, <1>6, <1>7

\* An order that changes its quantity.
LEMMA ReadResize ==
    ASSUME NEW S, NEW list \in Seq(S), NEW k \in 1 .. Len(list), NEW q,
           NEW h, NEW g, AgreeBut(g, h, list, k),
           g[list[k]] = WithQuantity(h[list[k]], q)
    PROVE  Read(list, g) = WithQuantityAt(Read(list, h), k, q)
<1> DEFINE n == Len(list)
<1>1. DOMAIN list = 1 .. n
  BY LenProperties
<1> HIDE DEF n
<1>2. Read(list, g) = [j \in 1 .. n |-> g[list[j]]] /\ Read(list, h) = [j \in 1 .. n |-> h[list[j]]]
  BY <1>1 DEF Read
<1>3. k \in 1 .. n /\ \A j \in 1 .. n : j # k => g[list[j]] = h[list[j]]
  BY DEF n, AgreeBut
<1> DEFINE x == g[list[k]]
<1>4. x = [Read(list, h)[k] EXCEPT !.quantity = q]
  BY <1>2, <1>3 DEF WithQuantity
<1> HIDE DEF x
<1>5. Read(list, g) = [Read(list, h) EXCEPT ![k] = x]
  <2> DEFINE u == Read(list, g)
             v == Read(list, h)
  <2>1. \A j \in 1 .. n : u[j] = IF j = k THEN x ELSE v[j]
    BY <1>2, <1>3 DEF x
  <2>2. u = [j \in 1 .. n |-> u[j]] /\ v = [j \in 1 .. n |-> v[j]]
    BY <1>2
  <2> HIDE DEF u, v
  <2> QED
    BY <1>3, <2>1, <2>2 DEF u, v
<1> QED
  BY <1>4, <1>5 DEF WithQuantityAt

\* What a queue shows of an order.
Items == [o \in Slots |-> [id |-> pool_[o].id, quantity |-> pool_[o].quantity]]
Ladder == MinPrice .. MaxPrice

LEMMA ReadSame ==
    ASSUME NEW S, NEW list \in Seq(S), NEW h, NEW g, Agree(g, h, Range(list))
    PROVE  Read(list, g) = Read(list, h)
<1>1. \A k \in DOMAIN list : list[k] \in Range(list)
  BY DEF Range
<1> QED
  BY <1>1 DEF Read, Agree

LEMMA QueueIs ==
    BookOK => /\ queueBar = [s \in Side |-> [p \in Ladder |-> queueBar[s][p]]]
              /\ \A s \in Side, p \in Ladder :
                    queueBar[s][p] = Read(levels_[s][priceToIndex(p)], Items)
<1> SUFFICES ASSUME BookOK
             PROVE  /\ queueBar = [s \in Side |-> [p \in Ladder |-> queueBar[s][p]]]
                    /\ \A s \in Side, p \in Ladder :
                          queueBar[s][p] = Read(levels_[s][priceToIndex(p)], Items)
  OBVIOUS
<1>1. queueBar = [s \in Side |-> [p \in Ladder |-> QueueOf(s, p)]]
  BY DEF queueBar, Ladder
<1>2. ASSUME NEW s \in Side, NEW p \in Ladder
      PROVE  QueueOf(s, p) = Read(levels_[s][priceToIndex(p)], Items)
  <2> DEFINE list == levels_[s][priceToIndex(p)]
  <2>1. list \in Seq(Slots)
    BY LadderIndex DEF BookOK, BookTypeOK, Ladder
  <2>2. \A k \in DOMAIN list : list[k] \in Slots
    BY <2>1, LenProperties
  <2>3. \A k \in DOMAIN list : Items[list[k]] =
          [id |-> pool_[list[k]].id, quantity |-> pool_[list[k]].quantity]
    BY <2>2 DEF Items
  <2>4. QueueOf(s, p) = [k \in DOMAIN list |->
          [id |-> pool_[list[k]].id, quantity |-> pool_[list[k]].quantity]]
    BY DEF QueueOf
  <2> HIDE DEF list
  <2> QED
    BY <2>3, <2>4 DEF Read, list
<1> QED
  BY <1>1, <1>2

LEMMA QueueIsNext ==
    (BookOK => /\ queueBar = [s \in Side |-> [p \in Ladder |-> queueBar[s][p]]]
               /\ \A s \in Side, p \in Ladder :
                     queueBar[s][p] = Read(levels_[s][priceToIndex(p)], Items))'
BY QueueIs, PTL

\* One queue changes and the others do not.
QueueBecomes(s, p, X) == queueBar' = [queueBar EXCEPT ![s][p] = X]

LEMMA QueueStep ==
    ASSUME BookOK, BookOK', NEW s \in Side, NEW p \in Ladder, NEW X,
           queueBar'[s][p] = X,
           \A t \in Side, r \in Ladder : ~(t = s /\ r = p) => queueBar'[t][r] = queueBar[t][r]
    PROVE  queueBar' = [queueBar EXCEPT ![s][p] = X]
<1> DEFINE f == queueBar
           g == queueBar'
<1>1. f = [t \in Side |-> [r \in Ladder |-> f[t][r]]]
  BY QueueIs
<1>2. g = [t \in Side |-> [r \in Ladder |-> g[t][r]]]
  BY QueueIsNext
<1> HIDE DEF f, g
<1>3. \A t \in Side, r \in Ladder : g[t][r] = IF t = s /\ r = p THEN X ELSE f[t][r]
  BY DEF f, g
<1>4. g = [f EXCEPT ![s][p] = X]
  <2> DEFINE h == [f EXCEPT ![s][p] = X]
             fs == f[s]
  <2>1. fs = [r \in Ladder |-> fs[r]]
    BY <1>1
  <2> HIDE DEF fs
  <2>2. [fs EXCEPT ![p] = X] = [r \in Ladder |-> IF r = p THEN X ELSE fs[r]]
    BY <2>1
  <2>3. h = [t \in Side |-> IF t = s THEN [fs EXCEPT ![p] = X] ELSE f[t]]
    BY <1>1 DEF fs
  <2>4. ASSUME NEW t \in Side PROVE g[t] = IF t = s THEN [fs EXCEPT ![p] = X] ELSE f[t]
    <3>1. g[t] = [r \in Ladder |-> g[t][r]] /\ f[t] = [r \in Ladder |-> f[t][r]]
      BY <1>1, <1>2
    <3>2. CASE t = s
      BY <1>3, <2>2, <3>1, <3>2 DEF fs
    <3>3. CASE t # s
      BY <1>3, <3>1, <3>3
    <3> QED
      BY <3>2, <3>3
  <2> HIDE DEF h
  <2>5. g = h
    BY <1>2, <2>3, <2>4
  <2> QED
    BY <2>5 DEF h
<1> QED
  BY <1>4 DEF f, g

\* The level of a price, and whose orders are in it.
LEMMA LevelOf ==
    ASSUME BookOK, NEW s \in Side, NEW p \in Ladder
    PROVE  /\ priceToIndex(p) \in Index /\ levels_[s][priceToIndex(p)] \in Seq(Slots)
           /\ IsInjective(levels_[s][priceToIndex(p)])
           /\ Range(levels_[s][priceToIndex(p)]) = {o \in Live : pool_[o].side = s /\ pool_[o].price = p}
<1>1. priceToIndex(p) \in Index
  BY LadderIndex DEF Ladder
<1>2. /\ levels_[s][priceToIndex(p)] \in Seq(Slots) /\ IsInjective(levels_[s][priceToIndex(p)])
      /\ Range(levels_[s][priceToIndex(p)]) =
            {o \in Live : pool_[o].side = s /\ priceToIndex(pool_[o].price) = priceToIndex(p)}
  BY <1>1 DEF BookOK, BookTypeOK, IndexesAgree
<1>3. \A o \in Live : pool_[o].price \in Int
  BY FiniteBook, LadderAssumption DEF Order
<1>4. p \in Int /\ MinPrice \in Int
  BY LadderAssumption DEF Ladder
<1>5. \A o \in Live : priceToIndex(pool_[o].price) = priceToIndex(p) <=> pool_[o].price = p
  BY <1>3, <1>4 DEF priceToIndex
<1> QED
  BY <1>1, <1>2, <1>5

\* addOrder appends to the queue of its price.
LEMMA EnterQueue ==
    ASSUME BookOK, BookOK', NEW o, NEW id, NEW side, NEW price, NEW quantity,
           Enters(o, id, side, price, quantity)
    PROVE  queueBar' = [queueBar EXCEPT ![side][price] = Append(@, [id |-> id, quantity |-> quantity])]
<1> DEFINE h == Items
           g == Items'
           idx == priceToIndex(price)
           list == levels_[side][idx]
<1>1. Entered(o, id, side, price, quantity)
  BY EnterFacts
<1>2. /\ o \in Slots /\ o \notin Live /\ side \in Side /\ price \in Ladder
      /\ pool_'[o] = [id |-> id, side |-> side, price |-> price, quantity |-> quantity]
      /\ \A x \in Live : pool_'[x] = pool_[x]
      /\ \A s \in Side, i \in Index :
            levels_'[s][i] = IF s = side /\ i = idx THEN Append(levels_[s][i], o) ELSE levels_[s][i]
  BY <1>1 DEF Entered, Ladder
<1>4. g[o] = [id |-> id, quantity |-> quantity] /\ \A x \in Live : g[x] = h[x]
  BY <1>2, FiniteBook DEF Items
<1> HIDE DEF h, g
<1>5. Read(levels_'[side][idx], g) = Append(Read(list, h), g[o])
  <2>1. idx \in Index /\ list \in Seq(Slots) /\ Range(list) \subseteq Live
    BY <1>2, LevelOf
  <2>2. levels_'[side][idx] = Append(list, o)
    BY <1>2, <2>1
  <2> HIDE DEF list
  <2>3. Agree(g, h, Range(list))
    BY <1>4, <2>1 DEF Agree
  <2>4. o \in Slots /\ list \in Seq(Slots)
    BY <1>2, <2>1
  <2> HIDE DEF idx
  <2>5. Read(Append(list, o), g) = Append(Read(list, h), g[o])
    BY <2>3, <2>4, ReadAppend
  <2> QED
    BY <2>2, <2>5
<1>6. queueBar'[side][price] = Append(queueBar[side][price], [id |-> id, quantity |-> quantity])
  BY <1>2, <1>4, <1>5, QueueIs, QueueIsNext DEF h, g
<1>7. ASSUME NEW t \in Side, NEW r \in Ladder, ~(t = side /\ r = price)
      PROVE  queueBar'[t][r] = queueBar[t][r]
  <2> DEFINE i == priceToIndex(r)
  <2>1. i \in Index /\ levels_[t][i] \in Seq(Slots) /\ Range(levels_[t][i]) \subseteq Live
    BY LevelOf
  <2>2. ~(t = side /\ i = idx)
    BY <1>2, <1>7, LadderAssumption DEF priceToIndex, Ladder
  <2>3. levels_'[t][i] = levels_[t][i]
    BY <1>2, <2>1, <2>2
  <2> HIDE DEF i
  <2>4. Read(levels_[t][i], g) = Read(levels_[t][i], h)
    BY <1>4, <2>1, ReadSame DEF Agree
  <2> QED
    BY <2>3, <2>4, QueueIs, QueueIsNext DEF h, g, i
<1> HIDE DEF idx, list
<1> QED
  BY <1>2, <1>6, <1>7, QueueStep

\* Where a resting order stands in its queue.
LEMMA PlaceOf ==
    ASSUME BookOK, NEW o \in Live
    PROVE  LET s == pool_[o].side
               p == pool_[o].price
               list == levels_[s][priceToIndex(p)]
           IN  /\ s \in Side /\ p \in Ladder /\ o \in Slots
               /\ \E k \in 1 .. Len(list) : list[k] = o
<1> DEFINE s == pool_[o].side
           p == pool_[o].price
           list == levels_[s][priceToIndex(p)]
<1>1. s \in Side /\ p \in Ladder /\ o \in Slots
  BY FiniteBook DEF Order, Ladder
<1>2. list \in Seq(Slots) /\ o \in Range(list)
  BY <1>1, LevelOf
<1> HIDE DEF list, s, p
<1>3. \E k \in 1 .. Len(list) : list[k] = o
  BY <1>2, LenProperties DEF Range
<1> QED
  BY <1>1, <1>3 DEF s, p, list

\* What a queue shows at a place.
LEMMA QueueAt ==
    ASSUME BookOK, NEW s \in Side, NEW p \in Ladder, NEW k \in 1 .. Len(levels_[s][priceToIndex(p)])
    PROVE  /\ k \in DOMAIN queueBar[s][p]
           /\ levels_[s][priceToIndex(p)][k] \in Live
           /\ queueBar[s][p][k].id = pool_[levels_[s][priceToIndex(p)][k]].id
           /\ queueBar[s][p][k].quantity = pool_[levels_[s][priceToIndex(p)][k]].quantity
<1> DEFINE list == levels_[s][priceToIndex(p)]
<1>1. list \in Seq(Slots) /\ Range(list) \subseteq Live
  BY LevelOf
<1>2. queueBar[s][p] = Read(list, Items)
  BY QueueIs
<1> HIDE DEF list
<1>3. DOMAIN list = 1 .. Len(list) /\ k \in 1 .. Len(list)
  BY <1>1, LenProperties DEF list
<1>4. list[k] \in Live /\ list[k] \in Slots
  BY <1>1, <1>3 DEF Range, Live
<1>5. k \in DOMAIN queueBar[s][p] /\ queueBar[s][p][k] = Items[list[k]]
  BY <1>2, <1>3 DEF Read
<1>6. /\ queueBar[s][p][k].id = pool_[list[k]].id
      /\ queueBar[s][p][k].quantity = pool_[list[k]].quantity
  BY <1>4, <1>5 DEF Items
<1> QED
  BY <1>4, <1>5, <1>6 DEF list

\* A step that changes the contents of one slot alone, and at most the level it is in, changes
\* at most one queue.
LEMMA OtherQueues ==
    ASSUME BookOK, BookOK', NEW o \in Live, NEW s \in Side, NEW p \in Ladder,
           s = pool_[o].side, p = pool_[o].price,
           \A x \in Slots \ {o} : pool_'[x] = pool_[x],
           \A t \in Side, i \in Index : ~(t = s /\ i = priceToIndex(p)) => levels_'[t][i] = levels_[t][i]
    PROVE  /\ \A x \in Slots \ {o} : Items'[x] = Items[x]
           /\ \A t \in Side, r \in Ladder : ~(t = s /\ r = p) => queueBar'[t][r] = queueBar[t][r]
<1> DEFINE h == Items
           g == Items'
<1>1. \A x \in Slots \ {o} : g[x] = h[x]
  BY DEF Items
<1> HIDE DEF g, h
<1>2. ASSUME NEW t \in Side, NEW r \in Ladder, ~(t = s /\ r = p)
      PROVE  queueBar'[t][r] = queueBar[t][r]
  <2> DEFINE i == priceToIndex(r)
             list == levels_[t][i]
  <2>1. i \in Index /\ list \in Seq(Slots)
        /\ Range(list) = {x \in Live : pool_[x].side = t /\ pool_[x].price = r}
    BY LevelOf
  <2>2. ~(t = s /\ i = priceToIndex(p))
    BY <1>2, LadderAssumption DEF priceToIndex, Ladder
  <2>3. levels_'[t][i] = list
    BY <2>1, <2>2
  <2>4. o \notin Range(list) /\ Range(list) \subseteq Slots
    BY <2>1, <1>2 DEF Live
  <2> HIDE DEF i, list
  <2>5. Read(list, g) = Read(list, h)
    BY <1>1, <2>1, <2>4, ReadSame DEF Agree
  <2> QED
    BY <2>3, <2>5, QueueIs, QueueIsNext DEF h, g, i, list
<1> QED
  BY <1>1, <1>2 DEF g, h

\* cancelOrder takes the order out of its queue, wherever it stands there.
LEMMA LeaveQueue ==
    ASSUME BookOK, BookOK', NEW o, Leaves(o), NEW s, NEW p, s = pool_[o].side, p = pool_[o].price,
           NEW k \in 1 .. Len(levels_[s][priceToIndex(p)]), levels_[s][priceToIndex(p)][k] = o
    PROVE  QueueBecomes(s, p, RemoveAt(queueBar[s][p], k))
<1> DEFINE h == Items
           g == Items'
           idx == priceToIndex(p)
           list == levels_[s][idx]
<1>1. o \in Live /\ s \in Side /\ p \in Ladder
  BY PlaceOf DEF Leaves
<1>2. /\ \A x \in Slots \ {o} : pool_'[x] = pool_[x]
      /\ \A t \in Side, i \in Index :
            levels_'[t][i] = IF t = s /\ i = idx THEN unlink(levels_[t][i], o) ELSE levels_[t][i]
  BY LeaveFacts
<1>3. /\ \A x \in Slots \ {o} : g[x] = h[x]
      /\ \A t \in Side, r \in Ladder : ~(t = s /\ r = p) => queueBar'[t][r] = queueBar[t][r]
  BY <1>1, <1>2, OtherQueues
<1>4. idx \in Index /\ list \in Seq(Slots) /\ IsInjective(list)
  BY <1>1, LevelOf
<1>5. levels_'[s][idx] = unlink(list, o)
  BY <1>1, <1>2, <1>4
<1>6. queueBar[s][p] = Read(list, h) /\ queueBar'[s][p] = Read(levels_'[s][idx], g)
  BY <1>1, QueueIs, QueueIsNext
<1>7. k \in 1 .. Len(list) /\ list[k] = o
  OBVIOUS
<1> HIDE DEF h, g, idx, list
<1>8. DOMAIN list = 1 .. Len(list) /\ \A j \in 1 .. Len(list) : list[j] \in Slots /\ (list[j] = o => j = k)
  BY <1>4, <1>7, LenProperties DEF IsInjective
<1>9. unlink(list, o) = RemoveAt(list, k)
  <2>1. (CHOOSE j \in DOMAIN list : list[j] = o) = k
    BY <1>7, <1>8
  <2> QED
    BY <2>1 DEF unlink
<1>10. AgreeBut(g, h, list, k)
  BY <1>3, <1>8 DEF AgreeBut
<1>11. Read(RemoveAt(list, k), g) = RemoveAt(Read(list, h), k)
  BY <1>4, <1>7, <1>10, ReadRemove
<1>12. queueBar'[s][p] = RemoveAt(queueBar[s][p], k)
  BY <1>5, <1>6, <1>9, <1>11
<1> DEFINE X == RemoveAt(queueBar[s][p], k)
<1> HIDE DEF X
<1>13. queueBar' = [queueBar EXCEPT ![s][p] = X]
  BY <1>1, <1>3, <1>12, QueueStep DEF X
<1> QED
  BY <1>13 DEF X, QueueBecomes

\* modifyOrder and a partial fill change the quantity and keep the place.
LEMMA ResizeQueue ==
    ASSUME BookOK, BookOK', NEW o, NEW q, Resizes(o, q), NEW s, NEW p,
           s = pool_[o].side, p = pool_[o].price,
           NEW k \in 1 .. Len(levels_[s][priceToIndex(p)]), levels_[s][priceToIndex(p)][k] = o
    PROVE  QueueBecomes(s, p, WithQuantityAt(queueBar[s][p], k, q))
<1> DEFINE h == Items
           g == Items'
           idx == priceToIndex(p)
           list == levels_[s][idx]
<1>1. o \in Live /\ s \in Side /\ p \in Ladder /\ o \in Slots
  BY PlaceOf DEF Resizes
<1>2. /\ \A x \in Slots \ {o} : pool_'[x] = pool_[x]
      /\ levels_' = levels_ /\ pool_'[o].id = pool_[o].id /\ pool_'[o].quantity = q
  BY ResizeFacts
<1>3. /\ \A x \in Slots \ {o} : g[x] = h[x]
      /\ \A t \in Side, r \in Ladder : ~(t = s /\ r = p) => queueBar'[t][r] = queueBar[t][r]
  BY <1>1, <1>2, OtherQueues
<1>4. list \in Seq(Slots) /\ IsInjective(list)
  BY <1>1, LevelOf
<1>5. g[o] = WithQuantity(h[o], q)
  BY <1>1, <1>2 DEF Items, WithQuantity
<1>6. queueBar[s][p] = Read(list, h) /\ queueBar'[s][p] = Read(list, g)
  BY <1>1, <1>2, QueueIs, QueueIsNext
<1>7. k \in 1 .. Len(list) /\ list[k] = o
  OBVIOUS
<1> HIDE DEF h, g, idx, list
<1>8. \A j \in 1 .. Len(list) : list[j] \in Slots /\ (list[j] = o => j = k)
  BY <1>4, <1>7, LenProperties DEF IsInjective
<1>9. AgreeBut(g, h, list, k)
  BY <1>3, <1>8 DEF AgreeBut
<1>10. Read(list, g) = WithQuantityAt(Read(list, h), k, q)
  BY <1>4, <1>5, <1>7, <1>9, ReadResize
<1> DEFINE X == WithQuantityAt(queueBar[s][p], k, q)
<1>11. queueBar'[s][p] = X
  BY <1>6, <1>10
<1> HIDE DEF X
<1>12. queueBar' = [queueBar EXCEPT ![s][p] = X]
  BY <1>1, <1>3, <1>11, QueueStep
<1> QED
  BY <1>12 DEF X, QueueBecomes

-----------------------------------------------------------------------------
(* The engine implements price-time priority.                              *)

\* No order of quantity zero rests.
Positive == \A o \in Live : pool_[o].quantity > 0

LEMMA NextPositive ==
    ASSUME Inv, Positive, 0 \notin Quantities, [Next]_vars
    PROVE  Positive'
<1> USE RequestAssumption
<1>1. BookOK
  BY DEF Inv, TypeOK, BookOK
<1>2. CASE UNCHANGED bookVars
  <2>1. UNCHANGED <<pool_, Live>>
    BY <1>2 DEF bookVars, Live
  <2> QED
    BY <2>1 DEF Positive
<1>3. ASSUME NEW o, NEW id, NEW side, NEW price, NEW quantity,
             Enters(o, id, side, price, quantity), quantity \in Quantities \/ quantity > 0
      PROVE  Positive'
  <2>1. Entered(o, id, side, price, quantity)
    BY <1>1, <1>3, EnterFacts
  <2>2. /\ Live' = Live \cup {o} /\ pool_'[o].quantity = quantity /\ quantity > 0
        /\ \A x \in Live : pool_'[x] = pool_[x]
    BY <1>3, <2>1 DEF Entered
  <2> QED
    BY <2>2 DEF Positive
<1>4. ASSUME NEW o, Leaves(o)
      PROVE  Positive'
  <2>1. Live' = Live \ {o} /\ Live \subseteq Slots /\ \A x \in Slots \ {o} : pool_'[x] = pool_[x]
    BY <1>1, <1>4, LeaveFacts, FiniteBook
  <2> QED
    BY <2>1 DEF Positive
<1>5. ASSUME NEW o, NEW q, Resizes(o, q), q \in Quantities \/ q > 0
      PROVE  Positive'
  <2>1. /\ Live' = Live /\ Live \subseteq Slots /\ \A x \in Slots \ {o} : pool_'[x] = pool_[x]
        /\ pool_'[o].quantity = q /\ q \in Nat
    BY <1>1, <1>5, ResizeFacts, FiniteBook
  <2>2. q > 0
    BY <1>5, <2>1
  <2> QED
    BY <2>1, <2>2 DEF Positive
<1> QED
  BY <1>2, <1>3, <1>4, <1>5, BookSteps

\* The request of PriceTimeBook.
LEMMA Requests ==
    /\ op = Idle => reqBar = Abstract!Free
    /\ op # Idle => /\ reqBar # Abstract!Free /\ reqBar.side = op.side /\ reqBar.id = op.taker
                    /\ reqBar.limit = (IF op.kind = "limit" THEN op.limit ELSE NULL)
                    /\ reqBar.rem = op.rem - op.filled
<1>1. op = Idle => reqBar = Abstract!Free
  BY DEF reqBar, Idle, Abstract!Free
<1>2. ASSUME op # Idle
      PROVE  /\ reqBar # Abstract!Free /\ reqBar.side = op.side /\ reqBar.id = op.taker
             /\ reqBar.limit = (IF op.kind = "limit" THEN op.limit ELSE NULL)
             /\ reqBar.rem = op.rem - op.filled
  <2> DEFINE l == IF op.kind = "limit" THEN op.limit ELSE NULL
             r == op.rem - op.filled
             b == op.kind = "limit"
  <2>1. reqBar = [kind |-> "working", side |-> op.side, limit |-> l, rem |-> r,
                  id |-> op.taker, rests |-> b]
    BY <1>2 DEF reqBar
  <2> HIDE DEF l, r, b
  <2>2. /\ reqBar # Abstract!Free /\ reqBar.side = op.side /\ reqBar.id = op.taker
        /\ reqBar.limit = l /\ reqBar.rem = r
    BY <2>1 DEF Abstract!Free
  <2> QED
    BY <2>2 DEF l, r
<1> QED
  BY <1>1, <1>2

\* A step of a call that trades nothing.
LEMMA SameRequest ==
    ASSUME NEW r, NEW lvl, NEW f, NEW d, GoesOn(r, lvl, f, d), r - d = op.rem - op.filled
    PROVE  reqBar' = reqBar
<1>1. /\ op # Idle /\ op' # Idle /\ op'.kind = op.kind /\ op'.side = op.side /\ op'.limit = op.limit
      /\ op'.taker = op.taker /\ op'.rem = r /\ op'.filled = d
  BY DEF GoesOn
<1>2. op'.rem - op'.filled = op.rem - op.filled
  BY <1>1
<1> QED
  BY <1>1, <1>2, Zenon DEF reqBar

\* The queues hold no order under an id that the map does not have.
LEMMA NotKnown ==
    ASSUME BookOK, NEW id, orders_[id] = NULL
    PROVE  ~Abstract!Known(id)
<1> SUFFICES ASSUME NEW s \in Side, NEW p \in Ladder, NEW k \in DOMAIN queueBar[s][p],
                    queueBar[s][p][k].id = id
             PROVE  FALSE
  BY DEF Abstract!Known, Abstract!Sides, Abstract!Ladder, Side, Ladder
<1> DEFINE list == levels_[s][priceToIndex(p)]
<1>1. list \in Seq(Slots) /\ queueBar[s][p] = Read(list, Items)
  BY LevelOf, QueueIs
<1>2. k \in 1 .. Len(list)
  <2> HIDE DEF list
  <2> QED
    BY <1>1, LenProperties DEF Read
<1>3. list[k] \in Live /\ pool_[list[k]].id = id
  BY <1>2, QueueAt
<1>4. orders_[id] = list[k]
  BY <1>3 DEF BookOK, IndexesAgree
<1> QED
  BY <1>3, <1>4, PoolAssumption DEF Live

LEMMA SameQueues ==
    ASSUME UNCHANGED bookVars
    PROVE  queueBar' = queueBar
<1>1. UNCHANGED <<levels_, pool_>>
  BY DEF bookVars
<1> QED
  BY <1>1 DEF queueBar, QueueOf, priceToIndex

\* An order rests where PriceTimeBook rests it, or nowhere when the ladder does not have the
\* price.
LEMMA AddRests ==
    ASSUME BookOK, BookOK', NEW side \in Side, NEW price \in Int, NEW quantity \in Nat,
           NEW id \in OrderIds, addOrder(side, price, quantity, id)
    PROVE  Abstract!Rest(side, price, id, quantity)
<1>1. inRange(price) <=> price \in Abstract!Ladder
  BY LadderAssumption DEF inRange, Abstract!Ladder
<1>2. CASE ~inRange(price) /\ UNCHANGED bookVars
  BY <1>1, <1>2, SameQueues DEF Abstract!Rest
<1>3. CASE inRange(price) /\ \E o \in Slots : Enters(o, id, side, price, quantity)
  BY <1>1, <1>3, EnterQueue DEF Abstract!Rest
<1> QED
  BY <1>2, <1>3, AddEnters

LEMMA IdleRequest ==
    ASSUME op = Idle, UNCHANGED callVars
    PROVE  reqBar = Abstract!Free /\ reqBar' = reqBar
<1>1. reqBar' = reqBar
  BY DEF callVars, reqBar
<1> QED
  BY <1>1, Requests

\* What a client or a feed calls is a step of PriceTimeBook.
LEMMA CallerImplements ==
    ASSUME Inv, Inv', SeparateIds, Trading \/ Feeding
    PROVE  Abstract!BNext \/ UNCHANGED Abstract!bvars
<1> USE RequestAssumption
<1>1. BookOK /\ BookOK'
  BY DEF Inv, TypeOK, BookOK
<1>2. ASSUME NEW side \in Side, NEW p \in Prices, NEW q \in Quantities, NEW id \in OrderIds,
             op = Idle, orders_[id] = NULL, addOrder(side, p, q, id), UNCHANGED callVars
      PROVE  Abstract!BNext
  <2>1. Abstract!Rest(side, p, id, q)
    BY <1>1, <1>2, AddRests
  <2>2. Abstract!Place(side, p, q, id)
    BY <1>1, <1>2, <2>1, NotKnown, IdleRequest DEF Abstract!Place
  <2>3. side \in Abstract!Sides
    BY DEF Side, Abstract!Sides
  <2> QED
    BY <2>2, <2>3 DEF Abstract!BNext
<1>3. ASSUME NEW id \in OrderIds, Cancel(id)
      PROVE  Abstract!BNext \/ UNCHANGED Abstract!bvars
  <2>1. reqBar = Abstract!Free /\ reqBar' = reqBar
    BY <1>3, IdleRequest DEF Cancel
  <2>2. CASE orders_[id] = NULL
    <3>1. queueBar' = queueBar
      BY <1>3, <2>2, SameQueues DEF Cancel, cancelOrder
    <3> QED
      BY <2>1, <3>1 DEF Abstract!bvars
  <2>3. CASE orders_[id] # NULL
    <3> DEFINE o == orders_[id]
               s == pool_[o].side
               p == pool_[o].price
               list == levels_[s][priceToIndex(p)]
    <3>1. Leaves(o) /\ o \in Live /\ pool_[o].id = id
      BY <1>1, <1>3, <2>3, CancelLeaves DEF Cancel, BookOK, IndexesAgree
    <3> HIDE DEF o
    <3>2. s \in Side /\ p \in Ladder /\ \E k \in 1 .. Len(list) : list[k] = o
      BY <1>1, <3>1, PlaceOf
    <3>3. PICK k \in 1 .. Len(list) : list[k] = o
      BY <3>2
    <3>4. k \in DOMAIN queueBar[s][p] /\ queueBar[s][p][k].id = id
      BY <1>1, <3>1, <3>2, <3>3, QueueAt
    <3>5. QueueBecomes(s, p, RemoveAt(queueBar[s][p], k))
      BY <1>1, <3>1, <3>3, LeaveQueue
    <3> HIDE DEF s, p
    <3>6. queueBar' = [queueBar EXCEPT ![s][p] = Abstract!RemoveAt(@, k)]
      BY <3>5 DEF QueueBecomes, RemoveAt, Abstract!RemoveAt
    <3>7. Abstract!Withdraw(id)
      BY <2>1, <3>2, <3>4, <3>6
         DEF Abstract!Withdraw, Abstract!Sides, Abstract!Ladder, Side, Ladder
    <3> QED
      BY <3>7 DEF Abstract!BNext
  <2> QED
    BY <2>2, <2>3
<1>4. ASSUME NEW id \in OrderIds, NEW q \in Quantities, Modify(id, q)
      PROVE  Abstract!BNext \/ UNCHANGED Abstract!bvars
  <2>1. reqBar = Abstract!Free /\ reqBar' = reqBar
    BY <1>4, IdleRequest DEF Modify
  <2>2. CASE orders_[id] = NULL
    <3>1. queueBar' = queueBar
      BY <1>4, <2>2, SameQueues DEF Modify, modifyOrder
    <3> QED
      BY <2>1, <3>1 DEF Abstract!bvars
  <2>3. CASE orders_[id] # NULL
    <3> DEFINE o == orders_[id]
               s == pool_[o].side
               p == pool_[o].price
               list == levels_[s][priceToIndex(p)]
    <3>1. Resizes(o, q) /\ o \in Live /\ pool_[o].id = id
      <4>1. q \in Nat
        OBVIOUS
      <4> QED
        BY <1>1, <1>4, <2>3, <4>1, ModifyResizes DEF Modify, BookOK, IndexesAgree
    <3> HIDE DEF o
    <3>2. s \in Side /\ p \in Ladder /\ \E k \in 1 .. Len(list) : list[k] = o
      BY <1>1, <3>1, PlaceOf
    <3>3. PICK k \in 1 .. Len(list) : list[k] = o
      BY <3>2
    <3>4. k \in DOMAIN queueBar[s][p] /\ queueBar[s][p][k].id = id
      BY <1>1, <3>1, <3>2, <3>3, QueueAt
    <3>5. QueueBecomes(s, p, WithQuantityAt(queueBar[s][p], k, q))
      BY <1>1, <3>1, <3>3, ResizeQueue
    <3> HIDE DEF s, p
    <3>6. queueBar' = [queueBar EXCEPT ![s][p][k].quantity = q]
      BY <3>5 DEF QueueBecomes, WithQuantityAt
    <3>7. Abstract!Resize(id, q)
      BY <2>1, <3>2, <3>4, <3>6
         DEF Abstract!Resize, Abstract!Sides, Abstract!Ladder, Side, Ladder
    <3> QED
      BY <3>7 DEF Abstract!BNext
  <2> QED
    BY <2>2, <2>3
\* A call begins.
<1>5. ASSUME NEW kind \in {"limit", "market", "exec"}, NEW side \in Side, NEW limit,
             NEW q \in Quantities, NEW taker, Begins(kind, side, limit, q, taker),
             NEW l, l = IF kind = "limit" THEN limit ELSE NULL,
             NEW rests, rests = (kind = "limit"), rests => orders_[taker] = NULL
      PROVE  Abstract!Request(side, l, q, taker, rests)
  <2>1. reqBar = Abstract!Free /\ queueBar' = queueBar
    BY <1>5, Requests, SameQueues DEF Begins
  <2>2. /\ op' # Idle /\ op'.kind = kind /\ op'.side = side /\ op'.limit = limit
        /\ op'.taker = taker /\ op'.rem = q /\ op'.filled = 0
    BY <1>5 DEF Begins
  <2>3. op'.rem - op'.filled = q
    BY <2>2
  <2>4. reqBar' = [kind |-> "working", side |-> side, limit |-> l, rem |-> q,
                   id |-> taker, rests |-> rests]
    BY <1>5, <2>2, <2>3, Zenon DEF reqBar
  <2>5. rests => ~Abstract!Known(taker)
    BY <1>1, <1>5, NotKnown
  <2> QED
    BY <2>1, <2>4, <2>5 DEF Abstract!Request
<1>6. ASSUME NEW side \in Side, NEW p \in Prices, NEW q \in Quantities, NEW id \in OrderIds,
             orders_[id] = NULL, Begins("limit", side, p, q, id)
      PROVE  Abstract!BNext
  <2>1. Abstract!Request(side, p, q, id, TRUE)
    BY <1>5, <1>6
  <2> QED
    BY <2>1 DEF Abstract!BNext, Abstract!Sides, Side
<1>7. ASSUME NEW side \in Side, NEW q \in Quantities, NEW kind \in {"market", "exec"},
             Begins(kind, side, AnyPrice(side), q, NULL)
      PROVE  Abstract!BNext
  <2> DEFINE rests == kind = "limit"
  <2>1. kind \in {"limit", "market", "exec"} /\ rests = FALSE
    BY <1>7
  <2>2. NULL = IF kind = "limit" THEN AnyPrice(side) ELSE NULL
    OBVIOUS
  <2>3. Abstract!Request(side, NULL, q, NULL, rests)
    BY <1>5, <1>7, <2>1, <2>2
  <2>4. Abstract!Request(side, NULL, q, NULL, FALSE)
    BY <2>1, <2>3
  <2> QED
    BY <2>4 DEF Abstract!BNext, Abstract!Sides, Side
<1>8. CASE Feeding
  <2>1. ASSUME NEW side \in Side, NEW p \in Prices, NEW q \in Quantities, AddAuto(side, p, q)
        PROVE  Abstract!BNext
    BY <1>2, <2>1 DEF AddAuto, Unused
  <2>2. ASSUME NEW side \in Side, NEW p \in Prices, NEW q \in Quantities, NEW id \in OrderIds,
               Add(side, p, q, id)
        PROVE  Abstract!BNext
    BY <1>2, <2>2 DEF Add, Unused
  <2> QED
    BY <1>8, <2>1, <2>2 DEF Feeding
<1>9. CASE Trading /\ op = Idle /\ op' = Idle
  <2>1. ASSUME NEW kind \in {"limit", "market", "exec"}, NEW side, NEW limit, NEW q, NEW taker,
               Call(kind, side, limit, q, taker)
        PROVE  op' # Idle
    <3>1. op'.kind = kind
      BY <2>1 DEF Call
    <3> QED
      BY <2>1, <3>1 DEF Idle
  <2> QED
    BY <1>3, <1>4, <1>9, <2>1 DEF Trading, submitLimit, submitMarket, executeMarketOrder
<1>10. CASE Trading /\ op' # Idle
  <2>1. CASE op = Idle /\ UNCHANGED callVars
    BY <1>10, <2>1 DEF callVars
  <2> QED
    BY <1>6, <1>7, <1>10, <2>1, CallerSteps
<1>11. CASE Trading
  <2>1. op = Idle
    BY <1>11 DEF Trading, submitLimit, submitMarket, executeMarketOrder, Cancel, Modify
  <2> QED
    BY <1>9, <1>10, <1>11, <2>1
<1> QED
  BY <1>8, <1>11

\* A queue is empty when its level is; its head is the head of the level.
LEMMA QueueHead ==
    ASSUME BookOK, NEW s \in Side, NEW p \in Ladder
    PROVE  LET list == levels_[s][priceToIndex(p)]
               Q == queueBar[s][p]
           IN  /\ Q = <<>> <=> list = <<>>
               /\ list # <<>> => /\ 1 \in 1 .. Len(list) /\ list[1] = Head(list) /\ Head(Q) = Q[1]
                                 /\ Q[1].quantity = pool_[Head(list)].quantity
                                 /\ RemoveAt(Q, 1) = Tail(Q)
<1> DEFINE list == levels_[s][priceToIndex(p)]
           Q == queueBar[s][p]
           T == {Items[x] : x \in Slots}
<1>1. list \in Seq(Slots)
  BY LevelOf
<1>2. Q = Read(list, Items)
  BY QueueIs
<1>3. Maps(Items, Slots, T)
  BY DEF Maps
<1> HIDE DEF T
<1>4. Q \in Seq(T) /\ Len(Q) = Len(list) /\ Len(list) \in Nat
  <2> HIDE DEF list, Q
  <2> QED
    BY <1>1, <1>2, <1>3, ReadList
<1>5. Q = <<>> <=> list = <<>>
  <2> HIDE DEF list, Q
  <2> QED
    BY <1>1, <1>4, EmptySeq
<1>6. ASSUME list # <<>>
      PROVE  /\ 1 \in 1 .. Len(list) /\ list[1] = Head(list) /\ Head(Q) = Q[1]
             /\ Q[1].quantity = pool_[Head(list)].quantity
             /\ RemoveAt(Q, 1) = Tail(Q)
  <2>1. /\ 1 \in 1 .. Len(list) /\ list[1] = Head(list) /\ Head(Q) = Q[1]
    <3> HIDE DEF list, Q
    <3> QED
      BY <1>1, <1>4, <1>5, <1>6, EmptySeq, HeadTailProperties
  <2>2. Q[1].quantity = pool_[list[1]].quantity
    BY <2>1, QueueAt
  <2>3. RemoveAt(Q, 1) = Tail(Q)
    <3> HIDE DEF list, Q
    <3> QED
      BY <1>4, <1>5, <1>6, RemoveOldest
  <2> QED
    BY <2>1, <2>2, <2>3
<1> QED
  BY <1>5, <1>6

\* The price of the cached best level is the best price that rests.
LEMMA BestPrice ==
    ASSUME BookOK, NEW s \in Side, NEW i \in Index, i = best_idx_[s], ~isEmpty(s, i)
    PROVE  /\ indexToPrice(i) \in Ladder /\ priceToIndex(indexToPrice(i)) = i
           /\ Abstract!IsBest(s, indexToPrice(i))
<1> DEFINE p == indexToPrice(i)
<1>1. p \in Ladder /\ priceToIndex(p) = i
  BY LadderAssumption DEF Ladder, indexToPrice, priceToIndex, Index
<1>2. \A r \in Ladder : r \in Abstract!Resting(s) <=> ~isEmpty(s, priceToIndex(r))
  BY QueueHead DEF Abstract!Resting, Abstract!Ladder, Ladder, isEmpty
<1>3. Abstract!Resting(s) \subseteq Ladder
  BY DEF Abstract!Resting, Abstract!Ladder, Ladder
<1>4. p \in Abstract!Resting(s)
  BY <1>1, <1>2
<1>5. ASSUME NEW r \in Abstract!Resting(s)
      PROVE  IF s = "BUY" THEN p >= r ELSE p <= r
  <2> DEFINE j == priceToIndex(r)
  <2>1. r \in Ladder /\ ~isEmpty(s, j) /\ j \in Index
    BY <1>2, <1>3, LadderIndex DEF Ladder
  <2>2. j \in Occupied(s) /\ i \in Occupied(s)
    BY <2>1 DEF Occupied, isEmpty
  <2>3. j = i \/ Better(s, i, j)
    BY <2>2 DEF BookOK, BestIsBest, IsTouch
  <2> QED
    BY <2>1, <2>3, LadderAssumption DEF Better, indexToPrice, priceToIndex, Index, Ladder
<1> QED
  BY <1>1, <1>4, <1>5 DEF Abstract!IsBest

\* The request after a step of a call that trades.
LEMMA LessRequest ==
    ASSUME NEW r, NEW lvl, NEW f, NEW d, GoesOn(r, lvl, f, d), NEW qty,
           r - d = op.rem - op.filled - qty
    PROVE  reqBar' = [reqBar EXCEPT !.rem = @ - qty]
<1> DEFINE b == op.kind = "limit"
           l == IF op.kind = "limit" THEN op.limit ELSE NULL
           n == op.rem - op.filled
           s == op.side
           t == op.taker
           m == n - qty
<1>1. /\ op # Idle /\ op' # Idle /\ op'.kind = op.kind /\ op'.side = s /\ op'.limit = op.limit
      /\ op'.taker = t /\ op'.rem = r /\ op'.filled = d
  BY DEF GoesOn
<1>2. reqBar = [kind |-> "working", side |-> s, limit |-> l, rem |-> n, id |-> t, rests |-> b]
  BY <1>1 DEF reqBar
<1>3. op'.rem - op'.filled = m
  BY <1>1
<1>4. reqBar' = [kind |-> "working", side |-> s, limit |-> l, rem |-> m, id |-> t, rests |-> b]
  BY <1>1, <1>3, Zenon DEF reqBar
<1>5. m = n - qty
  OBVIOUS
<1> HIDE DEF b, l, n, s, t, m
<1> QED
  BY <1>2, <1>4, <1>5

\* The order at the best level meets the request's limit.
LEMMA LevelAcceptable ==
    ASSUME CallTight, op # Idle, op.lvl >= 0
    PROVE  Abstract!Acceptable(op.side, indexToPrice(op.lvl), reqBar.limit)
<1>1. CASE op.kind = "limit"
  <2>1. reqBar.limit = op.limit /\ op.limit # NULL /\ Crosses(op.side, op.lvl, op.limit)
    BY <1>1, Requests, LimitAssumption DEF CallTight
  <2> QED
    BY <2>1 DEF Abstract!Acceptable, Crosses
<1>2. CASE op.kind # "limit"
  BY <1>2, Requests DEF Abstract!Acceptable
<1> QED
  BY <1>1, <1>2

\* A fill is a trade with the oldest order at the best price.
LEMMA FillTrades ==
    ASSUME Inv, Inv', CallTight, NEW m, NEW qty, Fills(m, qty), NEW r, NEW d,
           GoesOn(r, op.lvl, op.fill, d), op.rem - op.filled > 0,
           qty = (IF pool_[m].quantity < op.rem - op.filled THEN pool_[m].quantity
                  ELSE op.rem - op.filled),
           r - d = op.rem - op.filled - qty
    PROVE  Abstract!Trade
<1> DEFINE s == Book
           i == op.lvl
           p == indexToPrice(op.lvl)
           Q == queueBar[s][p]
           n == op.rem - op.filled
           list == levels_[s][priceToIndex(p)]
           mq == pool_[m].quantity
<1>1. /\ op # Idle /\ i \in Index /\ i >= 0 /\ ~isEmpty(s, i) /\ m = getHead(s, i) /\ m \in Live
      /\ pool_[m].side = s /\ priceToIndex(pool_[m].price) = i /\ mq \in Nat /\ qty \in Nat
      /\ qty <= mq
      /\ \/ qty = mq /\ Leaves(m)
         \/ qty # mq /\ Resizes(m, mq - qty)
  BY LadderAssumption DEF Fills, Index, At
<1>2. BookOK /\ BookOK' /\ s \in Side /\ op.side \in Side
  BY <1>1, CallFacts DEF Inv, TypeOK, BookOK
<1>3. i = best_idx_[s]
  BY <1>1 DEF CallTight
<1>4. p \in Ladder /\ priceToIndex(p) = i /\ Abstract!IsBest(s, p)
  BY <1>1, <1>2, <1>3, BestPrice
<1>5. pool_[m].price = p
  <2>1. pool_[m].price \in Int
    BY <1>1, <1>2, FiniteBook, LadderAssumption DEF Order
  <2> QED
    BY <1>1, <2>1, LadderAssumption DEF priceToIndex, indexToPrice
<1>6. list # <<>> /\ Head(list) = m
  BY <1>1, <1>4 DEF isEmpty, getHead
<1>7. /\ 1 \in 1 .. Len(list) /\ list[1] = m /\ Head(Q) = Q[1]
      /\ Q[1].quantity = mq /\ RemoveAt(Q, 1) = Tail(Q)
  BY <1>2, <1>4, <1>6, QueueHead
<1>8. s = Abstract!Other(op.side)
  BY DEF Book, Opposite, Abstract!Other
<1>9. /\ reqBar # Abstract!Free /\ reqBar.side = op.side /\ reqBar.rem = n
      /\ Abstract!Acceptable(op.side, p, reqBar.limit)
      /\ reqBar' = [reqBar EXCEPT !.rem = @ - qty]
  BY <1>1, Requests, LevelAcceptable, LessRequest
<1>10. ASSUME qty = mq PROVE queueBar' = [queueBar EXCEPT ![s][p] = Tail(@)]
  <2>1. Leaves(m)
    BY <1>1, <1>10
  <2>2. QueueBecomes(s, p, RemoveAt(queueBar[s][p], 1))
    BY <1>1, <1>2, <1>5, <1>7, <2>1, LeaveQueue
  <2> HIDE DEF s, p
  <2> QED
    BY <2>2, <1>7 DEF QueueBecomes
<1>11. ASSUME qty # mq PROVE queueBar' = [queueBar EXCEPT ![s][p] = [@ EXCEPT ![1].quantity = mq - qty]]
  <2> DEFINE q == mq - qty
  <2>1. Resizes(m, q)
    BY <1>1, <1>11
  <2> HIDE DEF q
  <2>2. QueueBecomes(s, p, WithQuantityAt(queueBar[s][p], 1, q))
    BY <1>1, <1>2, <1>5, <1>7, <2>1, ResizeQueue
  <2> HIDE DEF s, p
  <2>3. queueBar' = [queueBar EXCEPT ![s][p] = [@ EXCEPT ![1].quantity = q]]
    BY <2>2 DEF QueueBecomes, WithQuantityAt
  <2> QED
    BY <2>3 DEF q
<1> DEFINE maker == Head(queueBar[Abstract!Other(reqBar.side)][p])
           fill == IF maker.quantity < reqBar.rem THEN maker.quantity ELSE reqBar.rem
<1>12. maker.quantity = mq /\ fill = qty /\ reqBar.rem > 0
  BY <1>7, <1>8, <1>9
<1>13. queueBar' = [queueBar EXCEPT ![Abstract!Other(reqBar.side)][p] =
                       IF fill = maker.quantity THEN Tail(@)
                       ELSE [@ EXCEPT ![1].quantity = maker.quantity - fill]]
  <2> DEFINE t == Abstract!Other(reqBar.side)
  <2>1. t = s
    BY <1>8, <1>9
  <2>2. CASE qty = mq
    <3>1. fill = maker.quantity
      BY <1>12, <2>2
    <3> HIDE DEF s, p, maker, fill, t
    <3> QED
      BY <1>10, <2>1, <2>2, <3>1 DEF t
  <2>3. CASE qty # mq
    <3>1. fill # maker.quantity /\ maker.quantity - fill = mq - qty
      BY <1>12, <2>3
    <3> HIDE DEF s, p, maker, fill, t, mq
    <3> QED
      BY <1>11, <2>1, <2>3, <3>1 DEF t
  <2> QED
    BY <2>2, <2>3
<1>14. /\ reqBar # Abstract!Free /\ reqBar.rem > 0 /\ p \in Abstract!Ladder
       /\ Abstract!IsBest(Abstract!Other(reqBar.side), p)
       /\ Abstract!Acceptable(reqBar.side, p, reqBar.limit)
       /\ reqBar' = [reqBar EXCEPT !.rem = @ - fill]
  BY <1>4, <1>8, <1>9, <1>12 DEF Abstract!Ladder, Ladder
<1> HIDE DEF p, s
<1> QED
  BY <1>13, <1>14 DEF Abstract!Trade

LEMMA ExecTrades ==
    ASSUME Inv, Inv', CallTight, CountersExact, NEW m, NEW qty, Fills(m, qty),
           op.kind = "exec", op.filled < op.fill,
           qty = Lesser(pool_[m].quantity, op.fill - op.filled),
           GoesOn(op.rem, op.lvl, op.fill, op.filled + qty)
    PROVE  Abstract!Trade
<1> DEFINE s == Book
           i == op.lvl
           mq == pool_[m].quantity
           total == total_quantity_[s][i]
<1>1. /\ op # Idle /\ i \in Index /\ i >= 0 /\ m \in Live /\ At(m, s, i) /\ mq \in Nat /\ qty \in Nat
  BY LadderAssumption DEF Fills, Index
<1>2. /\ BookOK /\ s \in Side /\ op.rem \in Nat /\ op.fill \in Int /\ op.filled \in Nat
      /\ op.fill <= op.rem
  BY <1>1, CallFacts
<1>3. m \in Members(s, i)
  BY <1>1, <1>2, FiniteBook
<1>4. mq <= total /\ total \in Nat
  BY <1>1, <1>2, <1>3, TotalCovers
<1>5. op.fill = op.rem \/ op.fill - op.filled = total
  BY <1>1 DEF CallTight
<1> HIDE DEF mq, total
<1>6. /\ op.rem - op.filled > 0
      /\ qty = IF mq < op.rem - op.filled THEN mq ELSE op.rem - op.filled
      /\ op.rem - (op.filled + qty) = op.rem - op.filled - qty
  <2>1. qty = IF mq < op.fill - op.filled THEN mq ELSE op.fill - op.filled
    BY DEF Lesser, mq
  <2> QED
    BY <1>1, <1>2, <1>4, <1>5, <2>1
<1> QED
  BY <1>6, FillTrades DEF mq

\* When the best level does not cross, nothing that rests is acceptable.
LEMMA NothingAcceptable ==
    ASSUME BookOK, CallTight, op # Idle, op.side \in Side, op.limit \in Int,
           ~(best_idx_[Book] >= 0 /\ Crosses(op.side, best_idx_[Book], op.limit))
    PROVE  \A p \in Abstract!Resting(Abstract!Other(reqBar.side)) :
              ~Abstract!Acceptable(reqBar.side, p, reqBar.limit)
<1>1. /\ reqBar.side = op.side /\ Abstract!Other(op.side) = Book /\ Book \in Side
      /\ reqBar.limit = IF op.kind = "limit" THEN op.limit ELSE NULL
  BY Requests DEF Book, Opposite, Abstract!Other, Side
<1> SUFFICES ASSUME NEW p \in Abstract!Resting(Book), Abstract!Acceptable(op.side, p, reqBar.limit)
             PROVE  FALSE
  BY <1>1
<1>2. p \in Ladder /\ queueBar[Book][p] # <<>>
  BY DEF Abstract!Resting, Abstract!Ladder, Ladder
<1> DEFINE list == levels_[Book][priceToIndex(p)]
<1>3. list # <<>>
  BY <1>1, <1>2, QueueHead
<1>4. 1 \in 1 .. Len(list)
  BY <1>1, <1>2, <1>3, QueueHead
<1>5. PICK o \in Live : pool_[o].side = Book /\ pool_[o].price = p
  <2>1. list \in Seq(Slots) /\ Range(list) = {o \in Live : pool_[o].side = Book /\ pool_[o].price = p}
    BY <1>1, <1>2, LevelOf
  <2> HIDE DEF list
  <2>2. list[1] \in Range(list)
    BY <1>4, <2>1, LenProperties DEF Range
  <2> QED
    BY <2>1, <2>2
<1>6. Crosses(op.side, priceToIndex(p), op.limit)
  <2>1. indexToPrice(priceToIndex(p)) = p /\ MinPrice <= p /\ p <= MaxPrice
    BY <1>2, LadderAssumption DEF indexToPrice, priceToIndex, Ladder
  <2>2. CASE op.kind = "limit"
    <3>1. op.limit # NULL
      BY <2>2, LimitAssumption DEF CallTight
    <3> QED
      BY <1>1, <2>1, <2>2, <3>1 DEF Abstract!Acceptable, Crosses
  <2>3. CASE op.kind # "limit"
    BY <2>1, <2>3 DEF CallTight, AnyPrice, Crosses
  <2> QED
    BY <2>2, <2>3
<1> QED
  BY <1>5, <1>6, BestCrossesFirst DEF Book

LEMMA Rests ==
    ASSUME op # Idle
    PROVE  reqBar.rests <=> op.kind = "limit"
<1>1. CASE op.kind = "limit"
  <2> DEFINE l == op.limit
             r == op.rem - op.filled
  <2>1. (op.kind = "limit") = TRUE
    BY <1>1
  <2>2. reqBar = [kind |-> "working", side |-> op.side, limit |-> l, rem |-> r,
                  id |-> op.taker, rests |-> TRUE]
    BY <1>1, <2>1, Zenon DEF reqBar
  <2> HIDE DEF l, r
  <2> QED
    BY <1>1, <2>2
<1>2. CASE op.kind # "limit"
  <2> DEFINE r == op.rem - op.filled
  <2>1. (op.kind = "limit") = FALSE
    BY <1>2
  <2>2. reqBar = [kind |-> "working", side |-> op.side, limit |-> NULL, rem |-> r,
                  id |-> op.taker, rests |-> FALSE]
    BY <1>2, <2>1, Zenon DEF reqBar
  <2> HIDE DEF r
  <2> QED
    BY <1>2, <2>2
<1> QED
  BY <1>1, <1>2

\* A call that returns settles its request.
LEMMA ReturnSettles ==
    ASSUME Inv, Inv', CallTight, CountersExact, Positive, op # Idle, op' = Idle,
           MatchReturn \/ ExecReturn \/ (ExecLevelDone /\ op.filled = 0)
    PROVE  Abstract!Settle
<1>1. /\ BookOK /\ BookOK' /\ op.side \in Side /\ op.limit \in Int /\ op.rem \in Nat
      /\ Book \in Side /\ best_idx_[Book] \in Index \cup {-1}
  BY CallFacts DEF Inv, TypeOK, BookOK
<1>2. reqBar # Abstract!Free /\ reqBar' = Abstract!Free /\ reqBar.side = op.side
      /\ reqBar.id = op.taker
      /\ reqBar.limit = (IF op.kind = "limit" THEN op.limit ELSE NULL)
      /\ (reqBar.rests <=> op.kind = "limit")
  <2>1. reqBar' = Abstract!Free
    BY DEF reqBar, Idle, Abstract!Free
  <2> QED
    BY <2>1, Requests, Rests
<1>3. ~(ExecLevelDone /\ op.filled = 0)
  BY LevelFillsNothing DEF Positive
<1>4. op.filled = 0 /\ reqBar.rem = op.rem
  <2>1. op.filled = 0
    BY <1>3 DEF MatchReturn, ExecReturn, Running, CallTight
  <2> QED
    BY <1>1, <2>1, Requests
<1>5. ASSUME op.rem = 0 \/ ~(best_idx_[Book] >= 0 /\ Crosses(op.side, best_idx_[Book], op.limit))
      PROVE  \/ reqBar.rem = 0
             \/ \A p \in Abstract!Resting(Abstract!Other(reqBar.side)) :
                   ~Abstract!Acceptable(reqBar.side, p, reqBar.limit)
  BY <1>1, <1>4, <1>5, NothingAcceptable
<1>6. CASE MatchReturn
  <2>1. op.rem = 0 \/ ~(best_idx_[Book] >= 0 /\ Crosses(op.side, best_idx_[Book], op.limit))
    BY <1>1, <1>6 DEF MatchReturn, OuterLoop
  <2>2. CASE op.kind = "limit" /\ op.rem > 0
    <3>1. addOrder(op.side, op.limit, op.rem, op.taker) /\ op.taker \in OrderIds
      BY <1>6, <2>2 DEF MatchReturn, Inv, CallOK
    <3>2. Abstract!Rest(op.side, op.limit, op.taker, op.rem)
      BY <1>1, <3>1, AddRests
    <3>3. /\ reqBar.rests /\ reqBar.rem > 0
          /\ Abstract!Rest(reqBar.side, reqBar.limit, reqBar.id, reqBar.rem)
      BY <1>2, <1>4, <2>2, <3>2
    <3> QED
      BY <1>2, <1>5, <2>1, <3>3 DEF Abstract!Settle
  <2>3. CASE ~(op.kind = "limit" /\ op.rem > 0)
    <3>1. queueBar' = queueBar
      BY <1>6, <2>3, SameQueues DEF MatchReturn
    <3>2. ~(reqBar.rests /\ reqBar.rem > 0)
      BY <1>2, <1>4, <2>3
    <3> QED
      BY <1>2, <1>5, <2>1, <3>1, <3>2 DEF Abstract!Settle
  <2> QED
    BY <2>2, <2>3
<1>7. CASE ExecReturn
  <2>1. op.rem = 0 \/ ~(best_idx_[Book] >= 0)
    BY <1>1, <1>7 DEF ExecReturn, OuterLoop
  <2>2. queueBar' = queueBar /\ ~reqBar.rests
    BY <1>2, <1>7, SameQueues DEF ExecReturn, Running
  <2> QED
    BY <1>2, <1>5, <2>1, <2>2 DEF Abstract!Settle
<1> QED
  BY <1>3, <1>6, <1>7

\* An iteration of the loops trades, settles, or is not seen by PriceTimeBook.
LEMMA StepImplements ==
    ASSUME Inv, Inv', CallTight, CountersExact, Positive, Step
    PROVE  Abstract!BNext \/ UNCHANGED Abstract!bvars
<1>1. op # Idle
  BY StepRuns
<1>2. op.rem \in Nat /\ op.filled \in Nat /\ op.fill \in Int
  BY <1>1, CallFacts
<1>3. ASSUME NEW r, NEW lvl, NEW f, NEW d, GoesOn(r, lvl, f, d), r - d = op.rem - op.filled,
             UNCHANGED bookVars
      PROVE  UNCHANGED Abstract!bvars
  BY <1>3, SameQueues, SameRequest DEF Abstract!bvars
<1>4. CASE MatchLevel /\ UNCHANGED bookVars /\ GoesOn(op.rem, best_idx_[Book], op.fill, op.filled)
  BY <1>3, <1>4
<1>5. CASE MatchLevelDone /\ UNCHANGED bookVars /\ GoesOn(op.rem, -1, op.fill, op.filled)
  BY <1>3, <1>5
<1>6. CASE /\ ExecLevel /\ UNCHANGED bookVars
           /\ GoesOn(op.rem, best_idx_[Book],
                     Lesser(op.rem, total_quantity_[Book][best_idx_[Book]]), 0)
  <2>1. op.filled = 0
    BY <1>1, <1>6 DEF ExecLevel, CallTight
  <2> QED
    BY <1>3, <1>6, <2>1
<1>7. CASE ExecLevelDone /\ UNCHANGED bookVars /\ GoesOn(op.rem - op.filled, -1, 0, 0)
  <2>1. op.rem - op.filled - 0 = op.rem - op.filled
    BY <1>2
  <2> QED
    BY <1>3, <1>7, <2>1
<1>8. ASSUME NEW m \in Live, NEW qty \in Nat, Fills(m, qty), op.kind \in {"limit", "market"},
             op.rem > 0, qty = Lesser(op.rem, pool_[m].quantity),
             GoesOn(op.rem - qty, op.lvl, op.fill, op.filled)
      PROVE  Abstract!Trade
  <2> DEFINE mq == pool_[m].quantity
             r == op.rem - qty
  <2>1. op.filled = 0 /\ mq \in Nat
    BY <1>1, <1>8 DEF CallTight, Fills
  <2>2. qty = IF op.rem < mq THEN op.rem ELSE mq
    BY <1>8 DEF Lesser
  <2> HIDE DEF mq
  <2>3. /\ op.rem - op.filled > 0
        /\ qty = (IF mq < op.rem - op.filled THEN mq ELSE op.rem - op.filled)
        /\ r - op.filled = op.rem - op.filled - qty
    BY <1>2, <1>8, <2>1, <2>2
  <2> HIDE DEF r
  <2>4. GoesOn(r, op.lvl, op.fill, op.filled)
    BY <1>8 DEF r
  <2> QED
    BY <1>8, <2>3, <2>4, FillTrades DEF mq
<1>9. CASE op' = Idle /\ (MatchReturn \/ ExecReturn \/ (ExecLevelDone /\ op.filled = 0))
  BY <1>1, <1>9, ReturnSettles DEF Abstract!BNext
<1>10. ASSUME NEW m \in Live, NEW qty \in Nat, Fills(m, qty), op.kind = "exec",
              op.filled < op.fill, qty = Lesser(pool_[m].quantity, op.fill - op.filled),
              GoesOn(op.rem, op.lvl, op.fill, op.filled + qty)
       PROVE  Abstract!Trade
  BY <1>10, ExecTrades
<1>11. Abstract!Trade => Abstract!BNext
  BY DEF Abstract!BNext
<1> QED
  BY <1>4, <1>5, <1>6, <1>7, <1>8, <1>9, <1>10, <1>11, LoopSteps

\* The engine starts where PriceTimeBook starts.
LEMMA InitImplements == Init => Abstract!BInit
<1> SUFFICES ASSUME Init PROVE Abstract!BInit
  OBVIOUS
<1>1. reqBar = Abstract!Free
  BY Requests DEF Init
<1>2. \A s \in Side, p \in Ladder : QueueOf(s, p) = <<>>
  <2> SUFFICES ASSUME NEW s \in Side, NEW p \in Ladder PROVE QueueOf(s, p) = <<>>
    OBVIOUS
  <2>1. levels_[s][priceToIndex(p)] = <<>>
    BY LadderIndex DEF Init, Ladder
  <2> QED
    BY <2>1 DEF QueueOf
<1>3. queueBar = [s \in Side |-> [p \in Ladder |-> QueueOf(s, p)]]
  BY DEF queueBar, Ladder
<1>4. queueBar = [s \in Side |-> [p \in Ladder |-> <<>>]]
  BY <1>2, <1>3
<1> QED
  BY <1>1, <1>4 DEF Abstract!BInit, Abstract!Sides, Side, Abstract!Ladder, Ladder

\* orderbook.hpp, submitLimit: "match against the resting book in price-time priority, then
\* rest any unfilled remainder"; submitMarket: "match at any price until filled or the book is
\* exhausted".  For every ladder, pool, set of ids, prices and positive quantities the ladder,
\* bitmap, best indices, map, pool and counters, with the loops of match and of
\* executeMarketOrder, implement PriceTimeBook: every step is one of its steps or changes
\* nothing there.
THEOREM EngineKeepsPriority ==
    ASSUME SeparateIds, 0 \notin Quantities
    PROVE  Spec => PriceTimePriority
<1>1. Init => Positive
  BY DEF Init, Positive, Live
<1>2. Inv /\ Positive /\ [Next]_vars => Positive'
  BY NextPositive
<1>3. Spec => []Positive
  BY <1>1, <1>2, BookInvariant, PTL DEF Spec
<1>4. Inv /\ Inv' /\ CallTight /\ CountersExact /\ Positive /\ [Next]_vars =>
        [Abstract!BNext]_(Abstract!bvars)
  <2> SUFFICES ASSUME Inv, Inv', CallTight, CountersExact, Positive, [Next]_vars
               PROVE  Abstract!BNext \/ UNCHANGED Abstract!bvars
    OBVIOUS
  <2>1. CASE UNCHANGED vars
    <3>1. UNCHANGED bookVars /\ op' = op
      BY <2>1 DEF vars, callVars
    <3>2. reqBar' = reqBar
      BY <3>1 DEF reqBar
    <3> QED
      BY <3>1, <3>2, SameQueues DEF Abstract!bvars
  <2> QED
    BY <2>1, CallerImplements, StepImplements DEF Next
<1> QED
  BY <1>3, <1>4, InitImplements, BookInvariant, CallsTight, CountersAlwaysExact, PTL
     DEF Spec, PriceTimePriority, Abstract!BSpec
=============================================================================
