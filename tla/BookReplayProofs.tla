--------------------------- MODULE BookReplayProofs ---------------------------
(***************************************************************************)
(* The replayed book follows the venue, proved for every feed, ladder,     *)
(* tick and pool.  The invariant ties the book's orders to the venue's one *)
(* by one, with one exception: in the middle of onReplace the venue has    *)
(* moved the order and the book has only cancelled the old one.            *)
(***************************************************************************)
EXTENDS BookReplay, OrderBookProofs

-----------------------------------------------------------------------------
(* Lists whose elements have ascending stamps.                             *)

Sorted(list, h) == \A j \in 1 .. Len(list), k \in 1 .. Len(list) : j < k => h[list[j]] < h[list[k]]

Below(h, S, t) == \A x \in S : h[x] < t

LEMMA SortedSame ==
    ASSUME NEW S, NEW list \in Seq(S), NEW h, NEW g, Agree(g, h, Range(list)), Sorted(list, h)
    PROVE  Sorted(list, g)
<1>1. \A k \in 1 .. Len(list) : list[k] \in Range(list)
  BY LenProperties DEF Range
<1> QED
  BY <1>1 DEF Sorted, Agree

LEMMA SortedAppend ==
    ASSUME NEW S, NEW list \in Seq(S), NEW o \in S, NEW h, NEW g, Agree(g, h, Range(list)),
           Sorted(list, h), Below(h, Range(list), g[o])
    PROVE  Sorted(Append(list, o), g)
<1> DEFINE n == Len(list)
           A == Append(list, o)
<1>1. n \in Nat /\ \A k \in 1 .. n : list[k] \in Range(list)
  BY LenProperties DEF Range
<1>2. Len(A) = n + 1 /\ A[n + 1] = o /\ \A k \in 1 .. n : A[k] = list[k]
  BY AppendProperties
<1> HIDE DEF A, n
<1>3. \A j \in 1 .. n, k \in 1 .. n : j < k => h[list[j]] < h[list[k]]
  BY DEF Sorted, n
<1> SUFFICES ASSUME NEW j \in 1 .. n + 1, NEW k \in 1 .. n + 1, j < k
             PROVE  g[A[j]] < g[A[k]]
  BY <1>2 DEF Sorted, A
<1>4. j \in 1 .. n /\ A[j] = list[j] /\ g[list[j]] = h[list[j]]
  BY <1>1, <1>2 DEF Agree
<1>5. CASE k = n + 1
  BY <1>1, <1>2, <1>4, <1>5 DEF Below
<1>6. CASE k \in 1 .. n
  <2>1. A[k] = list[k] /\ g[list[k]] = h[list[k]]
    BY <1>1, <1>2, <1>6 DEF Agree
  <2> QED
    BY <1>3, <1>4, <1>6, <2>1
<1> QED
  BY <1>1, <1>5, <1>6

LEMMA SortedRemove ==
    ASSUME NEW S, NEW list \in Seq(S), NEW i \in 1 .. Len(list), NEW h, NEW g,
           AgreeBut(g, h, list, i), Sorted(list, h)
    PROVE  Sorted(RemoveAt(list, i), g)
<1> DEFINE n == Len(list)
           cut == [j \in 1 .. n - 1 |-> IF j < i THEN list[j] ELSE list[j + 1]]
<1>1. RemoveAt(list, i) = cut /\ n \in Nat
  BY RemoveAtIs, LenProperties
<1>2. Len(cut) = n - 1
  <2>1. n - 1 \in Nat
    BY <1>1
  <2> HIDE DEF n
  <2> QED
    BY <2>1
<1>3. i \in 1 .. n /\ \A j \in 1 .. n : j # i => g[list[j]] = h[list[j]]
  BY DEF AgreeBut
<1>4. \A j \in 1 .. n, k \in 1 .. n : j < k => h[list[j]] < h[list[k]]
  BY DEF Sorted
<1> HIDE DEF n
<1>5. \A j \in 1 .. n - 1, k \in 1 .. n - 1 : j < k => g[cut[j]] < g[cut[k]]
  <2> SUFFICES ASSUME NEW j \in 1 .. n - 1, NEW k \in 1 .. n - 1, j < k
               PROVE  g[cut[j]] < g[cut[k]]
    OBVIOUS
  <2> DEFINE a == IF j < i THEN j ELSE j + 1
             b == IF k < i THEN k ELSE k + 1
  <2>1. a \in 1 .. n /\ b \in 1 .. n /\ a < b /\ a # i /\ b # i
    BY <1>1, <1>3
  <2>2. cut[j] = list[a] /\ cut[k] = list[b]
    OBVIOUS
  <2> HIDE DEF a, b, cut
  <2> QED
    BY <1>3, <1>4, <2>1, <2>2
<1> HIDE DEF cut
<1> QED
  BY <1>1, <1>2, <1>5 DEF Sorted

-----------------------------------------------------------------------------
(* The three changes of the book against the venue.                        *)

\* The message that put the order in a slot where it stands.
Stamp == [o \in Slots |-> venue[pool_[o].id].time]

\* Every order of the book is open at the venue, with the same side, price and quantity.
Mirrored == \A ref \in OrderIds : orders_[ref] # NULL => Open(ref) /\ Mirrors(ref, orders_[ref])

\* Every level has its orders as the venue has queued them.
Queued == \A s \in Side, i \in Index : Sorted(levels_[s][i], Stamp)

\* The venue has left alone every order of the book but one.
Kept(ref) == \A x \in OrderIds \ {ref} : orders_[x] # NULL => venue'[x] = venue[x]

\* The orders in the slots, seen from the venue.
LEMMA SlotRefs ==
    ASSUME BookOK, NEW o \in Live
    PROVE  /\ o \in Slots /\ pool_[o].id \in OrderIds /\ orders_[pool_[o].id] = o /\ o # NULL
           /\ Stamp[o] = venue[pool_[o].id].time
<1>1. o \in Slots /\ pool_[o].id \in OrderIds
  BY FiniteBook DEF Order
<1> QED
  BY <1>1, PoolAssumption DEF BookOK, IndexesAgree, Stamp

LEMMA SlotRefsNext ==
    ASSUME BookOK', NEW o \in Live'
    PROVE  /\ o \in Slots /\ pool_'[o].id \in OrderIds /\ orders_'[pool_'[o].id] = o /\ o # NULL
           /\ Stamp'[o] = venue'[pool_'[o].id].time
<1>1. o \in Slots /\ pool_'[o] \in Order
  BY DEF BookOK, BookTypeOK, Live
<1>2. pool_'[o].id \in OrderIds
  BY <1>1 DEF Order
<1> QED
  BY <1>1, <1>2, PoolAssumption DEF BookOK, IndexesAgree, Stamp

\* A list keeps its stamps when the slots in it keep their orders and the venue keeps those.
LEMMA SameStamps ==
    ASSUME BookOK, BookOK', NEW ref, Kept(ref), NEW T \in SUBSET Live, T \subseteq Live',
           \A x \in T : pool_'[x].id = pool_[x].id /\ pool_[x].id # ref
    PROVE  Agree(Stamp', Stamp, T)
<1> SUFFICES ASSUME NEW x \in T PROVE Stamp'[x] = Stamp[x]
  BY DEF Agree
<1>1. /\ pool_[x].id \in OrderIds \ {ref} /\ orders_[pool_[x].id] # NULL
      /\ Stamp[x] = venue[pool_[x].id].time
  BY SlotRefs
<1>2. Stamp'[x] = venue'[pool_'[x].id].time
  BY SlotRefsNext
<1> QED
  BY <1>1, <1>2 DEF Kept

\* The slots of a level are live.
LEMMA LevelSlots ==
    ASSUME BookOK, NEW s \in Side, NEW i \in Index
    PROVE  levels_[s][i] \in Seq(Slots) /\ Range(levels_[s][i]) \subseteq Live
           /\ \A x \in Range(levels_[s][i]) : At(x, s, i)
BY DEF BookOK, BookTypeOK, IndexesAgree, At

LEMMA EnterFollows ==
    ASSUME BookOK, BookOK', Mirrored, Queued,
           NEW o, NEW ref, NEW side, NEW price, NEW quantity, Enters(o, ref, side, price, quantity),
           orders_[ref] = NULL, \A x \in OrderIds \ {ref} : orders_'[x] = orders_[x],
           Kept(ref), venue'[ref] # NULL, venue'[ref].side = side,
           venue'[ref].price \div TickUnits = price, venue'[ref].shares = quantity,
           \A x \in OrderIds : orders_[x] # NULL => venue[x].time < venue'[ref].time
    PROVE  Mirrored' /\ Queued' /\ orders_'[ref] # NULL
<1>1. Entered(o, ref, side, price, quantity)
  BY EnterFacts
<1>2. /\ o \in Slots /\ o \notin Live /\ side \in Side /\ ref \in OrderIds
      /\ priceToIndex(price) \in Index /\ Live' = Live \cup {o}
      /\ pool_'[o] = [id |-> ref, side |-> side, price |-> price, quantity |-> quantity]
      /\ \A x \in Live : pool_'[x] = pool_[x]
      /\ \A s \in Side, i \in Index :
            levels_'[s][i] = IF s = side /\ i = priceToIndex(price)
                             THEN Append(levels_[s][i], o) ELSE levels_[s][i]
  BY <1>1 DEF Entered
<1>3. pool_'[o].id = ref /\ orders_'[ref] = o /\ o # NULL /\ Stamp'[o] = venue'[ref].time
  BY <1>2, SlotRefsNext
<1>4. Mirrors(ref, o)'
  BY <1>2 DEF Mirrors
<1>5. ASSUME NEW x \in OrderIds \ {ref}, orders_'[x] # NULL
      PROVE  (Open(x) /\ Mirrors(x, orders_[x]))'
  <2>1. orders_'[x] = orders_[x] /\ venue'[x] = venue[x] /\ Open(x) /\ Mirrors(x, orders_[x])
    BY <1>5 DEF Kept, Mirrored
  <2>2. orders_[x] \in Live
    BY <1>5, <2>1 DEF BookOK, IndexesAgree
  <2>3. pool_'[orders_[x]] = pool_[orders_[x]]
    BY <1>2, <2>2
  <2> QED
    BY <2>1, <2>3 DEF Open, Mirrors
<1>6. Mirrored'
  BY <1>3, <1>4, <1>5 DEF Mirrored, Open
<1>7. ASSUME NEW s \in Side, NEW i \in Index
      PROVE  Sorted(levels_'[s][i], Stamp')
  <2> DEFINE list == levels_[s][i]
             T == Range(list)
  <2>1. list \in Seq(Slots) /\ T \subseteq Live
    BY LevelSlots
  <2>2. \A x \in T : pool_'[x].id = pool_[x].id /\ pool_[x].id # ref
    BY <1>2, <2>1, SlotRefs
  <2>3. Sorted(list, Stamp)
    BY DEF Queued
  <2> HIDE DEF list
  <2>4. Agree(Stamp', Stamp, T)
    BY <1>2, <2>1, <2>2, SameStamps
  <2>5. Sorted(list, Stamp')
    BY <2>1, <2>3, <2>4, SortedSame
  <2>6. Sorted(Append(list, o), Stamp')
    <3>1. Below(Stamp, T, Stamp'[o])
      BY <1>3, <2>1, SlotRefs DEF Below
    <3> QED
      BY <1>2, <2>1, <2>3, <2>4, <3>1, SortedAppend
  <2>7. levels_'[s][i] = list \/ levels_'[s][i] = Append(list, o)
    BY <1>2 DEF list
  <2> QED
    BY <2>5, <2>6, <2>7
<1>8. Queued'
  BY <1>7 DEF Queued
<1> QED
  BY <1>3, <1>6, <1>8

LEMMA LeaveFollows ==
    ASSUME BookOK, BookOK', Mirrored, Queued, NEW ref \in OrderIds, orders_[ref] # NULL,
           Leaves(orders_[ref]), \A x \in OrderIds \ {ref} : orders_'[x] = orders_[x],
           orders_'[ref] = NULL, Kept(ref)
    PROVE  Mirrored' /\ Queued'
<1> DEFINE o == orders_[ref]
           side == pool_[o].side
           idx == priceToIndex(pool_[o].price)
<1>1. o \in Live /\ pool_[o].id = ref
  BY DEF BookOK, IndexesAgree
<1>2. /\ o \in Slots /\ side \in Side /\ idx \in Index /\ Live' = Live \ {o}
      /\ \A x \in Slots \ {o} : pool_'[x] = pool_[x]
      /\ \A s \in Side, i \in Index :
            levels_'[s][i] = IF s = side /\ i = idx THEN unlink(levels_[s][i], o) ELSE levels_[s][i]
      /\ o \in Members(side, idx)
  BY LeaveFacts
<1>3. Live \subseteq Slots
  BY FiniteBook
<1> HIDE DEF o, side, idx
<1>4. ASSUME NEW x \in OrderIds, orders_'[x] # NULL
      PROVE  (Open(x) /\ Mirrors(x, orders_[x]))'
  <2>1. x # ref
    BY <1>4
  <2>2. orders_'[x] = orders_[x] /\ venue'[x] = venue[x] /\ Open(x) /\ Mirrors(x, orders_[x])
    BY <1>4, <2>1 DEF Kept, Mirrored
  <2>3. orders_[x] \in Live /\ pool_[orders_[x]].id = x
    BY <1>4, <2>2 DEF BookOK, IndexesAgree
  <2>4. pool_'[orders_[x]] = pool_[orders_[x]]
    BY <1>1, <1>2, <1>3, <2>1, <2>3
  <2> QED
    BY <2>2, <2>4 DEF Open, Mirrors
<1>5. Mirrored'
  BY <1>4 DEF Mirrored
<1>6. ASSUME NEW s \in Side, NEW i \in Index
      PROVE  Sorted(levels_'[s][i], Stamp')
  <2> DEFINE list == levels_[s][i]
  <2>1. list \in Seq(Slots) /\ Range(list) \subseteq Live /\ IsInjective(list)
    BY DEF BookOK, BookTypeOK, IndexesAgree
  <2>2. Sorted(list, Stamp)
    BY DEF Queued
  <2>3. \A x \in Live \ {o} : pool_'[x].id = pool_[x].id /\ pool_[x].id # ref
    BY <1>1, <1>2, <1>3, SlotRefs
  <2>4. Agree(Stamp', Stamp, Live \ {o})
    BY <1>2, <2>3, SameStamps
  <2>5. CASE o \notin Range(list)
    <3>1. levels_'[s][i] = list
      <4>1. ~(s = side /\ i = idx)
        BY <1>2, <2>5 DEF Members
      <4> QED
        BY <1>2, <4>1
    <3> HIDE DEF list
    <3>2. Agree(Stamp', Stamp, Range(list))
      BY <2>1, <2>4, <2>5 DEF Agree
    <3> QED
      BY <2>1, <2>2, <3>1, <3>2, SortedSame
  <2>6. CASE o \in Range(list)
    <3>1. levels_'[s][i] = unlink(list, o)
      <4>1. s = side /\ i = idx
        BY <2>6, LevelSlots DEF At, side, idx
      <4> QED
        BY <1>2, <4>1
    <3> HIDE DEF list
    <3>2. PICK k \in 1 .. Len(list) : list[k] = o
      BY <2>1, <2>6, LenProperties DEF Range
    <3>3. /\ DOMAIN list = 1 .. Len(list)
          /\ \A j \in 1 .. Len(list) : list[j] \in Range(list) /\ (list[j] = o => j = k)
      BY <2>1, <3>2, LenProperties DEF IsInjective, Range
    <3>4. unlink(list, o) = RemoveAt(list, k)
      <4>1. (CHOOSE j \in DOMAIN list : list[j] = o) = k
        BY <3>2, <3>3
      <4> QED
        BY <4>1 DEF unlink
    <3>5. AgreeBut(Stamp', Stamp, list, k)
      BY <2>1, <2>4, <3>3 DEF AgreeBut, Agree
    <3> QED
      BY <2>1, <2>2, <3>1, <3>2, <3>4, <3>5, SortedRemove
  <2> QED
    BY <2>5, <2>6
<1> QED
  BY <1>5, <1>6 DEF Queued

LEMMA ResizeFollows ==
    ASSUME BookOK, BookOK', Mirrored, Queued, NEW ref \in OrderIds, orders_[ref] # NULL,
           NEW q, Resizes(orders_[ref], q), orders_' = orders_, Kept(ref), venue'[ref] # NULL,
           venue'[ref].side = venue[ref].side, venue'[ref].price = venue[ref].price,
           venue'[ref].time = venue[ref].time, venue'[ref].shares = q
    PROVE  Mirrored' /\ Queued'
<1> DEFINE o == orders_[ref]
<1>1. o \in Live /\ pool_[o].id = ref
  BY DEF BookOK, IndexesAgree
<1>2. /\ Live' = Live /\ pool_[o] \in Order /\ pool_'[o] = [pool_[o] EXCEPT !.quantity = q]
      /\ \A x \in Slots \ {o} : pool_'[x] = pool_[x]
      /\ levels_' = levels_ /\ Live \subseteq Slots
  BY <1>1, ResizeFacts, FiniteBook
<1> HIDE DEF o
<1>3. /\ pool_'[o].id = ref /\ pool_'[o].side = pool_[o].side /\ pool_'[o].price = pool_[o].price
      /\ pool_'[o].quantity = q
  BY <1>1, <1>2 DEF Order
<1>4. Mirrors(ref, o)'
  BY <1>3 DEF Mirrored, Mirrors, o
<1>5. ASSUME NEW x \in OrderIds \ {ref}, orders_[x] # NULL
      PROVE  Open(x)' /\ Mirrors(x, orders_[x])'
  <2>1. venue'[x] = venue[x] /\ Open(x) /\ Mirrors(x, orders_[x])
    BY <1>5 DEF Kept, Mirrored
  <2>2. orders_[x] \in Live /\ pool_[orders_[x]].id = x
    BY <1>5 DEF BookOK, IndexesAgree
  <2>3. pool_'[orders_[x]] = pool_[orders_[x]]
    BY <1>1, <1>2, <2>2
  <2> QED
    BY <2>1, <2>3 DEF Open, Mirrors
<1>6. Mirrored'
  BY <1>4, <1>5 DEF Mirrored, Open, o
<1>7. Agree(Stamp', Stamp, Live)
  <2> SUFFICES ASSUME NEW x \in Live PROVE Stamp'[x] = Stamp[x]
    BY DEF Agree
  <2>1. /\ pool_[x].id \in OrderIds /\ orders_[pool_[x].id] # NULL /\ orders_[pool_[x].id] = x
        /\ Stamp[x] = venue[pool_[x].id].time
    BY SlotRefs
  <2>2. Stamp'[x] = venue'[pool_'[x].id].time
    BY <1>2, SlotRefsNext
  <2>3. pool_'[x].id = pool_[x].id
    BY <1>1, <1>2, <1>3
  <2>4. venue'[pool_[x].id].time = venue[pool_[x].id].time
    BY <2>1 DEF Kept
  <2> QED
    BY <2>1, <2>2, <2>3, <2>4
<1>8. ASSUME NEW s \in Side, NEW i \in Index
      PROVE  Sorted(levels_'[s][i], Stamp')
  <2> DEFINE list == levels_[s][i]
  <2>1. list \in Seq(Slots) /\ Range(list) \subseteq Live /\ levels_'[s][i] = list
    BY <1>2, LevelSlots
  <2>2. Sorted(list, Stamp)
    BY DEF Queued
  <2> HIDE DEF list
  <2>3. Agree(Stamp', Stamp, Range(list))
    BY <1>7, <2>1 DEF Agree
  <2> QED
    BY <2>1, <2>2, <2>3, SortedSame
<1> QED
  BY <1>6, <1>8 DEF Queued

\* A step that leaves the book alone.
LEMMA SameFollows ==
    ASSUME BookOK, Mirrored, Queued, UNCHANGED bookVars,
           \A x \in OrderIds : orders_[x] # NULL => venue'[x] = venue[x]
    PROVE  Mirrored' /\ Queued'
<1>1. UNCHANGED <<orders_, pool_, levels_>> /\ Live' = Live
  BY DEF bookVars, Live
<1>2. Mirrored'
  BY <1>1 DEF Mirrored, Mirrors, Open
<1>3. Agree(Stamp', Stamp, Live)
  <2> SUFFICES ASSUME NEW x \in Live PROVE Stamp'[x] = Stamp[x]
    BY DEF Agree
  <2>1. /\ x \in Slots /\ pool_[x].id \in OrderIds /\ orders_[pool_[x].id] # NULL
    BY SlotRefs
  <2> QED
    BY <1>1, <2>1 DEF Stamp
<1>4. ASSUME NEW s \in Side, NEW i \in Index
      PROVE  Sorted(levels_'[s][i], Stamp')
  <2> DEFINE list == levels_[s][i]
  <2>1. list \in Seq(Slots) /\ Range(list) \subseteq Live /\ levels_'[s][i] = list
    BY <1>1, LevelSlots
  <2>2. Sorted(list, Stamp)
    BY DEF Queued
  <2> HIDE DEF list
  <2>3. Agree(Stamp', Stamp, Range(list))
    BY <1>3, <2>1 DEF Agree
  <2> QED
    BY <2>1, <2>2, <2>3, SortedSame
<1> QED
  BY <1>2, <1>4 DEF Queued

-----------------------------------------------------------------------------
(* The invariant.                                                          *)

\* The venue has the order and the book ought to have it.
Due(ref) == Open(ref) /\ venue[ref].tracked

\* onReplace has cancelled the old order and not yet added this one.
Awaited(ref) == replacing # NULL /\ replacing.newRef = ref

\* The book has the orders it ought to have.
Exact == \A ref \in OrderIds : orders_[ref] # NULL <=> Due(ref) /\ ~Awaited(ref)

\* The venue's orders have ids it gave out, and messages before the next put them there.
VenueOK ==
    /\ venue \in [OrderIds -> VenueOrder \cup {NULL}] /\ used \subseteq OrderIds
    /\ \A ref \in OrderIds : Open(ref) => ref \in used /\ venue[ref].time < seen_

\* What the second half of onReplace adds is what the venue has, queued after every order
\* of the book.
ReplacingOK ==
    /\ replacing \in Replacement \cup {NULL}
    /\ replacing # NULL =>
         LET new == venue[replacing.newRef] IN
         /\ Open(replacing.newRef)
         /\ Due(replacing.newRef) <=> inRange(toCents(replacing.price))
         /\ new.side = replacing.side /\ new.price = replacing.price
         /\ new.shares = replacing.shares
         /\ \A x \in OrderIds : orders_[x] # NULL => venue[x].time < new.time

\* The orders the second half of onReplace owes the book.
Owed == IF replacing # NULL THEN 1 ELSE 0

CountsOK ==
    /\ seen_ \in 0 .. MaxMessages
    /\ added_ \in Nat /\ deleted_ \in Nat /\ reduced_ \in Nat /\ replaced_ \in Nat
    /\ emptied \in Nat /\ refused \in Nat
    /\ added_ + deleted_ + reduced_ + replaced_ + Owed <= seen_
    /\ total_orders_ = added_ - deleted_ - emptied - refused - Owed

\* No call is in progress: the replay never matches orders.
CallsIdle == op = Idle /\ trades = <<>> /\ next_order_id_ \in Nat

ReplayInv ==
    /\ BookOK /\ CallsIdle
    /\ VenueOK /\ ReplacingOK
    /\ Mirrored /\ Queued /\ Exact
    /\ CountsOK

-----------------------------------------------------------------------------
(* The calls of the replay.                                                *)

LEMMA AddFollows ==
    ASSUME BookOK, Mirrored, Queued, NEW side \in Side, NEW price \in Int, NEW quantity \in Nat,
           NEW ref \in OrderIds, orders_[ref] = NULL, addOrder(side, price, quantity, ref),
           Kept(ref), venue'[ref] # NULL, venue'[ref].side = side,
           venue'[ref].price \div TickUnits = price, venue'[ref].shares = quantity,
           \A x \in OrderIds : orders_[x] # NULL => venue[x].time < venue'[ref].time
    PROVE  /\ BookOK' /\ Mirrored' /\ Queued'
           /\ \A x \in OrderIds \ {ref} : orders_'[x] = orders_[x]
           /\ orders_'[ref] # NULL <=> inRange(price)
           /\ total_orders_' = IF inRange(price) THEN total_orders_ + 1 ELSE total_orders_
<1>1. BookOK'
  BY AddKeepsBook
<1>2. CASE ~inRange(price)
  <2>1. UNCHANGED bookVars
    BY <1>2 DEF addOrder
  <2>2. Mirrored' /\ Queued'
    BY <2>1, SameFollows DEF Kept
  <2> QED
    BY <1>1, <1>2, <2>1, <2>2 DEF bookVars
<1>3. CASE inRange(price)
  <2>1. PICK o \in Slots : Enters(o, ref, side, price, quantity)
    BY <1>3, AddEnters
  <2>2. \A x \in OrderIds \ {ref} : orders_'[x] = orders_[x]
    BY <1>3 DEF addOrder, BookOK, BookTypeOK
  <2>3. Mirrored' /\ Queued' /\ orders_'[ref] # NULL
    BY <1>1, <2>1, <2>2, EnterFollows
  <2>4. total_orders_' = total_orders_ + 1
    BY <2>1 DEF Enters
  <2> QED
    BY <1>1, <1>3, <2>2, <2>3, <2>4
<1> QED
  BY <1>2, <1>3

LEMMA CancelFollows ==
    ASSUME BookOK, Mirrored, Queued, NEW ref \in OrderIds, orders_[ref] # NULL, cancelOrder(ref),
           Kept(ref)
    PROVE  /\ BookOK' /\ Mirrored' /\ Queued'
           /\ \A x \in OrderIds \ {ref} : orders_'[x] = orders_[x]
           /\ orders_'[ref] = NULL /\ total_orders_' = total_orders_ - 1
<1>1. BookOK'
  BY CancelKeepsBook
<1>2. Leaves(orders_[ref]) /\ orders_' = [orders_ EXCEPT ![ref] = NULL]
  BY CancelLeaves
<1>3. (\A x \in OrderIds \ {ref} : orders_'[x] = orders_[x]) /\ orders_'[ref] = NULL
  BY <1>2 DEF BookOK, BookTypeOK
<1>4. Mirrored' /\ Queued'
  BY <1>1, <1>2, <1>3, LeaveFollows
<1>5. total_orders_' = total_orders_ - 1
  BY <1>2 DEF Leaves
<1> QED
  BY <1>1, <1>3, <1>4, <1>5

LEMMA ModifyFollows ==
    ASSUME BookOK, Mirrored, Queued, NEW ref \in OrderIds, orders_[ref] # NULL, NEW q \in Nat,
           modifyOrder(ref, q), Kept(ref), venue'[ref] # NULL,
           venue'[ref].side = venue[ref].side, venue'[ref].price = venue[ref].price,
           venue'[ref].time = venue[ref].time, venue'[ref].shares = q
    PROVE  BookOK' /\ Mirrored' /\ Queued' /\ UNCHANGED <<orders_, total_orders_>>
<1> DEFINE o == orders_[ref]
<1>1. o \in Live /\ pool_[o] \in Order
  BY DEF BookOK, BookTypeOK, IndexesAgree, Live
<1>2. /\ pool_[o].side \in Side /\ priceToIndex(pool_[o].price) \in Index
      /\ q - pool_[o].quantity \in Int
  BY <1>1, LadderIndex DEF Order
<1>3. Resizes(o, q) /\ UNCHANGED orders_
  BY ModifyResizes
<1>4. BookOK'
  <2> DEFINE s == pool_[o].side
             i == priceToIndex(pool_[o].price)
             d == q - pool_[o].quantity
  <2>1. /\ pool_' = [pool_ EXCEPT ![o].quantity = q]
        /\ total_quantity_' = [total_quantity_ EXCEPT ![s][i] = @ + d]
        /\ UNCHANGED <<orders_, levels_, words_, best_idx_, count_, total_orders_>>
    BY <1>3 DEF Resizes
  <2> HIDE DEF s, i, d
  <2>2. s \in Side /\ i \in Index /\ d \in Int
    BY <1>2 DEF s, i, d
  <2> HIDE DEF o
  <2> QED
    BY <1>1, <2>1, <2>2, ResizeKeepsBook
<1>5. Mirrored' /\ Queued'
  BY <1>3, <1>4, ResizeFollows
<1> QED
  BY <1>3, <1>4, <1>5 DEF Resizes

LEMMA ListedIs ==
    ASSUME NEW t \in BOOLEAN, NEW s \in Side, NEW p \in ItchPrices, NEW q \in Nat,
           NEW b \in BOOLEAN, seen_ \in Nat, NEW v, v = Listed(t, s, p, q, b)
    PROVE  /\ v \in VenueOrder /\ v # NULL
           /\ v.target = t /\ v.side = s /\ v.price = p /\ v.shares = q /\ v.time = seen_
           /\ v.tracked = b
<1>1. v \in VenueOrder
  BY DEF Listed, VenueOrder
<1> QED
  BY <1>1, FeedAssumption DEF Listed

\* The venue puts its new or changed orders under ids it has given out.
LEMMA VenueKeeps ==
    ASSUME VenueOK, seen_ \in Nat, seen_' = seen_ + 1, used \subseteq used', used' \subseteq OrderIds,
           venue' \in [OrderIds -> VenueOrder \cup {NULL}],
           \A x \in OrderIds : \/ venue'[x] = venue[x] \/ venue'[x] = NULL
                               \/ x \in used' /\ venue'[x].time <= seen_
    PROVE  VenueOK'
<1> SUFFICES ASSUME NEW x \in OrderIds, Open(x)'
             PROVE  x \in used' /\ venue'[x].time < seen_'
  BY DEF VenueOK
<1>1. venue'[x] \in VenueOrder
  BY DEF Open
<1>2. venue'[x].time \in Nat
  BY <1>1 DEF VenueOrder
<1>3. CASE venue'[x] = venue[x]
  BY <1>2, <1>3 DEF VenueOK, Open
<1>4. CASE x \in used' /\ venue'[x].time <= seen_
  BY <1>2, <1>4
<1> QED
  BY <1>3, <1>4 DEF Open

-----------------------------------------------------------------------------
(* The handlers keep the invariant.                                        *)

\* A message is counted by its handler.
LEMMA MessageFacts ==
    ASSUME ReplayInv, Message
    PROVE  /\ replacing = NULL /\ seen_ \in Nat /\ seen_' = seen_ + 1 /\ seen_' \in 0 .. MaxMessages
           /\ CallsIdle' /\ Owed = 0
           /\ \A x \in OrderIds : orders_[x] # NULL <=> Due(x)
<1>1. replacing = NULL /\ seen_' = seen_ + 1 /\ seen_ < MaxMessages
  BY DEF Message
<1>2. seen_ \in 0 .. MaxMessages
  BY DEF ReplayInv, CountsOK
<1>3. CallsIdle'
  BY DEF Message, ReplayInv, CallsIdle, callVars
<1> QED
  BY <1>1, <1>2, <1>3, FeedAssumption DEF Owed, ReplayInv, Exact, Awaited

LEMMA AddKeeps ==
    ASSUME ReplayInv, NEW ref \in OrderIds, NEW target \in BOOLEAN, NEW side \in Side,
           NEW p \in ItchPrices, NEW q \in Quantities, onAdd(ref, target, side, p, q)
    PROVE  ReplayInv'
<1> DEFINE c == p \div TickUnits
           b == target /\ inRange(c)
           v == Listed(target, side, p, q, b)
<1>1. /\ replacing = NULL /\ seen_ \in Nat /\ seen_' = seen_ + 1 /\ seen_' \in 0 .. MaxMessages
      /\ CallsIdle' /\ Owed = 0 /\ \A x \in OrderIds : orders_[x] # NULL <=> Due(x)
  BY MessageFacts DEF onAdd
<1>2. /\ ref \notin used /\ venue' = [venue EXCEPT ![ref] = v] /\ used' = used \cup {ref}
      /\ IF target
         THEN /\ addOrder(side, c, q, ref)
              /\ added_' = IF inRange(c) THEN added_ + 1 ELSE added_
         ELSE UNCHANGED <<bookVars, added_>>
      /\ UNCHANGED <<deleted_, reduced_, replaced_, replacing, emptied, refused>>
  BY DEF onAdd, toCents
<1>3. q \in Nat /\ c \in Int /\ b \in BOOLEAN
  BY RequestAssumption, FeedAssumption DEF inRange
<1>4. BookOK /\ VenueOK /\ Mirrored /\ Queued /\ CountsOK
  BY DEF ReplayInv
<1> HIDE DEF b
<1>5. /\ v \in VenueOrder /\ v # NULL /\ v.side = side /\ v.price = p /\ v.shares = q
      /\ v.time = seen_ /\ v.tracked = b
  BY <1>1, <1>3, ListedIs
<1> HIDE DEF v, c
<1>6. /\ venue' \in [OrderIds -> VenueOrder \cup {NULL}] /\ venue'[ref] = v
      /\ \A x \in OrderIds \ {ref} : venue'[x] = venue[x]
  BY <1>2, <1>4, <1>5 DEF VenueOK
<1>7. VenueOK'
  BY <1>1, <1>2, <1>4, <1>5, <1>6, VenueKeeps DEF VenueOK
<1>8. /\ \A x \in OrderIds \ {ref} : Due(x)' <=> Due(x)
      /\ Due(ref)' <=> b
  BY <1>5, <1>6, Zenon DEF Due, Open
<1>9. orders_[ref] = NULL
  BY <1>1, <1>2, <1>4 DEF VenueOK, Due
<1>10. /\ BookOK' /\ Mirrored' /\ Queued'
       /\ \A x \in OrderIds \ {ref} : orders_'[x] = orders_[x]
       /\ orders_'[ref] # NULL <=> b
       /\ total_orders_' = total_orders_ + (added_' - added_)
       /\ added_' \in {added_, added_ + 1}
  <2>1. Kept(ref)
    BY <1>6 DEF Kept
  <2>2. CASE target
    <3>1. \A x \in OrderIds : orders_[x] # NULL => venue[x].time < v.time
      BY <1>1, <1>4, <1>5 DEF VenueOK, Due
    <3>2. v.price \div TickUnits = c
      BY <1>5 DEF c
    <3>3. addOrder(side, c, q, ref) /\ added_' = IF inRange(c) THEN added_ + 1 ELSE added_
      BY <1>2, <2>2
    <3>4. /\ BookOK' /\ Mirrored' /\ Queued'
          /\ \A x \in OrderIds \ {ref} : orders_'[x] = orders_[x]
          /\ orders_'[ref] # NULL <=> inRange(c)
          /\ total_orders_' = IF inRange(c) THEN total_orders_ + 1 ELSE total_orders_
      BY <1>3, <1>4, <1>5, <1>6, <1>9, <2>1, <3>1, <3>2, <3>3, AddFollows
    <3>5. b <=> inRange(c)
      BY <2>2 DEF b
    <3>6. total_orders_ \in Int /\ added_ \in Int
      BY <1>4 DEF CountsOK, BookOK, BookTypeOK
    <3> QED
      BY <3>3, <3>4, <3>5, <3>6
  <2>3. CASE ~target
    <3>1. UNCHANGED <<bookVars, added_>> /\ ~b
      BY <1>2, <2>3 DEF b
    <3>2. Mirrored' /\ Queued' /\ BookOK'
      BY <1>4, <1>9, <2>1, <3>1, SameFollows, UnchangedBook DEF Kept
    <3>3. total_orders_ \in Int /\ added_ \in Int
      BY <1>4 DEF CountsOK, BookOK, BookTypeOK
    <3> QED
      BY <1>9, <3>1, <3>2, <3>3 DEF bookVars
  <2> QED
    BY <2>2, <2>3
<1>11. replacing' = NULL /\ Owed' = 0
  BY <1>1, <1>2 DEF Owed
<1>12. Exact'
  BY <1>1, <1>8, <1>10, <1>11 DEF Exact, Awaited
<1>13. CountsOK'
  <2>1. UNCHANGED <<deleted_, reduced_, replaced_, emptied, refused>>
    BY <1>2
  <2>2. /\ total_orders_' = total_orders_ + (added_' - added_) /\ added_' \in {added_, added_ + 1}
        /\ seen_' = seen_ + 1 /\ seen_' \in 0 .. MaxMessages /\ Owed = 0 /\ Owed' = 0
    BY <1>1, <1>10, <1>11
  <2>3. CASE added_' = added_
    BY <1>4, <2>1, <2>2, <2>3 DEF CountsOK
  <2>4. CASE added_' = added_ + 1
    BY <1>4, <2>1, <2>2, <2>4 DEF CountsOK
  <2> QED
    BY <2>2, <2>3, <2>4
<1> QED
  BY <1>1, <1>7, <1>10, <1>11, <1>12, <1>13 DEF ReplayInv, ReplacingOK

LEMMA DeleteKeeps ==
    ASSUME ReplayInv, NEW ref \in OrderIds, onDelete(ref)
    PROVE  ReplayInv'
<1>1. /\ replacing = NULL /\ seen_ \in Nat /\ seen_' = seen_ + 1 /\ seen_' \in 0 .. MaxMessages
      /\ CallsIdle' /\ Owed = 0 /\ \A x \in OrderIds : orders_[x] # NULL <=> Due(x)
  BY MessageFacts DEF onDelete
<1>2. /\ venue' = [venue EXCEPT ![ref] = NULL]
      /\ UNCHANGED <<used, added_, reduced_, replaced_, replacing, emptied, refused>>
  BY DEF onDelete
<1>3. BookOK /\ VenueOK /\ Mirrored /\ Queued /\ CountsOK
  BY DEF ReplayInv
<1>4. /\ venue' \in [OrderIds -> VenueOrder \cup {NULL}] /\ venue'[ref] = NULL
      /\ \A x \in OrderIds \ {ref} : venue'[x] = venue[x]
  BY <1>2, <1>3 DEF VenueOK
<1>5. VenueOK'
  BY <1>1, <1>2, <1>3, <1>4, VenueKeeps DEF VenueOK
<1>6. (\A x \in OrderIds \ {ref} : Due(x)' <=> Due(x)) /\ ~Due(ref)'
  BY <1>4, Zenon DEF Due, Open
<1>7. Kept(ref)
  BY <1>4 DEF Kept
<1>8. total_orders_ \in Int /\ deleted_ \in Int
  BY <1>3 DEF CountsOK, BookOK, BookTypeOK
<1>9. /\ BookOK' /\ Mirrored' /\ Queued'
      /\ \A x \in OrderIds \ {ref} : orders_'[x] = orders_[x]
      /\ orders_'[ref] = NULL
      /\ total_orders_' = total_orders_ - (deleted_' - deleted_)
      /\ deleted_' \in {deleted_, deleted_ + 1}
  <2>1. CASE orders_[ref] # NULL
    <3>1. cancelOrder(ref) /\ deleted_' = deleted_ + 1
      BY <2>1 DEF onDelete
    <3> QED
      BY <1>3, <1>7, <1>8, <2>1, <3>1, CancelFollows
  <2>2. CASE orders_[ref] = NULL
    <3>1. UNCHANGED <<bookVars, deleted_>>
      BY <2>2 DEF onDelete
    <3>2. Mirrored' /\ Queued' /\ BookOK'
      BY <1>3, <1>7, <2>2, <3>1, SameFollows, UnchangedBook DEF Kept
    <3> QED
      BY <1>8, <2>2, <3>1, <3>2 DEF bookVars
  <2> QED
    BY <2>1, <2>2
<1>10. replacing' = NULL /\ Owed' = 0
  BY <1>1, <1>2 DEF Owed
<1>11. Exact'
  BY <1>1, <1>6, <1>9, <1>10 DEF Exact, Awaited
<1>12. CountsOK'
  <2>1. UNCHANGED <<added_, reduced_, replaced_, emptied, refused>>
    BY <1>2
  <2>2. /\ total_orders_' = total_orders_ - (deleted_' - deleted_)
        /\ deleted_' \in {deleted_, deleted_ + 1}
        /\ seen_' = seen_ + 1 /\ seen_' \in 0 .. MaxMessages /\ Owed = 0 /\ Owed' = 0
    BY <1>1, <1>9, <1>10
  <2>3. CASE deleted_' = deleted_
    BY <1>3, <2>1, <2>2, <2>3 DEF CountsOK
  <2>4. CASE deleted_' = deleted_ + 1
    BY <1>3, <2>1, <2>2, <2>4 DEF CountsOK
  <2> QED
    BY <2>2, <2>3, <2>4
<1> QED
  BY <1>1, <1>5, <1>9, <1>10, <1>11, <1>12 DEF ReplayInv, ReplacingOK

LEMMA ReduceKeeps ==
    ASSUME ReplayInv, NEW ref \in OrderIds, NEW q \in Quantities, onReduce(ref, q)
    PROVE  ReplayInv'
<1> DEFINE old == venue[ref]
           new == [old EXCEPT !.shares = old.shares - q]
           gone == q = old.shares
           o == orders_[ref]
<1>1. /\ replacing = NULL /\ seen_ \in Nat /\ seen_' = seen_ + 1 /\ seen_' \in 0 .. MaxMessages
      /\ CallsIdle' /\ Owed = 0 /\ \A x \in OrderIds : orders_[x] # NULL <=> Due(x)
  BY MessageFacts DEF onReduce
<1>2. /\ old # NULL /\ q <= old.shares
      /\ venue' = [venue EXCEPT ![ref] = IF gone THEN NULL ELSE new]
      /\ UNCHANGED <<used, added_, deleted_, replaced_, replacing, refused>>
  <2>1. Open(ref) /\ q <= old.shares
    BY DEF onReduce
  <2>2. venue' = [venue EXCEPT ![ref] = IF gone THEN NULL ELSE new]
    BY DEF onReduce
  <2>3. UNCHANGED <<used, added_, deleted_, replaced_, replacing, refused>>
    BY DEF onReduce
  <2> QED
    BY <2>1, <2>2, <2>3 DEF Open
<1>3. BookOK /\ VenueOK /\ Mirrored /\ Queued /\ CountsOK
  BY DEF ReplayInv
<1>4. q \in Nat /\ old \in VenueOrder
  BY <1>2, <1>3, RequestAssumption DEF VenueOK
<1>5. old.shares \in Nat /\ old.time \in Nat /\ ref \in used /\ old.time < seen_
  BY <1>2, <1>3, <1>4 DEF VenueOK, VenueOrder, Open
<1>6. /\ new \in VenueOrder /\ new # NULL /\ new.side = old.side /\ new.price = old.price
      /\ new.time = old.time /\ new.shares = old.shares - q
  <2>1. old.shares - q \in Nat
    BY <1>2, <1>4, <1>5
  <2>2. new \in VenueOrder
    BY <1>4, <2>1 DEF VenueOrder
  <2> QED
    BY <1>4, <2>2, FeedAssumption DEF VenueOrder
<1>7. new.tracked = old.tracked
  BY <1>4, Zenon DEF VenueOrder
<1>8. o # NULL => /\ old.side = pool_[o].side /\ pool_[o].quantity = old.shares
  BY <1>3 DEF Mirrored, Mirrors
<1> HIDE DEF new, old
<1>9. /\ venue' \in [OrderIds -> VenueOrder \cup {NULL}]
      /\ venue'[ref] = IF gone THEN NULL ELSE new
      /\ \A x \in OrderIds \ {ref} : venue'[x] = venue[x]
  BY <1>2, <1>3, <1>6 DEF VenueOK
<1>10. VenueOK'
  BY <1>1, <1>2, <1>3, <1>5, <1>6, <1>9, VenueKeeps DEF VenueOK
<1>11. (\A x \in OrderIds \ {ref} : Due(x)' <=> Due(x)) /\ (Due(ref)' <=> Due(ref) /\ ~gone)
  <2>1. \A x \in OrderIds \ {ref} : Due(x)' <=> Due(x)
    BY <1>9, Zenon DEF Due, Open
  <2>2. CASE gone
    BY <1>9, <2>2, Zenon DEF Due, Open
  <2>3. CASE ~gone
    <3>1. venue'[ref] = new
      BY <1>9, <2>3
    <3> QED
      BY <1>2, <1>6, <1>7, <2>1, <2>3, <3>1, Zenon DEF Due, Open, old
  <2> QED
    BY <2>1, <2>2, <2>3
<1>12. Kept(ref)
  BY <1>9 DEF Kept
<1>13. total_orders_ \in Int /\ reduced_ \in Int /\ emptied \in Int
  BY <1>3 DEF CountsOK, BookOK, BookTypeOK
<1>14. /\ BookOK' /\ Mirrored' /\ Queued'
       /\ \A x \in OrderIds \ {ref} : orders_'[x] = orders_[x]
       /\ orders_'[ref] # NULL <=> orders_[ref] # NULL /\ ~gone
       /\ total_orders_' = total_orders_ - (emptied' - emptied)
       /\ reduced_' \in {reduced_, reduced_ + 1}
       /\ emptied' \in {emptied, emptied + 1}
  <2>1. CASE o = NULL
    <3>1. UNCHANGED <<bookVars, reduced_, emptied>>
      BY <2>1 DEF onReduce
    <3>2. Mirrored' /\ Queued' /\ BookOK'
      BY <1>3, <1>12, <2>1, <3>1, SameFollows, UnchangedBook DEF Kept
    <3> QED
      BY <1>13, <2>1, <3>1, <3>2 DEF bookVars
  <2>2. CASE o # NULL /\ ~gone
    <3>1. Survives(o, q)
      BY <1>2, <1>4, <1>5, <1>8, <2>2 DEF Survives
    <3>2. modifyOrder(ref, pool_[o].quantity - q) /\ emptied' = emptied /\ reduced_' = reduced_ + 1
      BY <2>2, <3>1 DEF onReduce
    <3>3. modifyOrder(ref, old.shares - q) /\ old.shares - q \in Nat
      BY <1>2, <1>4, <1>5, <1>8, <2>2, <3>2
    <3>4. /\ venue'[ref] # NULL /\ venue'[ref].side = venue[ref].side
          /\ venue'[ref].price = venue[ref].price /\ venue'[ref].time = venue[ref].time
          /\ venue'[ref].shares = old.shares - q
      BY <1>6, <1>9, <2>2 DEF old
    <3>5. BookOK' /\ Mirrored' /\ Queued' /\ UNCHANGED <<orders_, total_orders_>>
      BY <1>3, <1>12, <2>2, <3>3, <3>4, ModifyFollows
    <3> QED
      BY <1>13, <2>2, <3>2, <3>5
  <2>3. CASE o # NULL /\ gone
    <3>1. ~Survives(o, q)
      BY <1>2, <1>4, <1>5, <1>8, <2>3 DEF Survives
    <3>2. cancelOrder(ref) /\ emptied' = emptied + 1 /\ reduced_' = reduced_ + 1
      BY <2>3, <3>1 DEF onReduce
    <3> QED
      BY <1>3, <1>12, <1>13, <2>3, <3>2, CancelFollows
  <2> QED
    BY <2>1, <2>2, <2>3
<1>15. replacing' = NULL /\ Owed' = 0
  BY <1>1, <1>2 DEF Owed
<1>16. Exact'
  <2> HIDE DEF gone
  <2> QED
    BY <1>1, <1>11, <1>14, <1>15 DEF Exact, Awaited
<1>17. CountsOK'
  <2>1. UNCHANGED <<added_, deleted_, replaced_, refused>>
    BY <1>2
  <2>2. /\ total_orders_' = total_orders_ - (emptied' - emptied)
        /\ reduced_' \in {reduced_, reduced_ + 1} /\ emptied' \in {emptied, emptied + 1}
        /\ seen_' = seen_ + 1 /\ seen_' \in 0 .. MaxMessages /\ Owed = 0 /\ Owed' = 0
    BY <1>1, <1>14, <1>15
  <2>3. /\ reduced_' \in Nat
        /\ added_' + deleted_' + reduced_' + replaced_' + Owed' <= seen_'
    <3>1. /\ added_ \in Nat /\ deleted_ \in Nat /\ reduced_ \in Nat /\ replaced_ \in Nat
          /\ seen_ \in Nat /\ added_ + deleted_ + reduced_ + replaced_ + Owed <= seen_
      BY <1>1, <1>3 DEF CountsOK
    <3>2. CASE reduced_' = reduced_
      BY <2>1, <2>2, <3>1, <3>2
    <3>3. CASE reduced_' = reduced_ + 1
      BY <2>1, <2>2, <3>1, <3>3
    <3> QED
      BY <2>2, <3>2, <3>3
  <2>4. /\ emptied' \in Nat
        /\ total_orders_' = added_' - deleted_' - emptied' - refused' - Owed'
    <3>1. CASE emptied' = emptied
      BY <1>3, <1>13, <2>1, <2>2, <3>1 DEF CountsOK
    <3>2. CASE emptied' = emptied + 1
      BY <1>3, <1>13, <2>1, <2>2, <3>2 DEF CountsOK
    <3> QED
      BY <2>2, <3>1, <3>2
  <2> QED
    BY <1>3, <2>1, <2>2, <2>3, <2>4 DEF CountsOK
<1> QED
  BY <1>1, <1>10, <1>14, <1>15, <1>16, <1>17 DEF ReplayInv, ReplacingOK

LEMMA ReplaceKeeps ==
    ASSUME ReplayInv, NEW ref \in OrderIds, NEW newRef \in OrderIds, NEW p \in ItchPrices,
           NEW q \in Quantities, onReplace(ref, newRef, p, q)
    PROVE  ReplayInv'
<1> DEFINE old == venue[ref]
           c == p \div TickUnits
           b == old.tracked /\ inRange(c)
           v == Listed(old.target, old.side, p, q, b)
<1>1. /\ replacing = NULL /\ seen_ \in Nat /\ seen_' = seen_ + 1 /\ seen_' \in 0 .. MaxMessages
      /\ CallsIdle' /\ Owed = 0 /\ \A x \in OrderIds : orders_[x] # NULL <=> Due(x)
  BY MessageFacts DEF onReplace
<1>2. /\ old # NULL /\ newRef \notin used
      /\ venue' = [venue EXCEPT ![ref] = NULL, ![newRef] = v]
      /\ used' = used \cup {newRef}
      /\ UNCHANGED <<added_, deleted_, reduced_, replaced_, emptied, refused>>
  BY DEF onReplace, Open, counters
<1>3. BookOK /\ VenueOK /\ Mirrored /\ Queued /\ CountsOK
  BY DEF ReplayInv
<1>4. old \in VenueOrder /\ q \in Nat
  BY <1>2, <1>3, RequestAssumption DEF VenueOK
<1>5. old.side \in Side /\ ref # newRef
  BY <1>2, <1>3, <1>4 DEF VenueOK, VenueOrder, Open
<1>6. old.target \in BOOLEAN /\ b \in BOOLEAN
  <2>1. old.target \in BOOLEAN
    BY <1>4, Zenon DEF VenueOrder
  <2>2. b \in BOOLEAN
    BY Zenon
  <2> QED
    BY <2>1, <2>2
<1> HIDE DEF old, b
<1>7. /\ v \in VenueOrder /\ v # NULL /\ v.side = old.side /\ v.price = p /\ v.shares = q
      /\ v.time = seen_ /\ v.tracked = b
  BY <1>1, <1>4, <1>5, <1>6, ListedIs
<1> HIDE DEF v, c
<1>8. /\ venue' \in [OrderIds -> VenueOrder \cup {NULL}] /\ venue'[ref] = NULL /\ venue'[newRef] = v
      /\ \A x \in OrderIds \ {ref, newRef} : venue'[x] = venue[x]
  BY <1>2, <1>3, <1>5, <1>7 DEF VenueOK
<1>9. VenueOK'
  BY <1>1, <1>2, <1>3, <1>7, <1>8, VenueKeeps DEF VenueOK
<1>10. /\ \A x \in OrderIds \ {ref, newRef} : Due(x)' <=> Due(x)
       /\ ~Due(ref)' /\ (Due(newRef)' <=> b)
  BY <1>7, <1>8, Zenon DEF Due, Open
<1>11. b <=> Due(ref) /\ inRange(c)
  BY <1>2, Zenon DEF Due, Open, b, old
<1>12. orders_[newRef] = NULL
  BY <1>1, <1>2, <1>3 DEF VenueOK, Due
<1>13. Kept(ref)
  BY <1>8, <1>12 DEF Kept
<1>14. CASE orders_[ref] = NULL
  <2>1. UNCHANGED bookVars /\ replacing' = NULL
    BY <1>1, <1>14 DEF onReplace
  <2>2. Mirrored' /\ Queued' /\ BookOK' /\ orders_' = orders_ /\ total_orders_' = total_orders_
    BY <1>3, <1>13, <1>14, <2>1, SameFollows, UnchangedBook DEF Kept, bookVars
  <2>3. Owed' = 0
    BY <2>1 DEF Owed
  <2>4. Exact'
    BY <1>1, <1>10, <1>11, <1>12, <1>14, <2>1, <2>2 DEF Exact, Awaited
  <2>5. CountsOK'
    <3>1. /\ UNCHANGED <<added_, deleted_, reduced_, replaced_, emptied, refused, total_orders_>>
          /\ seen_' = seen_ + 1 /\ seen_' \in 0 .. MaxMessages /\ Owed = 0 /\ Owed' = 0
      BY <1>1, <1>2, <2>2, <2>3
    <3> QED
      BY <1>3, <3>1 DEF CountsOK
  <2> QED
    BY <1>1, <1>9, <2>1, <2>2, <2>4, <2>5 DEF ReplayInv, ReplacingOK
<1>15. CASE orders_[ref] # NULL
  <2> DEFINE r == [side |-> pool_[orders_[ref]].side, price |-> p, shares |-> q, newRef |-> newRef]
  <2>1. replacing' = r /\ cancelOrder(ref)
    BY <1>15 DEF onReplace
  <2>2. pool_[orders_[ref]].side = old.side /\ Due(ref)
    BY <1>1, <1>3, <1>15 DEF Mirrored, Mirrors, old
  <2>3. /\ r \in Replacement /\ r # NULL /\ r.newRef = newRef /\ r.side = old.side
        /\ r.price = p /\ r.shares = q
    BY <1>4, <1>5, <2>2, FeedAssumption DEF Replacement
  <2> HIDE DEF r
  <2>4. /\ BookOK' /\ Mirrored' /\ Queued'
        /\ \A x \in OrderIds \ {ref} : orders_'[x] = orders_[x]
        /\ orders_'[ref] = NULL /\ total_orders_' = total_orders_ - 1
    BY <1>3, <1>13, <1>15, <2>1, CancelFollows
  <2>5. Owed' = 1
    BY <2>1, <2>3 DEF Owed
  <2>6. Exact'
    <3> SUFFICES ASSUME NEW x \in OrderIds
                 PROVE  orders_'[x] # NULL <=> Due(x)' /\ ~Awaited(x)'
      BY DEF Exact
    <3>1. CASE x = ref
      BY <1>10, <2>4, <3>1
    <3>2. CASE x = newRef
      <4>1. Awaited(x)'
        BY <2>1, <2>3, <3>2 DEF Awaited
      <4> QED
        BY <1>5, <1>12, <2>4, <3>2, <4>1
    <3>3. CASE x \notin {ref, newRef}
      <4>1. ~Awaited(x)'
        BY <2>1, <2>3, <3>3 DEF Awaited
      <4> QED
        BY <1>1, <1>10, <2>4, <3>3, <4>1
    <3> QED
      BY <3>1, <3>2, <3>3
  <2>7. CountsOK'
    <3>1. /\ UNCHANGED <<added_, deleted_, reduced_, replaced_, emptied, refused>>
          /\ total_orders_' = total_orders_ - 1
          /\ seen_' = seen_ + 1 /\ seen_' \in 0 .. MaxMessages /\ Owed = 0 /\ Owed' = 1
      BY <1>1, <1>2, <2>4, <2>5
    <3> QED
      BY <1>3, <3>1 DEF CountsOK
  <2>8. ReplacingOK'
    <3>1. Open(newRef)' /\ (Due(newRef)' <=> inRange(toCents(p)))
      BY <1>7, <1>8, <1>10, <1>11, <2>2 DEF Open, toCents, c
    <3>2. \A x \in OrderIds : orders_'[x] # NULL => venue'[x].time < v.time
      <4> SUFFICES ASSUME NEW x \in OrderIds, orders_'[x] # NULL
                   PROVE  venue'[x].time < v.time
        OBVIOUS
      <4>1. x # ref /\ orders_[x] # NULL
        BY <2>4
      <4>2. venue'[x] = venue[x] /\ Open(x)
        BY <1>1, <1>13, <4>1 DEF Kept, Due
      <4> QED
        BY <1>3, <1>7, <4>2 DEF VenueOK
    <3> QED
      BY <1>7, <1>8, <2>1, <2>3, <3>1, <3>2 DEF ReplacingOK
  <2> QED
    BY <1>1, <1>9, <2>4, <2>6, <2>7, <2>8 DEF ReplayInv
<1> QED
  BY <1>14, <1>15

LEMMA ReplaceAddKeeps ==
    ASSUME ReplayInv, ReplaceAdd
    PROVE  ReplayInv'
<1> DEFINE ref == replacing.newRef
           c == toCents(replacing.price)
<1>1. /\ replacing # NULL /\ replacing' = NULL
      /\ addOrder(replacing.side, c, replacing.shares, ref)
      /\ IF inRange(c) THEN replaced_' = replaced_ + 1 /\ UNCHANGED refused
         ELSE refused' = refused + 1 /\ UNCHANGED replaced_
      /\ UNCHANGED <<seen_, added_, deleted_, reduced_, venue, used, emptied>>
      /\ UNCHANGED <<next_order_id_, callVars>>
  BY DEF ReplaceAdd, venueVars
<1>2. BookOK /\ VenueOK /\ ReplacingOK /\ Mirrored /\ Queued /\ Exact /\ CountsOK /\ CallsIdle
  BY DEF ReplayInv
<1>3. /\ replacing \in Replacement /\ venue[ref] # NULL
      /\ Due(ref) <=> inRange(c)
      /\ venue[ref].side = replacing.side /\ venue[ref].price = replacing.price
      /\ venue[ref].shares = replacing.shares
      /\ \A x \in OrderIds : orders_[x] # NULL => venue[x].time < venue[ref].time
  BY <1>1, <1>2 DEF ReplacingOK, Open
<1>4. /\ replacing.side \in Side /\ replacing.shares \in Nat /\ ref \in OrderIds
      /\ replacing.price \in Nat
  BY <1>3, FeedAssumption DEF Replacement
<1>5. c \in Int /\ venue[ref].price \div TickUnits = c
  BY <1>3, <1>4, FeedAssumption DEF toCents
<1>6. orders_[ref] = NULL /\ \A x \in OrderIds \ {ref} : orders_[x] # NULL <=> Due(x)
  BY <1>1, <1>2, <1>4 DEF Exact, Awaited
<1>7. Kept(ref)
  BY <1>1 DEF Kept
<1> HIDE DEF ref, c
<1>8. /\ BookOK' /\ Mirrored' /\ Queued'
      /\ \A x \in OrderIds \ {ref} : orders_'[x] = orders_[x]
      /\ orders_'[ref] # NULL <=> inRange(c)
      /\ total_orders_' = IF inRange(c) THEN total_orders_ + 1 ELSE total_orders_
  BY <1>1, <1>2, <1>3, <1>4, <1>5, <1>6, <1>7, AddFollows
<1>9. VenueOK'
  BY <1>1, <1>2 DEF VenueOK, Open
<1>10. \A x \in OrderIds : Due(x)' <=> Due(x)
  BY <1>1, Zenon DEF Due, Open
<1>11. Exact'
  BY <1>1, <1>3, <1>6, <1>8, <1>10 DEF Exact, Awaited
<1>12. CountsOK'
  <2>1. Owed = 1 /\ Owed' = 0
    BY <1>1 DEF Owed
  <2>2. total_orders_ \in Int
    BY <1>2 DEF BookOK, BookTypeOK
  <2>3. UNCHANGED <<seen_, added_, deleted_, reduced_, emptied>>
    BY <1>1
  <2>4. CASE inRange(c)
    <3>1. total_orders_' = total_orders_ + 1 /\ replaced_' = replaced_ + 1 /\ refused' = refused
      BY <1>1, <1>8, <2>4
    <3> QED
      BY <1>2, <2>1, <2>2, <2>3, <3>1 DEF CountsOK
  <2>5. CASE ~inRange(c)
    <3>1. total_orders_' = total_orders_ /\ replaced_' = replaced_ /\ refused' = refused + 1
      BY <1>1, <1>8, <2>5
    <3> QED
      BY <1>2, <2>1, <2>2, <2>3, <3>1 DEF CountsOK
  <2> QED
    BY <2>4, <2>5
<1>13. CallsIdle'
  BY <1>1, <1>2 DEF CallsIdle, callVars
<1>14. ReplacingOK'
  BY <1>1 DEF ReplacingOK
<1> QED
  BY <1>8, <1>9, <1>11, <1>12, <1>13, <1>14 DEF ReplayInv

-----------------------------------------------------------------------------
LEMMA ReplayInitOK == ReplayInit => ReplayInv
<1> SUFFICES ASSUME ReplayInit PROVE ReplayInv
  OBVIOUS
<1>1. Init /\ seen_ = 0 /\ replacing = NULL /\ venue = [ref \in OrderIds |-> NULL]
  BY DEF ReplayInit
<1>2. BookOK
  BY <1>1, InitInv DEF Inv, TypeOK, BookOK
<1>3. CallsIdle
  BY <1>1 DEF Init, CallsIdle
<1>4. /\ \A ref \in OrderIds : ~Open(ref) /\ orders_[ref] = NULL
      /\ \A s \in Side, i \in Index : levels_[s][i] = <<>>
  BY <1>1 DEF Init, Open
<1>5. Queued
  BY <1>4 DEF Queued, Sorted
<1>6. Mirrored /\ Exact
  BY <1>4 DEF Mirrored, Exact, Due
<1>7. VenueOK /\ ReplacingOK
  BY <1>1, <1>4 DEF ReplayInit, VenueOK, ReplacingOK
<1>8. CountsOK
  BY <1>1, FeedAssumption DEF ReplayInit, Init, CountsOK, Owed
<1> QED
  BY <1>2, <1>3, <1>5, <1>6, <1>7, <1>8 DEF ReplayInv

LEMMA ReplayNextOK == ReplayInv /\ [ReplayNext]_replayVars => ReplayInv'
<1> SUFFICES ASSUME ReplayInv, [ReplayNext]_replayVars PROVE ReplayInv'
  OBVIOUS
<1>1. CASE ReplayNext
  BY <1>1, AddKeeps, DeleteKeeps, ReduceKeeps, ReplaceKeeps, ReplaceAddKeeps DEF ReplayNext
<1>2. CASE UNCHANGED replayVars
  <2>1. /\ UNCHANGED bookVars /\ UNCHANGED <<next_order_id_, op, trades>>
        /\ UNCHANGED <<seen_, added_, deleted_, reduced_, replaced_>>
        /\ UNCHANGED <<replacing, venue, used, emptied, refused>>
    BY <1>2 DEF replayVars, vars, callVars, counters, venueVars
  <2>2. UNCHANGED <<orders_, total_orders_>>
    BY <2>1 DEF bookVars
  <2>3. BookOK' /\ Mirrored' /\ Queued'
    BY <2>1, UnchangedBook, SameFollows DEF ReplayInv
  <2>4. CallsIdle' /\ CountsOK'
    BY <2>1, <2>2 DEF ReplayInv, CallsIdle, CountsOK, Owed
  <2>5. VenueOK'
    BY <2>1 DEF ReplayInv, VenueOK, Open
  <2>6. \A x \in OrderIds : Due(x)' <=> Due(x)
    BY <2>1, Zenon DEF Due, Open
  <2>7. Exact'
    BY <2>1, <2>2, <2>6 DEF ReplayInv, Exact, Awaited
  <2>8. ReplacingOK'
    <3>1. replacing # NULL => replacing.newRef \in OrderIds
      BY DEF ReplayInv, ReplacingOK, Replacement
    <3> QED
      BY <2>1, <2>2, <2>6, <3>1 DEF ReplayInv, ReplacingOK, Open
  <2> QED
    BY <2>3, <2>4, <2>5, <2>7, <2>8 DEF ReplayInv
<1> QED
  BY <1>1, <1>2

\* The inductive invariant of the replay holds throughout every feed, whatever its
\* symbols, prices and quantities.
THEOREM ReplayInvariant == ReplaySpec => []ReplayInv
<1>1. ReplayInv /\ [ReplayNext]_replayVars => ReplayInv'
  BY ReplayNextOK
<1> QED
  BY <1>1, ReplayInitOK, PTL DEF ReplaySpec

\* Every field of the replay stays in its range, no call of the matching engine is ever in
\* progress, and a message is counted as at most one operation.
THEOREM ReplayTypeCorrect == ReplaySpec => []ReplayTypeOK
<1>1. ReplayInv => ReplayTypeOK
  <2> SUFFICES ASSUME ReplayInv PROVE ReplayTypeOK
    OBVIOUS
  <2>1. TypeOK
    BY DEF ReplayInv, BookOK, CallsIdle, TypeOK
  <2>2. /\ added_ \in Nat /\ deleted_ \in Nat /\ reduced_ \in Nat /\ replaced_ \in Nat
        /\ seen_ \in 0 .. MaxMessages /\ added_ + deleted_ + reduced_ + replaced_ <= seen_
    BY FeedAssumption DEF ReplayInv, CountsOK, Owed
  <2>3. used \subseteq OrderIds
    BY DEF ReplayInv, VenueOK
  <2> QED
    BY <2>1, <2>2, <2>3 DEF ReplayTypeOK
<1> QED
  BY <1>1, ReplayInvariant, PTL

\* Between messages the book holds exactly the venue's orders of the target symbol that
\* have been on the ladder since they were added, each with its side, price and open
\* shares, queued at every level as the venue queued them.
THEOREM TracksFeedAlways == ReplaySpec => []TracksFeed
<1>1. ReplayInv => TracksFeed
  <2> SUFFICES ASSUME ReplayInv, replacing = NULL
               PROVE  /\ \A ref \in OrderIds :
                            orders_[ref] # NULL <=> Open(ref) /\ venue[ref].tracked
                      /\ \A ref \in OrderIds : orders_[ref] # NULL => Mirrors(ref, orders_[ref])
                      /\ \A side \in Side, i \in Index : \A k \in 1 .. Len(levels_[side][i]) - 1 :
                            venue[pool_[levels_[side][i][k]].id].time <
                                venue[pool_[levels_[side][i][k + 1]].id].time
    BY DEF TracksFeed
  <2>1. \A ref \in OrderIds : orders_[ref] # NULL <=> Due(ref)
    BY DEF ReplayInv, Exact, Awaited
  <2>2. \A ref \in OrderIds : orders_[ref] # NULL => Mirrors(ref, orders_[ref])
    BY DEF ReplayInv, Mirrored
  <2>3. ASSUME NEW side \in Side, NEW i \in Index, NEW k \in 1 .. Len(levels_[side][i]) - 1
        PROVE  venue[pool_[levels_[side][i][k]].id].time <
                   venue[pool_[levels_[side][i][k + 1]].id].time
    <3> DEFINE list == levels_[side][i]
    <3>1. list \in Seq(Slots) /\ Sorted(list, Stamp)
      BY DEF ReplayInv, BookOK, BookTypeOK, Queued
    <3> HIDE DEF list
    <3>2. /\ Len(list) \in Nat /\ k \in 1 .. Len(list) /\ k + 1 \in 1 .. Len(list) /\ k < k + 1
      BY <3>1, LenProperties DEF list
    <3>3. list[k] \in Slots /\ list[k + 1] \in Slots
      BY <3>1, <3>2, ElementOfSeq
    <3>4. Stamp[list[k]] < Stamp[list[k + 1]]
      BY <3>1, <3>2 DEF Sorted
    <3> QED
      BY <3>3, <3>4 DEF Stamp, list
  <2> QED
    BY <2>1, <2>2, <2>3, Zenon DEF Due
<1> QED
  BY <1>1, ReplayInvariant, PTL

\* The counts the tools print explain the number of live orders they report.
THEOREM CountsAlwaysExplainBook == ReplaySpec => []CountsExplainBook
<1>1. ReplayInv => CountsExplainBook
  BY DEF ReplayInv, CountsOK, Owed, CountsExplainBook
<1> QED
  BY <1>1, ReplayInvariant, PTL
=============================================================================
