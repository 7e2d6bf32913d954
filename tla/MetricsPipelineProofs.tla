------------------------ MODULE MetricsPipelineProofs ------------------------
(***************************************************************************)
(* Proofs about SPSCRing and MetricsPipeline for every capacity and index  *)
(* width of the ring, every set of events, sampling rate, burst and tape   *)
(* size, and any number of recordings.  First the ring: its two threads    *)
(* never touch the same slot, and it implements BoundedFifo.  Then the     *)
(* pipeline: it uses the ring as SPSCRing allows, nothing the ring took is *)
(* lost, every drop is alerted once, and the final frame sums up exactly   *)
(* the accepted events.                                                    *)
(***************************************************************************)
EXTENDS MetricsPipeline, NumberLemmas, SequenceTheorems, FiniteSetTheorems, TLAPS

-----------------------------------------------------------------------------
(* Arithmetic of wrapping indices.                                         *)

\* A sum of an index and a shorter distance, taken back into the index type.
LEMMA WrapIs ==
    ASSUME NEW x \in 0 .. (2 * Wrap) - 1
    PROVE  x % Wrap = IF x < Wrap THEN x ELSE x - Wrap
  <1>0. Wrap \in Nat \ {0}
    BY CapAssumption, WrapAssumption
  <1>1. CASE x < Wrap
    <2>1. x = (Wrap * 0) + x /\ x \in 0 .. Wrap - 1
      BY <1>0, <1>1
    <2>2. QED
      BY <1>0, <1>1, <2>1, DivModUnique
  <1>2. CASE x >= Wrap
    <2>1. x = (Wrap * 1) + (x - Wrap) /\ x - Wrap \in 0 .. Wrap - 1
      BY <1>0, <1>2
    <2>2. QED
      BY <1>0, <1>2, <2>1, DivModUnique
  <1>3. QED
    BY <1>0, <1>1, <1>2

\* Unsigned subtraction of two indices.
LEMMA DistIs ==
    ASSUME NEW a \in Counter, NEW b \in Counter
    PROVE  Dist(a, b) = IF a >= b THEN a - b ELSE (a - b) + Wrap
  <1>0. Wrap \in Nat \ {0}
    BY CapAssumption, WrapAssumption
  <1>1. CASE a >= b
    <2>1. a - b = (Wrap * 0) + (a - b) /\ a - b \in 0 .. Wrap - 1
      BY <1>0, <1>1 DEF Counter
    <2>2. QED
      BY <1>0, <1>1, <2>1, DivModUnique DEF Dist
  <1>2. CASE a < b
    <2>1. a - b = (Wrap * (-1)) + ((a - b) + Wrap) /\ (a - b) + Wrap \in 0 .. Wrap - 1
      BY <1>0, <1>2 DEF Counter
    <2>2. QED
      BY <1>0, <1>2, <2>1, DivModUnique DEF Dist, Counter
  <1>3. QED
    BY <1>0, <1>1, <1>2 DEF Counter

\* The slot of an index does not depend on whether the index has wrapped.
LEMMA SlotWrap ==
    ASSUME NEW x \in Int
    PROVE  Slot(x + Wrap) = Slot(x)
  <1>1. Wrap = (Cap * (Wrap \div Cap)) + (Wrap % Cap) /\ Wrap \div Cap \in Int
    BY CapAssumption, WrapAssumption, DivMod
  <1>2. Wrap = Cap * (Wrap \div Cap)
    BY <1>1, CapAssumption, WrapAssumption
  <1> DEFINE k == Wrap \div Cap
  <1>3. k \in Int /\ Wrap = Cap * k /\ Cap \in Nat \ {0}
    BY <1>1, <1>2, CapAssumption
  <1> HIDE DEF k
  <1>4. (x + (Cap * k)) % Cap = x % Cap
    BY <1>3, ModPeriod, Zenon
  <1>5. QED
    BY <1>3, <1>4 DEF Slot

\* Indices less than Cap apart have different slots.
LEMMA SlotDistinct ==
    ASSUME NEW a \in Int, NEW b \in Int, b < a, a < b + Cap
    PROVE  Slot(a) # Slot(b)
  <1>1. Cap \in Nat \ {0}
    BY CapAssumption
  <1>2. a % Cap # b % Cap
    BY <1>1, ModDistinct, Zenon
  <1>3. QED
    BY <1>2 DEF Slot

\* Every index has a slot.
LEMMA SlotType ==
    ASSUME NEW x \in Int
    PROVE  Slot(x) \in 0 .. Cap - 1
  BY CapAssumption, DivMod DEF Slot

-----------------------------------------------------------------------------
(* The inductive invariant: the types, the distances between the indices   *)
(* and the cached views, and what the slots in flight hold.                *)

InFlight ==
    /\ ppc # "idle" => v \in Val
    /\ ppc = "publish" => buf_[Slot(head_)] = v
    /\ cpc = "publish" => out = buf_[Slot(tail_)]

Inv == RingTypeOK /\ IndicesInStep /\ InFlight

\* The published head is the tail plus what is in the ring, up to a wrap.
LEMMA HeadFromTail ==
    ASSUME head_ \in Counter, tail_ \in Counter
    PROVE  /\ Dist(head_, tail_) \in 0 .. Wrap - 1
           /\ Slot(head_) = Slot(tail_ + Dist(head_, tail_))
  <1>1. CASE head_ >= tail_
    <2>1. Dist(head_, tail_) = head_ - tail_
      BY <1>1, DistIs
    <2>2. tail_ + Dist(head_, tail_) = head_
      BY <2>1 DEF Counter
    <2>3. QED
      BY <1>1, <2>1, <2>2, WrapAssumption DEF Counter
  <1>2. CASE head_ < tail_
    <2>1. Dist(head_, tail_) = (head_ - tail_) + Wrap
      BY <1>2, DistIs, WrapAssumption DEF Counter
    <2>2. tail_ + Dist(head_, tail_) = head_ + Wrap /\ head_ \in Int
      BY <2>1, WrapAssumption DEF Counter
    <2>3. Slot(head_ + Wrap) = Slot(head_)
      BY <2>2, SlotWrap
    <2>4. QED
      BY <1>2, <2>1, <2>2, <2>3, WrapAssumption DEF Counter
  <1>3. QED
    BY <1>1, <1>2, WrapAssumption DEF Counter

\* While the producer is inside a push, the slot it writes is none of the slots
\* between the published indices.
LEMMA WriteSlotIsFree ==
    ASSUME RingTypeOK, Dist(head_, tail_) < Cap, NEW at \in 1 .. Dist(head_, tail_)
    PROVE  Slot(head_) # Slot(tail_ + at - 1)
  <1> DEFINE n == Dist(head_, tail_)
  <1>1. n \in 0 .. Wrap - 1 /\ Slot(head_) = Slot(tail_ + n)
    BY HeadFromTail DEF RingTypeOK
  <1>2. tail_ \in Int /\ at \in Int /\ n < Cap /\ at >= 1 /\ at <= n
    BY <1>1, WrapAssumption DEF RingTypeOK, Counter
  <1> HIDE DEF n
  <1>3. /\ tail_ + n \in Int /\ tail_ + at - 1 \in Int
        /\ tail_ + at - 1 < tail_ + n /\ tail_ + n < (tail_ + at - 1) + Cap
    BY <1>1, <1>2, CapAssumption, WrapAssumption
  <1>4. Slot(tail_ + n) # Slot(tail_ + at - 1)
    BY <1>3, SlotDistinct, Zenon
  <1>5. QED
    BY <1>1, <1>4

\* One step forward, taken back into the index type.
LEMMA IncrIs ==
    ASSUME NEW a \in Counter
    PROVE  /\ (a + 1) % Wrap \in Counter
           /\ (a + 1) % Wrap = IF a + 1 = Wrap THEN 0 ELSE a + 1
  <1>1. a + 1 \in 0 .. (2 * Wrap) - 1
    BY CapAssumption, WrapAssumption DEF Counter
  <1>2. (a + 1) % Wrap = IF a + 1 < Wrap THEN a + 1 ELSE (a + 1) - Wrap
    BY <1>1, WrapIs
  <1>3. QED
    BY <1>2, CapAssumption, WrapAssumption DEF Counter

\* A load returns an index between the last value seen and the current one: the
\* distance already covered grows by some d and the distance left shrinks by it.
LEMMA VisibleIs ==
    ASSUME NEW old \in Counter, NEW x \in Counter, NEW y \in Visible(old, x)
    PROVE  /\ y \in Counter
           /\ \E d \in 0 .. Dist(x, old) :
                 y = IF old + d < Wrap THEN old + d ELSE (old + d) - Wrap
  <1>1. PICK d \in 0 .. Dist(x, old) : y = (old + d) % Wrap
    BY DEF Visible
  <1>2. Dist(x, old) \in 0 .. Wrap - 1
    BY DistIs, WrapAssumption DEF Counter
  <1>3. old + d \in 0 .. (2 * Wrap) - 1
    BY <1>1, <1>2, WrapAssumption DEF Counter
  <1>4. y = IF old + d < Wrap THEN old + d ELSE (old + d) - Wrap
    BY <1>1, <1>3, WrapIs
  <1>5. y \in Counter
    BY <1>2, <1>3, <1>4, WrapAssumption DEF Counter
  <1>6. QED
    BY <1>1, <1>4, <1>5

\* A distance is a number of the index type, zero only between equal indices.
LEMMA DistType ==
    ASSUME NEW a \in Counter, NEW b \in Counter
    PROVE  /\ Dist(a, b) \in Nat /\ Dist(a, b) < Wrap
           /\ a # b => Dist(a, b) >= 1
  <1>1. Dist(a, b) = IF a >= b THEN a - b ELSE (a - b) + Wrap
    BY DistIs
  <1>2. QED
    BY <1>1, WrapAssumption DEF Counter

\* Advancing the leading index lengthens the distance by one.
LEMMA DistAdvanceHead ==
    ASSUME NEW a \in Counter, NEW b \in Counter, Dist(a, b) < Cap
    PROVE  Dist((a + 1) % Wrap, b) = Dist(a, b) + 1
  <1> DEFINE c == (a + 1) % Wrap
  <1>1. c \in Counter /\ c = IF a + 1 = Wrap THEN 0 ELSE a + 1
    BY IncrIs
  <1> HIDE DEF c
  <1>2. Dist(a, b) = IF a >= b THEN a - b ELSE (a - b) + Wrap
    BY DistIs
  <1>3. Dist(c, b) = IF c >= b THEN c - b ELSE (c - b) + Wrap
    BY <1>1, DistIs
  <1>4. Dist(c, b) = Dist(a, b) + 1
    BY <1>1, <1>2, <1>3, CapAssumption, WrapAssumption DEF Counter
  <1>5. QED
    BY <1>4 DEF c

\* Advancing the trailing index shortens the distance by one.
LEMMA DistAdvanceTail ==
    ASSUME NEW a \in Counter, NEW b \in Counter, a # b
    PROVE  Dist(a, (b + 1) % Wrap) = Dist(a, b) - 1
  <1> DEFINE c == (b + 1) % Wrap
  <1>1. c \in Counter /\ c = IF b + 1 = Wrap THEN 0 ELSE b + 1
    BY IncrIs
  <1> HIDE DEF c
  <1>2. Dist(a, b) = IF a >= b THEN a - b ELSE (a - b) + Wrap
    BY DistIs
  <1>3. Dist(a, c) = IF a >= c THEN a - c ELSE (a - c) + Wrap
    BY <1>1, DistIs
  <1>4. Dist(a, c) = Dist(a, b) - 1
    BY <1>1, <1>2, <1>3, CapAssumption, WrapAssumption DEF Counter
  <1>5. QED
    BY <1>4 DEF c

\* Whatever value a load returns, its distance from the last value seen is no
\* more than the current value's, and seen from an index ahead of both it lies
\* between the two.
LEMMA LoadBetween ==
    ASSUME NEW old \in Counter, NEW x \in Counter, NEW y \in Visible(old, x)
    PROVE  /\ y \in Counter
           /\ Dist(y, old) <= Dist(x, old)
           /\ \A p \in Counter : Dist(p, x) <= Dist(p, old) =>
                 Dist(p, x) <= Dist(p, y) /\ Dist(p, y) <= Dist(p, old)
  <1>1. y \in Counter
    BY VisibleIs
  <1>2. PICK d \in 0 .. Dist(x, old) :
           y = IF old + d < Wrap THEN old + d ELSE (old + d) - Wrap
    BY VisibleIs
  <1>3. Dist(x, old) = IF x >= old THEN x - old ELSE (x - old) + Wrap
    BY DistIs
  <1>4. Dist(y, old) = IF y >= old THEN y - old ELSE (y - old) + Wrap
    BY <1>1, DistIs
  <1>5. Dist(y, old) <= Dist(x, old)
    BY <1>1, <1>2, <1>3, <1>4, WrapAssumption DEF Counter
  <1>6. ASSUME NEW p \in Counter, Dist(p, x) <= Dist(p, old)
        PROVE  Dist(p, x) <= Dist(p, y) /\ Dist(p, y) <= Dist(p, old)
    <2>1. Dist(p, x) = IF p >= x THEN p - x ELSE (p - x) + Wrap
      BY DistIs
    <2>2. Dist(p, y) = IF p >= y THEN p - y ELSE (p - y) + Wrap
      BY <1>1, DistIs
    <2>3. Dist(p, old) = IF p >= old THEN p - old ELSE (p - old) + Wrap
      BY DistIs
    <2>4. QED
      BY <1>1, <1>2, <1>3, <1>6, <2>1, <2>2, <2>3, WrapAssumption DEF Counter
  <1>7. QED
    BY <1>1, <1>5, <1>6

\* Initially the ring is empty and neither thread is in a call.
LEMMA InvInit == RingInit => Inv
  <1> SUFFICES ASSUME RingInit PROVE Inv
    OBVIOUS
  <1>1. 0 \in Counter
    BY CapAssumption, WrapAssumption DEF Counter
  <1>2. Dist(0, 0) = 0
    BY <1>1, DistIs
  <1>3. RingTypeOK
    BY <1>1 DEF RingInit, RingTypeOK
  <1>4. IndicesInStep
    BY <1>2, CapAssumption DEF RingInit, IndicesInStep
  <1>5. QED
    BY <1>3, <1>4 DEF RingInit, Inv, InFlight

\* The producer's write to its slot, begun or finished, disturbs no slot between
\* the published indices, the one the consumer is reading included.
LEMMA WriteIsPrivate ==
    ASSUME Inv, Dist(head_, tail_) < Cap, NEW x \in Val \cup {Torn},
           buf_' = [buf_ EXCEPT ![Slot(head_)] = x]
    PROVE  /\ buf_' \in [0 .. Cap - 1 -> Val \cup {Torn}]
           /\ buf_'[Slot(head_)] = x
           /\ \A at \in 1 .. Dist(head_, tail_) :
                 buf_'[Slot(tail_ + at - 1)] = buf_[Slot(tail_ + at - 1)]
           /\ cpc # "idle" => buf_'[Slot(tail_)] = buf_[Slot(tail_)]
  <1>1. /\ RingTypeOK
        /\ buf_ \in [0 .. Cap - 1 -> Val \cup {Torn}]
        /\ head_ \in Int /\ tail_ \in Int
    BY WrapAssumption DEF Inv, RingTypeOK, Counter
  <1>11. Slot(head_) \in 0 .. Cap - 1
    BY <1>1, SlotType
  <1>2. ASSUME NEW at \in 1 .. Dist(head_, tail_)
        PROVE  buf_'[Slot(tail_ + at - 1)] = buf_[Slot(tail_ + at - 1)]
    <2>1. Slot(head_) # Slot(tail_ + at - 1)
      BY <1>1, WriteSlotIsFree
    <2>2. at \in Int /\ tail_ + at - 1 \in Int
      BY <1>1, <1>2, HeadFromTail, WrapAssumption DEF RingTypeOK
    <2>3. Slot(tail_ + at - 1) \in 0 .. Cap - 1
      BY <2>2, SlotType
    <2>4. QED
      BY <1>1, <2>1, <2>3
  <1>3. ASSUME cpc # "idle"
        PROVE  buf_'[Slot(tail_)] = buf_[Slot(tail_)]
    <2>1. head_cache_ # tail_ /\ Dist(head_cache_, tail_) <= Dist(head_, tail_)
      BY <1>3 DEF Inv, IndicesInStep
    <2>2. 1 \in 1 .. Dist(head_, tail_)
      <3>1. Dist(head_cache_, tail_) >= 1 /\ Dist(head_cache_, tail_) \in Nat
        BY <1>1, <2>1, DistType DEF RingTypeOK
      <3>2. Dist(head_, tail_) \in Nat
        BY <1>1, DistType DEF RingTypeOK
      <3>3. QED
        BY <2>1, <3>1, <3>2
    <2>3. tail_ + 1 - 1 = tail_
      BY <1>1
    <2>4. buf_'[Slot(tail_ + 1 - 1)] = buf_[Slot(tail_ + 1 - 1)]
      BY <1>2, <2>2
    <2>5. QED
      BY <2>3, <2>4
  <1>4. QED
    BY <1>1, <1>11, <1>2, <1>3

\* Every step of either thread preserves the invariant.
LEMMA InvNext == Inv /\ [RingNext]_ringVars => Inv'
  <1> SUFFICES ASSUME Inv, [RingNext]_ringVars PROVE Inv'
    OBVIOUS
  <1> USE DEF Inv
  <1>0. /\ head_ \in Counter /\ tail_cache_ \in Counter
        /\ tail_ \in Counter /\ head_cache_ \in Counter
        /\ Counter \subseteq Int
    BY WrapAssumption DEF RingTypeOK, Counter
  <1>00. /\ Dist(head_, tail_cache_) \in Nat /\ Dist(head_, tail_) \in Nat
         /\ Dist(head_cache_, tail_) \in Nat /\ Cap \in Nat
    BY <1>0, DistType, CapAssumption
  <1>1. ASSUME NEW x \in Val, Push(x) PROVE Inv'
    <2>1. Dist(head_, tail_cache_) < Cap
      BY <1>00, <1>1 DEF Push, LooksFull
    <2>2. Dist(head_, tail_) < Cap
      BY <1>00, <2>1 DEF IndicesInStep
    <2>3. /\ buf_' \in [0 .. Cap - 1 -> Val \cup {Torn}]
          /\ cpc # "idle" => buf_'[Slot(tail_)] = buf_[Slot(tail_)]
      BY <1>1, <2>2, WriteIsPrivate DEF Push, BeginWrite
    <2>4. RingTypeOK'
      BY <1>1, <2>3 DEF RingTypeOK, Push, BeginWrite, consumerVars
    <2>5. IndicesInStep'
      BY <1>1, <2>1 DEF IndicesInStep, Push, BeginWrite, consumerVars
    <2>6. InFlight'
      BY <1>1, <2>3 DEF InFlight, Push, BeginWrite, consumerVars
    <2>7. QED
      BY <2>4, <2>5, <2>6
  <1>2. ASSUME NEW x \in Val, NEW t \in Visible(tail_cache_, tail_), PushReload(x, t)
        PROVE  Inv'
    <2>1. /\ t \in Counter /\ Dist(head_, tail_) <= Dist(head_, t)
          /\ Dist(head_, t) <= Dist(head_, tail_cache_)
      BY <1>0, <1>2, LoadBetween DEF IndicesInStep
    <2>2. Dist(head_, t) \in Nat
      BY <1>0, <2>1, DistType
    <2>3. Dist(head_, tail_) <= Dist(head_, t) /\ Dist(head_, t) <= Cap
      BY <1>00, <2>1, <2>2 DEF IndicesInStep
    <2>4. CASE LooksFull(t)
      BY <1>2, <2>1, <2>3, <2>4 DEF RingTypeOK, IndicesInStep, InFlight, PushReload, consumerVars
    <2>5. CASE ~LooksFull(t)
      <3>1. Dist(head_, t) < Cap /\ Dist(head_, tail_) < Cap
        BY <1>00, <2>2, <2>3, <2>5 DEF LooksFull
      <3>2. buf_' = [buf_ EXCEPT ![Slot(head_)] = Torn] /\ ppc' = "write"
        BY <1>2, <2>5 DEF PushReload, BeginWrite
      <3>3. /\ buf_' \in [0 .. Cap - 1 -> Val \cup {Torn}]
            /\ cpc # "idle" => buf_'[Slot(tail_)] = buf_[Slot(tail_)]
        BY <3>1, <3>2, WriteIsPrivate
      <3>4. RingTypeOK'
        BY <1>2, <2>1, <3>2, <3>3 DEF RingTypeOK, PushReload, consumerVars
      <3>5. IndicesInStep'
        BY <1>2, <2>3, <3>1 DEF IndicesInStep, PushReload, consumerVars
      <3>6. InFlight'
        BY <1>2, <3>2, <3>3 DEF InFlight, PushReload, consumerVars
      <3>7. QED
        BY <3>4, <3>5, <3>6
    <2>6. QED
      BY <2>4, <2>5
  <1>3. ASSUME PushWrite PROVE Inv'
    <2>1. Dist(head_, tail_) < Cap /\ v \in Val
      BY <1>00, <1>3 DEF IndicesInStep, InFlight, PushWrite
    <2>2. /\ buf_' \in [0 .. Cap - 1 -> Val \cup {Torn}]
          /\ buf_'[Slot(head_)] = v
          /\ cpc # "idle" => buf_'[Slot(tail_)] = buf_[Slot(tail_)]
      BY <1>3, <2>1, WriteIsPrivate DEF PushWrite
    <2>3. RingTypeOK'
      BY <1>3, <2>2 DEF RingTypeOK, PushWrite, consumerVars
    <2>4. IndicesInStep'
      BY <1>3 DEF IndicesInStep, PushWrite, consumerVars
    <2>5. InFlight'
      BY <1>3, <2>1, <2>2 DEF InFlight, PushWrite, consumerVars
    <2>6. QED
      BY <2>3, <2>4, <2>5
  <1>4. ASSUME PushPublish PROVE Inv'
    <2>1. head_' \in Counter
      BY <1>0, <1>4, IncrIs DEF PushPublish
    <2>2. RingTypeOK'
      BY <1>4, <2>1 DEF RingTypeOK, PushPublish, consumerVars
    <2>3. Dist(head_, tail_cache_) < Cap /\ Dist(head_, tail_) < Cap
      BY <1>00, <1>4 DEF IndicesInStep, PushPublish
    <2>31. /\ Dist(head_', tail_cache_) = Dist(head_, tail_cache_) + 1
           /\ Dist(head_', tail_) = Dist(head_, tail_) + 1
      BY <1>0, <1>4, <2>3, DistAdvanceHead DEF PushPublish
    <2>4. IndicesInStep'
      BY <1>00, <1>4, <2>3, <2>31 DEF IndicesInStep, PushPublish, consumerVars
    <2>5. InFlight'
      BY <1>4 DEF InFlight, PushPublish, consumerVars
    <2>6. QED
      BY <2>2, <2>4, <2>5
  <1>5. ASSUME Pop PROVE Inv'
    BY <1>5 DEF RingTypeOK, IndicesInStep, InFlight, Pop, producerVars
  <1>6. ASSUME NEW h \in Visible(head_cache_, head_), PopReload(h) PROVE Inv'
    <2>1. h \in Counter /\ Dist(h, head_cache_) <= Dist(head_, head_cache_)
      BY <1>0, <1>6, LoadBetween
    <2>3. Dist(h, tail_) <= Dist(head_, tail_)
      BY <1>6, <2>1 DEF PopReload
    <2>4. RingTypeOK'
      BY <1>6, <2>1 DEF RingTypeOK, PopReload, producerVars
    <2>5. IndicesInStep'
      BY <1>6, <2>3 DEF IndicesInStep, PopReload, producerVars
    <2>6. InFlight'
      BY <1>6 DEF InFlight, PopReload, producerVars
    <2>7. QED
      BY <2>4, <2>5, <2>6
  <1>7. ASSUME PopRead PROVE Inv'
    <2>1. Slot(tail_) \in 0 .. Cap - 1
      BY <1>0, SlotType
    <2>2. QED
      BY <1>7, <2>1 DEF RingTypeOK, IndicesInStep, InFlight, PopRead, producerVars
  <1>8. ASSUME PopPublish PROVE Inv'
    <2>1. tail_' \in Counter
      BY <1>0, <1>8, IncrIs DEF PopPublish
    <2>2. RingTypeOK'
      BY <1>8, <2>1 DEF RingTypeOK, PopPublish, producerVars
    <2>3. head_cache_ # tail_ /\ head_ # tail_
      <3>1. head_cache_ # tail_
        BY <1>8 DEF IndicesInStep, PopPublish
      <3>2. Dist(head_, tail_) >= 1
        BY <1>0, <1>00, <3>1, DistType DEF IndicesInStep
      <3>3. Dist(tail_, tail_) = 0
        BY <1>0, DistIs
      <3>4. QED
        BY <3>1, <3>2, <3>3
    <2>31. /\ Dist(head_, tail_') = Dist(head_, tail_) - 1
           /\ Dist(head_cache_, tail_') = Dist(head_cache_, tail_) - 1
      BY <1>0, <1>8, <2>3, DistAdvanceTail DEF PopPublish
    <2>4. IndicesInStep'
      BY <1>00, <1>8, <2>31 DEF IndicesInStep, PopPublish, producerVars
    <2>5. InFlight'
      BY <1>8 DEF InFlight, PopPublish, producerVars
    <2>6. QED
      BY <2>2, <2>4, <2>5
  <1>9. CASE UNCHANGED ringVars
    BY <1>9 DEF RingTypeOK, IndicesInStep, InFlight, ringVars, producerVars, consumerVars
  <1>10. QED
    BY <1>1, <1>2, <1>3, <1>4, <1>5, <1>6, <1>7, <1>8, <1>9 DEF RingNext, RingProducer, RingConsumer

\* The invariant holds in every reachable state.
THEOREM InvAlways == RingSpec => []Inv
  BY InvInit, InvNext, PTL DEF RingSpec

\* Every field of the ring and of both threads keeps its type.
THEOREM TypeCorrect == RingSpec => []RingTypeOK
  <1>1. Inv => RingTypeOK
    BY DEF Inv
  <1>2. QED
    BY <1>1, InvAlways, PTL

\* The cached views never run ahead and the indices are never more than Cap
\* apart, whatever stale value a load returns and wherever the indices wrap.
THEOREM IndicesAlwaysInStep == RingSpec => []IndicesInStep
  <1>1. Inv => IndicesInStep
    BY DEF Inv
  <1>2. QED
    BY <1>1, InvAlways, PTL

\* The producer never writes the slot the consumer is reading.
THEOREM RaceFree == RingSpec => []NoSlotRace
  <1>1. Inv => NoSlotRace
    <2> SUFFICES ASSUME Inv, ppc = "write", cpc = "read"
                 PROVE  Slot(head_) # Slot(tail_)
      BY DEF NoSlotRace
    <2>1. /\ RingTypeOK /\ head_ \in Counter /\ tail_ \in Counter
          /\ tail_cache_ \in Counter /\ head_cache_ \in Counter
      BY DEF Inv, RingTypeOK
    <2>2. /\ Dist(head_, tail_cache_) \in Nat /\ Dist(head_, tail_) \in Nat
          /\ Dist(head_cache_, tail_) \in Nat /\ Cap \in Nat
          /\ head_cache_ # tail_ => Dist(head_cache_, tail_) >= 1
      BY <2>1, DistType, CapAssumption
    <2>3. Dist(head_, tail_) < Cap /\ Dist(head_, tail_) >= 1
      BY <2>2 DEF Inv, IndicesInStep
    <2>4. 1 \in 1 .. Dist(head_, tail_)
      BY <2>2, <2>3
    <2>5. Slot(head_) # Slot(tail_ + 1 - 1)
      BY <2>1, <2>3, <2>4, WriteSlotIsFree
    <2>6. tail_ + 1 - 1 = tail_
      BY <2>1, WrapAssumption DEF Counter
    <2>7. QED
      BY <2>5, <2>6
  <1>2. QED
    BY <1>1, InvAlways, PTL

-----------------------------------------------------------------------------
(* Refinement: the ring implements BoundedFifo.                            *)

\* The elements between the indices form a sequence of that length.
LEMMA ContentsIsSeq ==
    ASSUME RingTypeOK
    PROVE  /\ Contents \in Seq(Val \cup {Torn})
           /\ Len(Contents) = Dist(head_, tail_)
           /\ Dist(head_, tail_) \in Nat
  <1>1. Dist(head_, tail_) \in Nat /\ tail_ \in Int
    BY DistType, WrapAssumption DEF RingTypeOK, Counter
  <1>2. ASSUME NEW at \in 1 .. Dist(head_, tail_)
        PROVE  buf_[Slot(tail_ + at - 1)] \in Val \cup {Torn}
    <2>1. tail_ + at - 1 \in Int
      BY <1>1
    <2>2. Slot(tail_ + at - 1) \in 0 .. Cap - 1
      BY <2>1, SlotType
    <2>3. QED
      BY <2>2 DEF RingTypeOK
  <1>3. QED
    BY <1>1, <1>2 DEF Contents

\* Steps that leave both indices alone and write no slot between them do not
\* change the queue.
LEMMA ContentsKept ==
    ASSUME UNCHANGED <<head_, tail_>>,
           \A at \in 1 .. Dist(head_, tail_) :
               buf_'[Slot(tail_ + at - 1)] = buf_[Slot(tail_ + at - 1)]
    PROVE  Contents' = Contents
  BY DEF Contents

\* A published push appends the element that was passed to try_push.
LEMMA PushAppends ==
    ASSUME Inv, PushPublish
    PROVE  v \in Val /\ Fifo!Put(v)
  <1> DEFINE n == Dist(head_, tail_)
             S == Val \cup {Torn}
  <1>1. /\ RingTypeOK /\ head_ \in Counter /\ tail_ \in Counter /\ tail_ \in Int
        /\ v \in Val /\ v \in S /\ buf_[Slot(head_)] = v
        /\ tail_' = tail_ /\ buf_' = buf_ /\ received' = received
        /\ head_' = (head_ + 1) % Wrap
    BY WrapAssumption DEF Inv, InFlight, RingTypeOK, Counter, PushPublish, consumerVars
  <1>2. n \in Nat /\ n < Cap
    <2>1. n \in Nat /\ Dist(head_, tail_cache_) \in Nat /\ Cap \in Nat
      BY <1>1, DistType, CapAssumption DEF RingTypeOK
    <2>2. n <= Dist(head_, tail_cache_) /\ Dist(head_, tail_cache_) < Cap
      BY DEF Inv, IndicesInStep, PushPublish
    <2>3. QED
      BY <2>1, <2>2
  <1>3. Contents \in Seq(S) /\ Len(Contents) = n
    BY <1>1, ContentsIsSeq
  <1>4. Dist(head_', tail_) = n + 1
    BY <1>1, <1>2, DistAdvanceHead
  <1>5. Contents' = [at \in 1 .. n + 1 |-> buf_[Slot(tail_ + at - 1)]]
    BY <1>1, <1>4 DEF Contents
  <1>6. buf_[Slot(tail_ + (n + 1) - 1)] = v
    <2>1. Slot(head_) = Slot(tail_ + n)
      BY <1>1, HeadFromTail
    <2>2. tail_ + (n + 1) - 1 = tail_ + n
      BY <1>1, <1>2
    <2>3. QED
      BY <1>1, <2>1, <2>2
  <1>7. \A at \in 1 .. n : Contents[at] = buf_[Slot(tail_ + at - 1)]
    BY DEF Contents
  <1>8. /\ Append(Contents, v) \in Seq(S) /\ Len(Append(Contents, v)) = n + 1
        /\ \A at \in 1 .. n : Append(Contents, v)[at] = Contents[at]
        /\ Append(Contents, v)[n + 1] = v
    BY <1>1, <1>2, <1>3, AppendProperties
  <1> HIDE DEF n
  <1>9. \A at \in 1 .. n + 1 : Contents'[at] = Append(Contents, v)[at]
    <2> SUFFICES ASSUME NEW at \in 1 .. n + 1 PROVE Contents'[at] = Append(Contents, v)[at]
      OBVIOUS
    <2>1. CASE at \in 1 .. n
      BY <1>2, <1>5, <1>7, <1>8, <2>1
    <2>2. CASE at = n + 1
      BY <1>2, <1>5, <1>6, <1>8, <2>2
    <2>3. at \in 1 .. n \/ at = n + 1
      BY <1>2
    <2>4. QED
      BY <2>1, <2>2, <2>3
  <1>10. Contents' = Append(Contents, v)
    <2>1. Append(Contents, v) = [at \in 1 .. n + 1 |-> Append(Contents, v)[at]]
      BY <1>2, <1>8, LenProperties
    <2>2. QED
      BY <1>5, <1>9, <2>1
  <1>11. QED
    BY <1>1, <1>2, <1>3, <1>10 DEF Fifo!Put, n

\* A published pop delivers the oldest element and removes it.
LEMMA PopDelivers ==
    ASSUME Inv, PopPublish
    PROVE  Fifo!Get
  <1> DEFINE n == Dist(head_, tail_)
             S == Val \cup {Torn}
  <1>1. /\ RingTypeOK /\ head_ \in Counter /\ tail_ \in Counter /\ head_cache_ \in Counter
        /\ tail_ \in Int /\ head_cache_ # tail_ /\ out = buf_[Slot(tail_)]
        /\ head_' = head_ /\ buf_' = buf_ /\ received' = out
        /\ tail_' = (tail_ + 1) % Wrap
    BY WrapAssumption DEF Inv, InFlight, IndicesInStep, RingTypeOK, Counter, PopPublish, producerVars
  <1>2. n \in Nat /\ n >= 1 /\ head_ # tail_
    <2>1. n \in Nat /\ Dist(head_cache_, tail_) \in Nat /\ Dist(head_cache_, tail_) >= 1
      BY <1>1, DistType
    <2>2. n >= 1
      BY <2>1 DEF Inv, IndicesInStep
    <2>3. Dist(tail_, tail_) = 0
      BY <1>1, DistIs
    <2>4. QED
      BY <2>1, <2>2, <2>3
  <1>3. Contents \in Seq(S) /\ Len(Contents) = n
    BY <1>1, ContentsIsSeq
  <1>4. Dist(head_, tail_') = n - 1
    BY <1>1, <1>2, DistAdvanceTail
  <1>5. Contents' = [at \in 1 .. n - 1 |-> buf_[Slot(tail_' + at - 1)]]
    BY <1>1, <1>4 DEF Contents
  <1>6. \A at \in 1 .. n : Contents[at] = buf_[Slot(tail_ + at - 1)]
    BY DEF Contents
  <1>7. /\ Head(Contents) = Contents[1] /\ Tail(Contents) \in Seq(S)
        /\ Len(Tail(Contents)) = n - 1 /\ Contents # <<>>
        /\ \A at \in 1 .. n - 1 : Tail(Contents)[at] = Contents[at + 1]
    BY <1>2, <1>3, HeadTailProperties, EmptySeq
  <1> HIDE DEF n
  <1>8. Head(Contents) = out
    <2>1. Contents[1] = buf_[Slot(tail_ + 1 - 1)] /\ tail_ + 1 - 1 = tail_
      BY <1>1, <1>2, <1>6
    <2>2. QED
      BY <1>1, <1>7, <2>1
  <1>9. ASSUME NEW at \in 1 .. n - 1
        PROVE  Slot(tail_' + at - 1) = Slot(tail_ + (at + 1) - 1)
    <2>0. at \in Int /\ tail_ \in Int
      BY <1>1, <1>2
    <2>1. tail_' = IF tail_ + 1 = Wrap THEN 0 ELSE tail_ + 1
      BY <1>1, IncrIs
    <2>2. CASE tail_ + 1 = Wrap
      <3>0. tail_' = 0 /\ Wrap = tail_ + 1
        BY <2>1, <2>2
      <3>1. /\ tail_ + (at + 1) - 1 = (at - 1) + Wrap /\ tail_' + at - 1 = at - 1
            /\ at - 1 \in Int
        BY <2>0, <3>0
      <3>2. Slot((at - 1) + Wrap) = Slot(at - 1)
        BY <3>1, SlotWrap
      <3>3. QED
        BY <3>1, <3>2
    <2>3. CASE tail_ + 1 # Wrap
      <3>1. tail_' + at - 1 = tail_ + (at + 1) - 1
        BY <2>0, <2>1, <2>3
      <3>2. QED
        BY <3>1
    <2>4. QED
      BY <2>2, <2>3
  <1>10. \A at \in 1 .. n - 1 : Contents'[at] = Tail(Contents)[at]
    <2> SUFFICES ASSUME NEW at \in 1 .. n - 1 PROVE Contents'[at] = Tail(Contents)[at]
      OBVIOUS
    <2>1. at + 1 \in 1 .. n
      BY <1>2
    <2>2. QED
      BY <1>5, <1>6, <1>7, <1>9, <2>1
  <1>11. Contents' = Tail(Contents)
    <2>1. Tail(Contents) = [at \in 1 .. n - 1 |-> Tail(Contents)[at]]
      BY <1>2, <1>7, LenProperties
    <2>2. QED
      BY <1>5, <1>10, <2>1
  <1>12. QED
    BY <1>1, <1>7, <1>8, <1>11 DEF Fifo!Get

\* Every step of the ring is a step of the queue or leaves it unchanged.
LEMMA StepRefines == Inv /\ [RingNext]_ringVars => [Fifo!FNext]_(Fifo!fvars)
  <1> SUFFICES ASSUME Inv, [RingNext]_ringVars PROVE [Fifo!FNext]_(Fifo!fvars)
    OBVIOUS
  <1>0. /\ Dist(head_, tail_cache_) \in Nat /\ Dist(head_, tail_) \in Nat /\ Cap \in Nat
        /\ Dist(head_, tail_) <= Dist(head_, tail_cache_)
    BY DistType, CapAssumption DEF Inv, RingTypeOK, IndicesInStep
  <1>1. ASSUME UNCHANGED <<head_, tail_, received>>, Dist(head_, tail_) < Cap,
               NEW x \in Val \cup {Torn}, buf_' = [buf_ EXCEPT ![Slot(head_)] = x]
        PROVE  UNCHANGED Fifo!fvars
    <2>1. Contents' = Contents
      BY <1>1, WriteIsPrivate, ContentsKept
    <2>2. QED
      BY <1>1, <2>1 DEF Fifo!fvars
  <1>2. ASSUME UNCHANGED <<head_, tail_, received, buf_>> PROVE UNCHANGED Fifo!fvars
    BY <1>2 DEF Fifo!fvars, Contents
  <1>3. ASSUME NEW x \in Val, Push(x) PROVE UNCHANGED Fifo!fvars
    <2>1. Dist(head_, tail_) < Cap
      BY <1>0, <1>3 DEF Push, LooksFull
    <2>2. QED
      BY <1>1, <1>3, <2>1 DEF Push, BeginWrite, consumerVars
  <1>4. ASSUME NEW x \in Val, NEW t \in Visible(tail_cache_, tail_), PushReload(x, t)
        PROVE  UNCHANGED Fifo!fvars
    <2>1. CASE LooksFull(t)
      BY <1>2, <1>4, <2>1 DEF PushReload, consumerVars
    <2>2. CASE ~LooksFull(t)
      <3>1. t \in Counter /\ Dist(head_, tail_) <= Dist(head_, t)
        BY <1>4, LoadBetween DEF Inv, RingTypeOK, IndicesInStep
      <3>2. Dist(head_, t) \in Nat
        BY <3>1, DistType DEF Inv, RingTypeOK
      <3>3. Dist(head_, tail_) < Cap
        BY <1>0, <2>2, <3>1, <3>2 DEF LooksFull
      <3>4. QED
        BY <1>1, <1>4, <2>2, <3>3 DEF PushReload, BeginWrite, consumerVars
    <2>3. QED
      BY <2>1, <2>2
  <1>5. ASSUME PushWrite PROVE UNCHANGED Fifo!fvars
    <2>1. Dist(head_, tail_) < Cap /\ v \in Val
      BY <1>0, <1>5 DEF Inv, InFlight, IndicesInStep, PushWrite
    <2>2. QED
      BY <1>1, <1>5, <2>1 DEF PushWrite, consumerVars
  <1>6. ASSUME PushPublish PROVE Fifo!FNext
    BY <1>6, PushAppends DEF Fifo!FNext
  <1>7. ASSUME Pop PROVE UNCHANGED Fifo!fvars
    BY <1>2, <1>7 DEF Pop, producerVars
  <1>8. ASSUME NEW h \in Visible(head_cache_, head_), PopReload(h) PROVE UNCHANGED Fifo!fvars
    BY <1>2, <1>8 DEF PopReload, producerVars
  <1>9. ASSUME PopRead PROVE UNCHANGED Fifo!fvars
    BY <1>2, <1>9 DEF PopRead, producerVars
  <1>10. ASSUME PopPublish PROVE Fifo!FNext
    BY <1>10, PopDelivers DEF Fifo!FNext
  <1>11. CASE UNCHANGED ringVars
    BY <1>2, <1>11 DEF ringVars, producerVars, consumerVars
  <1>12. QED
    BY <1>3, <1>4, <1>5, <1>6, <1>7, <1>8, <1>9, <1>10, <1>11 DEF RingNext, RingProducer, RingConsumer

\* The ring starts as the empty queue.
LEMMA InitRefines == RingInit => Fifo!FInit
  <1> SUFFICES ASSUME RingInit PROVE Fifo!FInit
    OBVIOUS
  <1>1. Dist(0, 0) = 0
    BY DistIs, CapAssumption, WrapAssumption DEF Counter
  <1>2. Contents = <<>>
    BY <1>1 DEF RingInit, Contents
  <1>3. QED
    BY <1>2, TornAssumption DEF RingInit, Fifo!FInit

\* The ring is a first-in first-out queue of capacity Cap for every capacity,
\* index width and interleaving, with loads that may return stale indices.
THEOREM RingImplementsFifo == RingSpec => ImplementsFifo
  BY InitRefines, StepRefines, InvAlways, PTL DEF RingSpec, ImplementsFifo, Fifo!FSpec

-----------------------------------------------------------------------------
(* The pipeline: the inductive invariant.                                  *)

HistoryOK == attempts \in Nat /\ skipped \in Nat /\ accepted \in Seq(Event)

\* Every recording was accepted, dropped or sampled out.
Accounted == Len(accepted) + drops_ + skipped = attempts

\* An event the ring took and has not published yet.
Pushing == IF ppc = "idle" THEN 0 ELSE 1

\* The events accepted are the consumed ones, those in the ring, in that order, and
\* the one being pushed.
InOrder ==
    /\ consumed_ + Dist(head_, tail_) + Pushing = Len(accepted)
    /\ \A k \in 1 .. Dist(head_, tail_) : Contents[k] = accepted[consumed_ + k]
    /\ ppc # "idle" => v = accepted[Len(accepted)]

\* How far the two threads are with the shutdown: nothing is pushed after stop(), the
\* aggregator leaves its loop after it, and leaves the drain with the ring empty.
Shutdown ==
    /\ ~running_ => mpc = "final" /\ ppc = "idle"
    /\ apc \in {"drain", "final", "done"} => ~running_
    /\ apc \in {"final", "done"} => head_ = tail_
    /\ cpc # "idle" => Popping
    /\ joined => apc = "done"

\* Where the consumed events that satisfy a condition are.
Folded(e) == {k \in 1 .. consumed_ : accepted[k].etype = e}
FoldedLatency(op) == {k \in Folded("Latency") : accepted[k].of = op}

\* What ingest has made of the consumed events.
FoldExact ==
    /\ trades_ = Cardinality(Folded("Trade")) /\ snaps_ = Cardinality(Folded("Snapshot"))
    /\ \A k \in Folded("Snapshot") :
          (\A j \in Folded("Snapshot") : j <= k) => book = accepted[k].of
    /\ \A op \in Ops : cum_[op] + win_[op] = Cardinality(FoldedLatency(op))

\* The k-th newest trade is k places behind the next one to be written.
TapePlace(k) == (tape_next_ + MAX_TAPE - k) % MAX_TAPE

TapeExact ==
    /\ tape_n_ = IF trades_ < MAX_TAPE THEN trades_ ELSE MAX_TAPE
    /\ \A p \in Folded("Trade") : Age(Folded("Trade"), p) <= MAX_TAPE =>
          tape_[TapePlace(Age(Folded("Trade"), p))] = accepted[p].of

PipelineInv ==
    /\ Inv /\ TypeOK /\ HistoryOK /\ Accounted /\ InOrder /\ Shutdown
    /\ FoldExact /\ TapeExact /\ DropsAlertedOnce /\ FinalFrameComplete

-----------------------------------------------------------------------------
(* The pipeline and the ring.                                              *)

\* A load may return the newest value.
LEMMA VisibleNow ==
    ASSUME NEW old \in Counter, NEW x \in Counter
    PROVE  x \in Visible(old, x)
  <1> DEFINE d == Dist(x, old)
  <1>1. d = IF x >= old THEN x - old ELSE (x - old) + Wrap
    BY DistIs
  <1>2. d \in 0 .. d /\ old + d \in 0 .. (2 * Wrap) - 1
    BY <1>1, WrapAssumption DEF Counter
  <1>3. (old + d) % Wrap = IF old + d < Wrap THEN old + d ELSE (old + d) - Wrap
    BY <1>2, WrapIs
  <1>4. (old + d) % Wrap = x
    BY <1>1, <1>3, WrapAssumption DEF Counter
  <1>5. QED
    BY <1>2, <1>4 DEF Visible

\* Both threads use the ring only as its two methods allow: every step of the
\* pipeline is a step of the ring or leaves the ring alone.
LEMMA RingStep == Inv /\ [Next]_vars => [RingNext]_ringVars
  <1> SUFFICES ASSUME Inv, [Next]_vars PROVE [RingNext]_ringVars
    OBVIOUS
  <1>1. ASSUME NEW e \in Event, TryPush(e) PROVE RingNext
    BY <1>1, EventAssumption DEF TryPush, RingNext, RingProducer
  <1>2. ASSUME TryPop PROVE RingNext
    <2>1. head_cache_ \in Counter /\ head_ \in Counter
      BY DEF Inv, RingTypeOK
    <2>2. HeadVisible \subseteq Visible(head_cache_, head_)
      BY <2>1, VisibleNow DEF HeadVisible
    <2>3. QED
      BY <1>2, <2>2 DEF TryPop, RingNext, RingConsumer
  <1>3. ASSUME NEW e \in Event, recordLatency(e) PROVE [RingNext]_ringVars
    BY <1>1, <1>3 DEF recordLatency
  <1>4. ASSUME NEW e \in Event, record(e) PROVE RingNext
    BY <1>1, <1>4 DEF record
  <1>5. ASSUME NEW b \in Books, EndOfFeed(b) PROVE RingNext
    <2>1. [etype |-> "Snapshot", of |-> b] \in Event
      BY DEF Event
    <2>2. QED
      BY <1>1, <1>5, <2>1 DEF EndOfFeed
  <1>6. ASSUME PushOn \/ PopCopy \/ PopIngest PROVE RingNext
    BY <1>6 DEF PushOn, PopCopy, PopIngest, RingNext, RingProducer, RingConsumer
  <1>7. ASSUME \/ Admit \/ stop \/ join \/ on_sigint \/ LoopAgain \/ SeeStop \/ BurstDone
               \/ Tick \/ RenderFinal \/ Terminated \/ UNCHANGED vars
        PROVE  UNCHANGED ringVars
    BY <1>7 DEF Admit, stop, join, on_sigint, LoopAgain, SeeStop, BurstDone, Tick, RenderFinal,
                Terminated, vars
  <1>8. QED
    BY <1>2, <1>3, <1>4, <1>5, <1>6, <1>7 DEF Next, Main, Aggregate

\* The initial states satisfy the invariant.
LEMMA PipelineInit == Init => PipelineInv
  <1> SUFFICES ASSUME Init PROVE PipelineInv
    OBVIOUS
  <1>1. Inv /\ head_ = 0 /\ tail_ = 0 /\ ppc = "idle" /\ cpc = "idle"
    BY InvInit DEF Init, RingInit
  <1>2. Dist(0, 0) = 0
    BY DistIs, CapAssumption, WrapAssumption DEF Counter
  <1>3. TypeOK
    <2>1. g_stop \in BOOLEAN /\ running_ \in BOOLEAN /\ joined \in BOOLEAN
      BY Zenon DEF Init
    <2>2. 0 \in 0 .. SampleEvery - 1 /\ 0 \in 0 .. Burst /\ 0 \in 0 .. MAX_TAPE - 1 /\ 0 \in 0 .. MAX_TAPE
      BY PipelineAssumption
    <2>3. win_ \in [Ops -> Nat] /\ cum_ \in [Ops -> Nat]
          /\ tape_ \in [0 .. MAX_TAPE - 1 -> Makers \cup {Torn}]
      BY DEF Init
    <2>4. QED
      BY <2>1, <2>2, <2>3 DEF Init, TypeOK
  <1>4. accepted = <<>> /\ Len(accepted) = 0 /\ consumed_ = 0
    BY DEF Init
  <1>5. HistoryOK /\ Accounted
    BY <1>4 DEF Init, HistoryOK, Accounted
  <1>6. InOrder
    BY <1>1, <1>2, <1>4 DEF InOrder, Pushing
  <1>7. Shutdown
    BY <1>1 DEF Init, Shutdown
  <1>8. \A e : Folded(e) = {}
    BY <1>4 DEF Folded
  <1>9. \A op : FoldedLatency(op) = {}
    BY <1>8 DEF FoldedLatency
  <1>10. FoldExact
    <2>1. Cardinality({}) = 0
      BY FS_EmptySet
    <2>2. \A op \in Ops : cum_[op] + win_[op] = 0
      BY DEF Init
    <2>3. QED
      BY <1>8, <1>9, <2>1, <2>2 DEF Init, FoldExact
  <1>11. TapeExact
    BY <1>8, PipelineAssumption DEF Init, TapeExact
  <1>12. DropsAlertedOnce /\ FinalFrameComplete
    BY DEF Init, DropsAlertedOnce, FinalFrameComplete
  <1>13. QED
    BY <1>1, <1>3, <1>5, <1>6, <1>7, <1>10, <1>11, <1>12 DEF PipelineInv

-----------------------------------------------------------------------------
(* Steps that touch neither the ring, the recorder nor what was folded.    *)

\* The invariant but for the control of the threads and the frames.
Data == HistoryOK /\ Accounted /\ InOrder /\ FoldExact /\ TapeExact

\* The type invariant but for the flags, which the provers treat apart.
Flags == g_stop \in BOOLEAN /\ running_ \in BOOLEAN /\ joined \in BOOLEAN
Counts ==
    /\ sample_count_ \in 0 .. SampleEvery - 1 /\ drops_ \in Nat
    /\ consumed_ \in Nat /\ snaps_ \in Nat /\ trades_ \in Nat /\ book \in Books \cup {Torn}
    /\ win_ \in [Ops -> Nat] /\ cum_ \in [Ops -> Nat]
    /\ tape_ \in [0 .. MAX_TAPE - 1 -> Makers \cup {Torn}]
    /\ tape_next_ \in 0 .. MAX_TAPE - 1 /\ tape_n_ \in 0 .. MAX_TAPE
    /\ last_drops_alert_ \in 0 .. drops_ /\ alerted \in Nat
Places ==
    /\ mpc \in {"feed", "msg", "final"}
    /\ apc \in {"loop", "burst", "tick", "drain", "final", "done"} /\ i \in 0 .. Burst

\* The parts of the invariant.
LEMMA Parts ==
    /\ TypeOK <=> Flags /\ Counts /\ Places
    /\ PipelineInv <=> Inv /\ TypeOK /\ Data /\ Shutdown /\ DropsAlertedOnce /\ FinalFrameComplete
  <1>1. TypeOK <=> Flags /\ Counts /\ Places
    BY Zenon DEF TypeOK, Flags, Counts, Places
  <1>2. QED
    BY <1>1, Zenon DEF PipelineInv, Data

\* A step that changes neither the ring, the recorder, the folded state nor the frames
\* keeps the data.
LEMMA DataKept ==
    ASSUME Data, UNCHANGED <<ringVars, recorderVars, foldVars, frameVars>>
    PROVE  Data'
  <1>1. HistoryOK' /\ Accounted'
    BY DEF Data, HistoryOK, Accounted, recorderVars
  <1>2. InOrder'
    BY DEF Data, InOrder, Pushing, Contents, recorderVars, foldVars, ringVars, producerVars, consumerVars
  <1>3. FoldExact' /\ TapeExact'
    BY DEF Data, FoldExact, TapeExact, Folded, FoldedLatency, Age, TapePlace, recorderVars, foldVars, frameVars
  <1>4. QED
    BY <1>1, <1>2, <1>3 DEF Data

\* Once the aggregator is done nothing is pushed, popped or folded any more.
LEMMA DoneIsQuiet ==
    ASSUME PipelineInv, apc = "done"
    PROVE  ~running_ /\ mpc = "final" /\ ppc = "idle" /\ cpc = "idle" /\ head_ = tail_
  BY DEF PipelineInv, Shutdown, Popping

\* The frame stays complete while what it sums up does not change.
LEMMA FrameKept ==
    ASSUME FinalFrameComplete, UNCHANGED <<accepted, frame, drops_>>, apc' = "done" => apc = "done"
    PROVE  FinalFrameComplete'
  BY DEF FinalFrameComplete, AcceptedOf, Age

Quiet ==
    \/ Admit \/ stop \/ join \/ on_sigint \/ LoopAgain \/ SeeStop \/ BurstDone
    \/ Terminated \/ UNCHANGED vars

\* The driver's steps between recordings and the aggregator's between pops.
LEMMA QuietStep == PipelineInv /\ Inv' /\ Quiet => PipelineInv'
  <1> SUFFICES ASSUME PipelineInv, Inv', Quiet PROVE PipelineInv'
    OBVIOUS
  <1>1. UNCHANGED <<ringVars, recorderVars, foldVars, frameVars>>
    BY DEF Quiet, Admit, stop, join, on_sigint, LoopAgain, SeeStop, BurstDone, Terminated, vars, AggregatorStep
  <1>2. Data'
    BY <1>1, Parts, DataKept
  <1>3. Counts'
    BY <1>1, Parts DEF Counts, recorderVars, foldVars, frameVars
  <1>4. Flags'
    BY Parts, Zenon DEF Flags, Quiet, Admit, stop, join, on_sigint, LoopAgain, SeeStop, BurstDone, Terminated, vars, AggregatorStep, mainVars
  <1>5. Places'
    BY Parts, PipelineAssumption DEF Places, Quiet, Admit, stop, join, on_sigint, LoopAgain, SeeStop, BurstDone, Terminated, vars, AggregatorStep, mainVars
  <1>6. Shutdown'
    <2>0. Shutdown /\ UNCHANGED <<head_, tail_, ppc, cpc>>
      BY <1>1 DEF PipelineInv, ringVars, producerVars, consumerVars
    <2>1. CASE Admit \/ stop \/ join \/ on_sigint
      BY <2>0, <2>1 DEF Admit, stop, join, on_sigint, Shutdown, Popping
    <2>2. CASE LoopAgain \/ SeeStop \/ BurstDone
      BY <2>0, <2>2 DEF LoopAgain, SeeStop, BurstDone, AggregatorStep, mainVars, Shutdown, Popping
    <2>3. CASE Terminated \/ UNCHANGED vars
      BY <2>0, <2>3 DEF Terminated, vars, mainVars, Shutdown, Popping
    <2>4. QED
      BY <2>1, <2>2, <2>3 DEF Quiet
  <1>7. apc' = "done" => apc = "done"
    BY DEF Quiet, Admit, stop, join, on_sigint, LoopAgain, SeeStop, BurstDone, Terminated, vars
  <1>8. DropsAlertedOnce' /\ FinalFrameComplete'
    <2>1. UNCHANGED <<accepted, frame, drops_, alerted, last_drops_alert_>>
      BY <1>1 DEF recorderVars, frameVars
    <2>2. QED
      BY <1>7, <2>1, FrameKept DEF PipelineInv, DropsAlertedOnce
  <1>9. QED
    BY <1>2, <1>3, <1>4, <1>5, <1>6, <1>8, Zenon DEF PipelineInv, TypeOK, Flags, Counts, Places, Data

-----------------------------------------------------------------------------
(* Recordings.                                                             *)

\* How many events have been consumed is known, and so where they are.
LEMMA ConsumedPrefix ==
    ASSUME PipelineInv
    PROVE  /\ consumed_ \in Nat /\ Len(accepted) \in Nat /\ Dist(head_, tail_) \in Nat
           /\ Pushing \in {0, 1} /\ (Pushing = 0 <=> ppc = "idle")
           /\ consumed_ + Dist(head_, tail_) + Pushing = Len(accepted)
           /\ consumed_ <= Len(accepted)
           /\ accepted \in Seq(Event)
  <1>1. head_ \in Counter /\ tail_ \in Counter /\ accepted \in Seq(Event) /\ consumed_ \in Nat
    BY DEF PipelineInv, Inv, RingTypeOK, HistoryOK, TypeOK
  <1>2. Dist(head_, tail_) \in Nat /\ Len(accepted) \in Nat
    BY <1>1, DistType, LenProperties
  <1>3. Pushing \in {0, 1} /\ (Pushing = 0 <=> ppc = "idle")
    BY DEF Pushing
  <1>4. consumed_ + Dist(head_, tail_) + Pushing = Len(accepted)
    BY DEF PipelineInv, InOrder
  <1>5. QED
    BY <1>1, <1>2, <1>3, <1>4

\* The history may grow: what was folded is as before.
LEMMA FoldKept ==
    ASSUME FoldExact, TapeExact, \A k \in 1 .. consumed_ : accepted'[k] = accepted[k],
           UNCHANGED <<foldVars, cum_>>
    PROVE  FoldExact' /\ TapeExact'
  <1>1. UNCHANGED <<consumed_, snaps_, trades_, book, win_, tape_, tape_next_, tape_n_>>
    BY DEF foldVars
  <1>2. \A e : Folded(e)' = Folded(e)
    BY <1>1 DEF Folded
  <1>3. \A op : FoldedLatency(op)' = FoldedLatency(op)
    <2> TAKE op
    <2>1. Folded("Latency")' = Folded("Latency")
      BY <1>2
    <2>2. \A k \in Folded("Latency") : accepted'[k] = accepted[k]
      BY DEF Folded
    <2>3. QED
      BY <2>1, <2>2 DEF FoldedLatency
  <1>4. \A e : \A k \in Folded(e) : accepted'[k] = accepted[k]
    BY DEF Folded
  <1>5. FoldExact'
    BY <1>1, <1>2, <1>3, <1>4 DEF FoldExact
  <1>6. TapeExact'
    BY <1>1, <1>2, <1>4 DEF TapeExact, Age, TapePlace
  <1>7. QED
    BY <1>5, <1>6

\* What try_push does to the ring when it begins: the queue is as before, and the
\* element is either refused or on its way.
LEMMA TryPushRing ==
    ASSUME Inv, Inv', NEW e \in Event, TryPush(e)
    PROVE  /\ ppc = "idle" /\ v' = e /\ UNCHANGED <<head_, tail_, cpc>> /\ Contents' = Contents
           /\ ppc' \in {"idle", "write"}
  <1>1. /\ ppc = "idle" /\ v' = e /\ UNCHANGED <<head_, tail_, cpc>>
        /\ \/ UNCHANGED <<buf_, ppc>>
           \/ buf_' = [buf_ EXCEPT ![Slot(head_)] = Torn] /\ ppc' = "write"
    BY DEF TryPush, Push, PushReload, BeginWrite, consumerVars
  <1>2. CASE UNCHANGED <<buf_, ppc>>
    BY <1>1, <1>2 DEF Contents
  <1>3. CASE buf_' = [buf_ EXCEPT ![Slot(head_)] = Torn] /\ ppc' = "write"
    <2>1. /\ Dist(head_, tail_cache_') < Cap /\ Dist(head_, tail_) <= Dist(head_, tail_cache_')
          /\ tail_cache_' \in Counter /\ head_ \in Counter /\ tail_ \in Counter
      BY <1>1, <1>3 DEF Inv, RingTypeOK, IndicesInStep
    <2>2. Dist(head_, tail_) < Cap
      BY <2>1, DistType, CapAssumption
    <2>3. Contents' = Contents
      BY <1>1, <1>3, <2>2, WriteIsPrivate, ContentsKept
    <2>4. QED
      BY <1>1, <1>3, <2>3
  <1>4. QED
    BY <1>1, <1>2, <1>3

\* A recording that reaches the ring is accepted, at the end of the history, or counted
\* as dropped.
LEMMA TryPushData ==
    ASSUME PipelineInv, Inv', NEW e \in Event, TryPush(e), attempts' = attempts + 1,
           UNCHANGED <<skipped, foldVars, frameVars>>
    PROVE  Data' /\ drops_' \in Nat /\ drops_' >= drops_
  <1>0. /\ ppc = "idle" /\ v' = e /\ UNCHANGED <<head_, tail_, consumed_, cum_>> /\ Contents' = Contents
        /\ ppc' \in {"idle", "write"} /\ Dist(head_, tail_)' = Dist(head_, tail_)
    BY TryPushRing DEF PipelineInv, foldVars, frameVars
  <1>1. /\ consumed_ \in Nat /\ Len(accepted) \in Nat /\ Dist(head_, tail_) \in Nat
        /\ consumed_ + Dist(head_, tail_) = Len(accepted)
        /\ accepted \in Seq(Event) /\ attempts \in Nat /\ skipped \in Nat /\ drops_ \in Nat
        /\ Len(accepted) + drops_ + skipped = attempts
    BY <1>0, ConsumedPrefix DEF PipelineInv, HistoryOK, TypeOK, Accounted
  <1> DEFINE n == Len(accepted)
             d == Dist(head_, tail_)
  <1>2. \A k \in 1 .. d : Contents[k] = accepted[consumed_ + k]
    BY DEF PipelineInv, InOrder
  <1>3. CASE ppc' = "idle"
    <2>1. drops_' = drops_ + 1 /\ accepted' = accepted
      BY <1>3 DEF TryPush
    <2>2. HistoryOK' /\ Accounted'
      BY <1>1, <2>1 DEF HistoryOK, Accounted
    <2>3. InOrder'
      BY <1>0, <1>1, <1>2, <1>3, <2>1 DEF InOrder, Pushing
    <2>4. FoldExact' /\ TapeExact'
      BY <1>0, <2>1, FoldKept DEF PipelineInv
    <2>5. QED
      BY <1>1, <2>1, <2>2, <2>3, <2>4 DEF Data
  <1>4. CASE ppc' # "idle"
    <2>1. drops_' = drops_ /\ accepted' = Append(accepted, e)
      BY <1>4 DEF TryPush
    <2>2. /\ accepted' \in Seq(Event) /\ Len(accepted') = n + 1 /\ accepted'[n + 1] = e
          /\ \A k \in 1 .. n : accepted'[k] = accepted[k]
      BY <1>1, <2>1, AppendProperties
    <2>3. HistoryOK' /\ Accounted'
      BY <1>1, <2>1, <2>2 DEF HistoryOK, Accounted
    <2>4. \A k \in 1 .. d : accepted'[consumed_ + k] = accepted[consumed_ + k]
      BY <1>1, <2>2
    <2>5. InOrder'
      <3>1. Pushing' = 1
        BY <1>4 DEF Pushing
      <3> HIDE DEF n, d
      <3>2. consumed_ + d + 1 = n + 1
        BY <1>1 DEF n, d
      <3>3. (consumed_ + Dist(head_, tail_) + Pushing = Len(accepted))'
        BY <1>0, <2>2, <3>1, <3>2 DEF d
      <3>4. (\A k \in 1 .. Dist(head_, tail_) : Contents[k] = accepted[consumed_ + k])'
        BY <1>0, <1>2, <2>4 DEF d
      <3>5. v' = accepted'[Len(accepted')]
        BY <1>0, <2>2
      <3>6. QED
        BY <3>3, <3>4, <3>5 DEF InOrder
    <2>6. FoldExact' /\ TapeExact'
      <3>1. \A k \in 1 .. consumed_ : accepted'[k] = accepted[k]
        BY <1>1, <2>2
      <3>2. QED
        BY <1>0, <3>1, FoldKept DEF PipelineInv
    <2>7. QED
      BY <1>1, <2>1, <2>3, <2>5, <2>6 DEF Data
  <1>5. QED
    BY <1>3, <1>4

\* What the steps of the matching thread that record have in common.
LEMMA RecordingKeeps ==
    ASSUME PipelineInv, Inv', Data', mpc # "final", mpc' \in {"feed", "msg", "final"},
           UNCHANGED <<foldVars, frameVars, g_stop, running_, joined, apc, i, cpc>>,
           sample_count_' \in 0 .. SampleEvery - 1, drops_' \in Nat, drops_' >= drops_
    PROVE  PipelineInv'
  <1>1. Shutdown /\ Flags /\ Counts /\ Places
    BY Parts
  <1>2. running_ /\ ~joined /\ apc \notin {"drain", "final", "done"}
    BY <1>1 DEF Shutdown
  <1>3. Shutdown'
    BY <1>1, <1>2 DEF Shutdown, Popping
  <1>4. Flags'
    BY <1>1, Zenon DEF Flags
  <1>5. Counts' /\ Places'
    BY <1>1 DEF Counts, Places, foldVars, frameVars
  <1>6. DropsAlertedOnce' /\ FinalFrameComplete'
    BY <1>2 DEF PipelineInv, DropsAlertedOnce, FinalFrameComplete, frameVars
  <1>7. QED
    BY <1>3, <1>4, <1>5, <1>6, Zenon DEF PipelineInv, TypeOK, Flags, Counts, Places, Data

\* A sampled-out latency is counted as such.
LEMMA SampledOut ==
    ASSUME PipelineInv, attempts' = attempts + 1, skipped' = skipped + 1,
           UNCHANGED <<ringVars, drops_, accepted, foldVars, frameVars>>
    PROVE  Data'
  <1>1. attempts \in Nat /\ skipped \in Nat /\ drops_ \in Nat /\ Len(accepted) \in Nat
    BY ConsumedPrefix DEF PipelineInv, HistoryOK, TypeOK
  <1>2. HistoryOK' /\ Accounted'
    BY <1>1 DEF PipelineInv, HistoryOK, Accounted
  <1>3. InOrder'
    BY DEF PipelineInv, InOrder, Pushing, Contents, foldVars, ringVars, producerVars, consumerVars
  <1>4. FoldExact' /\ TapeExact'
    BY FoldKept DEF PipelineInv, frameVars
  <1>5. QED
    BY <1>2, <1>3, <1>4 DEF Data

\* The matching thread's recordings.
LEMMA RecordStep ==
    ASSUME PipelineInv, Inv',
           \/ \E e \in Event : recordLatency(e) \/ record(e)
           \/ \E b \in Books : EndOfFeed(b)
    PROVE  PipelineInv'
  <1>0. drops_ \in Nat /\ sample_count_ \in 0 .. SampleEvery - 1 /\ Inv
    BY DEF PipelineInv, TypeOK
  <1>1. ASSUME NEW e \in Event, recordLatency(e) PROVE PipelineInv'
    <2>1. sample_count_' \in 0 .. SampleEvery - 1
      <3>1. SampleEvery \in Nat \ {0} /\ sample_count_ + 1 \in Int
        BY <1>0, PipelineAssumption
      <3>2. (sample_count_ + 1) % SampleEvery \in 0 .. SampleEvery - 1
        BY <3>1, DivMod
      <3>3. QED
        BY <1>1, <3>2 DEF recordLatency
    <2>2. CASE sample_count_ # 0
      <3>1. Data'
        BY <1>1, <2>2, SampledOut DEF recordLatency, Recording
      <3>2. drops_' = drops_ /\ cpc' = cpc
        BY <1>1, <2>2 DEF recordLatency, ringVars, consumerVars
      <3>3. QED
        BY <1>0, <1>1, <2>1, <3>1, <3>2, RecordingKeeps DEF recordLatency, Recording
    <2>3. CASE sample_count_ = 0
      <3>1. TryPush(e) /\ skipped' = skipped
        BY <1>1, <2>3 DEF recordLatency
      <3>2. Data' /\ drops_' \in Nat /\ drops_' >= drops_
        BY <1>1, <3>1, TryPushData DEF recordLatency, Recording
      <3>3. cpc' = cpc
        BY <1>0, <3>1, TryPushRing
      <3>4. QED
        BY <1>1, <2>1, <3>2, <3>3, RecordingKeeps DEF recordLatency, Recording
    <2>4. QED
      BY <2>2, <2>3
  <1>2. ASSUME NEW e \in Event, record(e) PROVE PipelineInv'
    <2>1. TryPush(e) /\ UNCHANGED <<skipped, sample_count_>>
      BY <1>2 DEF record
    <2>2. Data' /\ drops_' \in Nat /\ drops_' >= drops_
      BY <1>2, <2>1, TryPushData DEF record, Recording
    <2>3. cpc' = cpc
      BY <1>0, <2>1, TryPushRing
    <2>4. QED
      BY <1>0, <1>2, <2>1, <2>2, <2>3, RecordingKeeps DEF record, Recording
  <1>3. ASSUME NEW b \in Books, EndOfFeed(b) PROVE PipelineInv'
    <2> DEFINE e == [etype |-> "Snapshot", of |-> b]
    <2>1. e \in Event
      BY DEF Event
    <2>2. TryPush(e) /\ UNCHANGED <<skipped, sample_count_>>
      BY <1>3 DEF EndOfFeed
    <2> HIDE DEF e
    <2>3. Data' /\ drops_' \in Nat /\ drops_' >= drops_
      BY <1>3, <2>1, <2>2, TryPushData DEF EndOfFeed
    <2>4. cpc' = cpc
      BY <1>0, <2>1, <2>2, TryPushRing
    <2>5. QED
      BY <1>0, <1>3, <2>2, <2>3, <2>4, RecordingKeeps DEF EndOfFeed
  <1>4. QED
    BY <1>1, <1>2, <1>3

-----------------------------------------------------------------------------
(* The rest of a push, and pops.                                           *)

\* The producer is inside a push only while a slot is free; publishing lengthens the
\* queue by one.
LEMMA PushLengthens ==
    ASSUME Inv
    PROVE  /\ ppc # "idle" => Dist(head_, tail_) < Cap
           /\ PushPublish => Dist(head_, tail_)' = Dist(head_, tail_) + 1
  <1>1. head_ \in Counter /\ tail_ \in Counter /\ tail_cache_ \in Counter
    BY DEF Inv, RingTypeOK
  <1>2. ASSUME ppc # "idle" PROVE Dist(head_, tail_) < Cap
    <2>1. Dist(head_, tail_cache_) \in Nat /\ Dist(head_, tail_) \in Nat /\ Cap \in Nat
      BY <1>1, DistType, CapAssumption
    <2>2. Dist(head_, tail_) <= Dist(head_, tail_cache_) /\ Dist(head_, tail_cache_) < Cap
      BY <1>2 DEF Inv, IndicesInStep
    <2>3. QED
      BY <2>1, <2>2
  <1>3. ASSUME PushPublish PROVE Dist(head_, tail_)' = Dist(head_, tail_) + 1
    BY <1>1, <1>2, <1>3, DistAdvanceHead DEF PushPublish, consumerVars
  <1>4. QED
    BY <1>2, <1>3

\* The write into the slot and the publication of it.
LEMMA PushOnStep ==
    ASSUME PipelineInv, Inv', PushOn
    PROVE  PipelineInv'
  <1>0. /\ Shutdown /\ Flags /\ Counts /\ Places /\ Inv /\ HistoryOK /\ Accounted
        /\ UNCHANGED <<mainVars, recorderVars, foldVars, frameVars, apc, i>>
        /\ UNCHANGED <<tail_, cpc, v>> /\ ppc # "idle"
    BY Parts DEF PipelineInv, PushOn, PushWrite, PushPublish, consumerVars
  <1>1. running_ /\ apc \notin {"drain", "final", "done"}
    BY <1>0 DEF Shutdown
  <1>2. Shutdown'
    BY <1>0, <1>1 DEF Shutdown, Popping, mainVars
  <1>3. Flags'
    BY <1>0, Zenon DEF Flags, mainVars
  <1>4. Counts' /\ Places'
    BY <1>0 DEF Counts, Places, recorderVars, foldVars, frameVars, mainVars
  <1>5. DropsAlertedOnce' /\ FinalFrameComplete'
    BY <1>0, <1>1 DEF PipelineInv, DropsAlertedOnce, FinalFrameComplete, frameVars
  <1>6. HistoryOK' /\ Accounted'
    BY <1>0 DEF HistoryOK, Accounted, recorderVars
  <1>7. FoldExact' /\ TapeExact'
    BY <1>0, FoldKept DEF PipelineInv, recorderVars, frameVars
  <1>8. InOrder'
    <2> DEFINE d == Dist(head_, tail_)
    <2>1. /\ consumed_ \in Nat /\ Len(accepted) \in Nat /\ d \in Nat
          /\ consumed_ + d + 1 = Len(accepted) /\ accepted' = accepted /\ consumed_' = consumed_
      BY <1>0, ConsumedPrefix DEF recorderVars, foldVars
    <2>2. /\ \A k \in 1 .. d : Contents[k] = accepted[consumed_ + k]
          /\ v = accepted[Len(accepted)]
      BY <1>0 DEF PipelineInv, InOrder
    <2>3. CASE PushWrite
      <3>1. Dist(head_, tail_) < Cap /\ v \in Val \cup {Torn}
        BY <1>0, PushLengthens DEF Inv, RingTypeOK
      <3>2. Contents' = Contents
        BY <1>0, <2>3, <3>1, WriteIsPrivate, ContentsKept DEF PushWrite
      <3>3. head_' = head_ /\ ppc' # "idle"
        BY <2>3 DEF PushWrite
      <3>4. QED
        BY <1>0, <2>1, <2>2, <3>2, <3>3 DEF InOrder, Pushing
    <2>4. CASE PushPublish
      <3>1. Contents' = Append(Contents, v) /\ v \in Val
        BY <1>0, <2>4, PushAppends DEF Fifo!Put
      <3>2. Contents \in Seq(Val \cup {Torn}) /\ Len(Contents) = d
        BY <1>0, ContentsIsSeq DEF Inv
      <3>3. Dist(head_, tail_)' = d + 1
        BY <1>0, <2>4, PushLengthens
      <3>4. /\ Len(Contents') = d + 1 /\ Contents'[d + 1] = v
            /\ \A k \in 1 .. d : Contents'[k] = Contents[k]
        BY <2>1, <3>1, <3>2, AppendProperties
      <3>5. Pushing' = 0
        BY <2>4 DEF PushPublish, Pushing
      <3>6. ppc' = "idle"
        BY <2>4 DEF PushPublish
      <3> HIDE DEF d
      <3>7. \A k \in 1 .. d + 1 : Contents'[k] = accepted[consumed_ + k]
        <4> SUFFICES ASSUME NEW k \in 1 .. d + 1 PROVE Contents'[k] = accepted[consumed_ + k]
          OBVIOUS
        <4>1. CASE k \in 1 .. d
          BY <2>2, <3>4, <4>1
        <4>2. CASE k = d + 1
          <5>1. consumed_ + k = Len(accepted)
            BY <2>1, <4>2
          <5>2. QED
            BY <2>2, <3>4, <4>2, <5>1
        <4>3. QED
          BY <2>1, <4>1, <4>2
      <3>8. QED
        BY <2>1, <3>3, <3>5, <3>6, <3>7 DEF InOrder
    <2>5. QED
      BY <2>3, <2>4 DEF PushOn
  <1>9. QED
    BY <1>2, <1>3, <1>4, <1>5, <1>6, <1>7, <1>8, Zenon DEF PipelineInv, TypeOK, Flags, Counts, Places, Data

\* try_pop up to the copy: the queue is as before, and an empty ring ends the drain.
LEMMA PopStep ==
    ASSUME PipelineInv, Inv', TryPop \/ PopCopy
    PROVE  PipelineInv'
  <1>0. /\ Shutdown /\ Flags /\ Counts /\ Places /\ Inv /\ HistoryOK /\ Accounted /\ InOrder
        /\ UNCHANGED <<mainVars, recorderVars, foldVars, frameVars, i>>
        /\ UNCHANGED <<producerVars, tail_, buf_>>
    BY Parts DEF PipelineInv, TryPop, PopCopy, Pop, PopReload, PopRead, AggregatorStep
  <1>1. /\ Popping /\ apc' # "done" /\ apc' \in {apc, "tick", "final"}
        /\ cpc' # "idle" => apc' = apc
        /\ apc' \in {"final", "drain"} => apc = "drain"
    <2>1. CASE TryPop
      BY <2>1 DEF TryPop, Popping
    <2>2. CASE PopCopy
      BY <1>0, <2>2 DEF PopCopy, PopRead, Shutdown, Popping
    <2>3. QED
      BY <2>1, <2>2
  <1>2. apc' = "final" => head_ = tail_
    <2> SUFFICES ASSUME apc' = "final" PROVE head_ = tail_
      OBVIOUS
    <2>1. TryPop /\ apc = "drain" /\ cpc' = "idle"
      BY <1>1 DEF TryPop, PopCopy, Popping
    <2>2. PopReload(head_)
      BY <2>1 DEF TryPop, Pop, HeadVisible
    <2>3. QED
      BY <2>1, <2>2 DEF PopReload
  <1>3. Shutdown'
    BY <1>0, <1>1, <1>2 DEF Shutdown, Popping, mainVars, producerVars
  <1>4. Flags'
    BY <1>0, Zenon DEF Flags, mainVars
  <1>5. Counts' /\ Places'
    BY <1>0, <1>1 DEF Counts, Places, recorderVars, foldVars, frameVars, mainVars
  <1>6. DropsAlertedOnce' /\ FinalFrameComplete'
    BY <1>0, <1>1 DEF PipelineInv, DropsAlertedOnce, FinalFrameComplete, frameVars
  <1>7. HistoryOK' /\ Accounted'
    BY <1>0 DEF HistoryOK, Accounted, recorderVars
  <1>8. FoldExact' /\ TapeExact'
    BY <1>0, FoldKept DEF PipelineInv, recorderVars, frameVars
  <1>9. InOrder'
    BY <1>0 DEF InOrder, Pushing, Contents, recorderVars, foldVars, producerVars
  <1>10. QED
    BY <1>3, <1>4, <1>5, <1>6, <1>7, <1>8, <1>9, Zenon DEF PipelineInv, TypeOK, Flags, Counts, Places, Data

-----------------------------------------------------------------------------
(* Ingest.                                                                 *)

\* The element handed over is the next of the history, whole.
LEMMA PopsNext ==
    ASSUME PipelineInv, PopPublish
    PROVE  /\ consumed_ + 1 \in 1 .. Len(accepted)
           /\ out = accepted[consumed_ + 1] /\ out \in Event
           /\ Dist(head_, tail_)' = Dist(head_, tail_) - 1
           /\ \A k \in 1 .. Dist(head_, tail_) - 1 : Contents'[k] = accepted[consumed_ + 1 + k]
  <1> DEFINE d == Dist(head_, tail_)
  <1>1. /\ consumed_ \in Nat /\ Len(accepted) \in Nat /\ d \in Nat /\ Pushing \in {0, 1}
        /\ consumed_ + d + Pushing = Len(accepted) /\ accepted \in Seq(Event)
    BY ConsumedPrefix
  <1>2. \A k \in 1 .. d : Contents[k] = accepted[consumed_ + k]
    BY DEF PipelineInv, InOrder
  <1>3. Contents \in Seq(Val \cup {Torn}) /\ Len(Contents) = d
    BY ContentsIsSeq DEF PipelineInv, Inv
  <1>4. Contents # <<>> /\ Contents' = Tail(Contents) /\ received' = Head(Contents) /\ received' = out
    BY PopDelivers DEF PipelineInv, PopPublish, Fifo!Get
  <1>5. d >= 1
    BY <1>1, <1>3, <1>4, EmptySeq
  <1>6. /\ out = Contents[1]
        /\ \A k \in 1 .. d - 1 : Contents'[k] = Contents[k + 1]
    BY <1>1, <1>3, <1>4, <1>5, HeadTailProperties
  <1>7. Dist(head_, tail_)' = d - 1
    <2>1. head_ \in Counter /\ tail_ \in Counter
      BY DEF PipelineInv, Inv, RingTypeOK
    <2>2. head_ # tail_
      <3>1. Dist(tail_, tail_) = 0
        BY <2>1, DistIs, WrapAssumption DEF Counter
      <3>2. head_ = tail_ => d = 0
        BY <3>1
      <3> HIDE DEF d
      <3>3. QED
        BY <1>1, <1>5, <3>2
    <2>3. QED
      BY <2>1, <2>2, DistAdvanceTail DEF PopPublish, producerVars
  <1> HIDE DEF d
  <1>8. consumed_ + 1 \in 1 .. Len(accepted) /\ 1 \in 1 .. d
    BY <1>1, <1>5
  <1>9. out = accepted[consumed_ + 1]
    BY <1>2, <1>6, <1>8
  <1>10. out \in Event
    BY <1>1, <1>8, <1>9, ElementOfSeq
  <1>11. ASSUME NEW k \in 1 .. d - 1 PROVE Contents'[k] = accepted[consumed_ + 1 + k]
    <2>1. k + 1 \in 1 .. d /\ consumed_ + (k + 1) = consumed_ + 1 + k
      BY <1>1
    <2>2. Contents[k + 1] = accepted[consumed_ + (k + 1)]
      BY <1>2, <2>1
    <2>3. QED
      BY <1>6, <2>1, <2>2
  <1>12. QED
    BY <1>7, <1>8, <1>9, <1>10, <1>11 DEF d

\* One more event is folded: it joins the set of its type, the other sets stay.
LEMMA FoldedGrows ==
    ASSUME PipelineInv, consumed_' = consumed_ + 1, UNCHANGED accepted
    PROVE  /\ \A e : IsFiniteSet(Folded(e)) /\ consumed_ + 1 \notin Folded(e)
                     /\ Folded(e) \subseteq 1 .. consumed_
                     /\ Folded(e)' = IF accepted[consumed_ + 1].etype = e
                                     THEN Folded(e) \cup {consumed_ + 1} ELSE Folded(e)
           /\ \A op : IsFiniteSet(FoldedLatency(op)) /\ consumed_ + 1 \notin FoldedLatency(op)
                      /\ FoldedLatency(op)' =
                           IF accepted[consumed_ + 1].etype = "Latency" /\ accepted[consumed_ + 1].of = op
                           THEN FoldedLatency(op) \cup {consumed_ + 1} ELSE FoldedLatency(op)
  <1>1. consumed_ \in Nat
    BY ConsumedPrefix
  <1>2. 1 .. consumed_ + 1 = (1 .. consumed_) \cup {consumed_ + 1} /\ consumed_ + 1 \notin 1 .. consumed_
    BY <1>1
  <1>3. IsFiniteSet(1 .. consumed_)
    BY <1>1, FS_Interval
  <1>4. ASSUME NEW e
        PROVE  /\ IsFiniteSet(Folded(e)) /\ consumed_ + 1 \notin Folded(e)
               /\ Folded(e) \subseteq 1 .. consumed_
               /\ Folded(e)' = IF accepted[consumed_ + 1].etype = e
                               THEN Folded(e) \cup {consumed_ + 1} ELSE Folded(e)
    <2>1. Folded(e) \in SUBSET (1 .. consumed_)
      BY DEF Folded
    <2>2. IsFiniteSet(Folded(e)) /\ consumed_ + 1 \notin Folded(e)
      BY <1>2, <1>3, <2>1, FS_Subset
    <2>3. Folded(e)' = {k \in 1 .. consumed_ + 1 : accepted[k].etype = e}
      BY DEF Folded
    <2>4. QED
      BY <1>2, <2>1, <2>2, <2>3 DEF Folded
  <1>5. ASSUME NEW op
        PROVE  /\ IsFiniteSet(FoldedLatency(op)) /\ consumed_ + 1 \notin FoldedLatency(op)
               /\ FoldedLatency(op)' =
                    IF accepted[consumed_ + 1].etype = "Latency" /\ accepted[consumed_ + 1].of = op
                    THEN FoldedLatency(op) \cup {consumed_ + 1} ELSE FoldedLatency(op)
    <2>1. FoldedLatency(op) \in SUBSET Folded("Latency")
      BY DEF FoldedLatency
    <2>2. IsFiniteSet(FoldedLatency(op)) /\ consumed_ + 1 \notin FoldedLatency(op)
      BY <1>4, <2>1, FS_Subset
    <2>3. FoldedLatency(op)' = {k \in Folded("Latency")' : accepted[k].of = op}
      BY DEF FoldedLatency
    <2>4. QED
      BY <1>4, <2>2, <2>3 DEF FoldedLatency
  <1>6. QED
    BY <1>4, <1>5

\* The place of the next trade moves on round the tape: the trade just written is the
\* newest, every other one is one place further behind, and none is overwritten but
\* the one at MAX_TAPE places.
LEMMA TapeTurns ==
    ASSUME tape_next_ \in 0 .. MAX_TAPE - 1, tape_next_' = (tape_next_ + 1) % MAX_TAPE
    PROVE  /\ tape_next_' \in 0 .. MAX_TAPE - 1
           /\ (tape_next_' + MAX_TAPE - 1) % MAX_TAPE = tape_next_
           /\ \A k \in 1 .. MAX_TAPE - 1 : /\ (tape_next_' + MAX_TAPE - (k + 1)) % MAX_TAPE = TapePlace(k)
                                           /\ TapePlace(k) # tape_next_
                                           /\ TapePlace(k) \in 0 .. MAX_TAPE - 1
  <1> DEFINE n == MAX_TAPE
             t == tape_next_
             u == tape_next_'
  <1>0. n \in Nat \ {0} /\ t \in 0 .. n - 1
    BY PipelineAssumption
  <1>1. u = IF t + 1 < n THEN t + 1 ELSE 0
    <2>1. t + 1 \in 0 .. (2 * n) - 1
      BY <1>0
    <2>2. (t + 1) % n = IF t + 1 < n THEN t + 1 ELSE (t + 1) - n
      BY <1>0, <2>1, ModOnce
    <2>3. QED
      BY <1>0, <2>2
  <1>2. ASSUME NEW w \in 0 .. n - 1, NEW k \in 1 .. n
        PROVE  (w + n - k) % n = IF w < k THEN w + n - k ELSE w - k
    <2>1. w + n - k \in 0 .. (2 * n) - 1
      BY <1>0
    <2>2. (w + n - k) % n = IF w + n - k < n THEN w + n - k ELSE (w + n - k) - n
      BY <1>0, <2>1, ModOnce
    <2>3. QED
      BY <1>0, <2>2
  <1>3. u \in 0 .. n - 1
    BY <1>0, <1>1
  <1> HIDE DEF n, u, t
  <1>4. (u + n - 1) % n = t
    BY <1>0, <1>1, <1>2, <1>3
  <1>5. ASSUME NEW k \in 1 .. n - 1
        PROVE  /\ (u + n - (k + 1)) % n = (t + n - k) % n
               /\ (t + n - k) % n # t
               /\ (t + n - k) % n \in 0 .. n - 1
    <2>1. k \in 1 .. n /\ k + 1 \in 1 .. n
      BY <1>0
    <2>2. (t + n - k) % n = IF t < k THEN t + n - k ELSE t - k
      BY <1>0, <1>2, <2>1
    <2>3. (u + n - (k + 1)) % n = IF u < k + 1 THEN u + n - (k + 1) ELSE u - (k + 1)
      BY <1>2, <1>3, <2>1
    <2>4. QED
      BY <1>0, <1>1, <2>1, <2>2, <2>3
  <1>6. QED
    BY <1>3, <1>4, <1>5 DEF TapePlace, n, t, u

\* A trade is added to the tape.
LEMMA TradeIngested ==
    ASSUME PipelineInv, consumed_' = consumed_ + 1, UNCHANGED <<accepted, snaps_, book, win_, cum_>>,
           NEW e \in Event, e = accepted[consumed_ + 1], e.etype = "Trade",
           trades_' = trades_ + 1, addToTape(e)
    PROVE  /\ FoldExact' /\ TapeExact'
           /\ tape_' \in [0 .. MAX_TAPE - 1 -> Makers \cup {Torn}]
           /\ tape_next_' \in 0 .. MAX_TAPE - 1 /\ tape_n_' \in 0 .. MAX_TAPE
  <1> DEFINE n == consumed_ + 1
             F == Folded("Trade")
             P(k) == (tape_next_' + MAX_TAPE - k) % MAX_TAPE
  <1>0. /\ tape_ \in [0 .. MAX_TAPE - 1 -> Makers \cup {Torn}] /\ tape_next_ \in 0 .. MAX_TAPE - 1
        /\ tape_n_ \in 0 .. MAX_TAPE /\ MAX_TAPE \in Nat \ {0} /\ trades_ \in Nat /\ consumed_ \in Nat
    BY PipelineAssumption DEF PipelineInv, TypeOK
  <1>1. /\ IsFiniteSet(F) /\ n \notin F /\ F \subseteq 1 .. consumed_ /\ F' = F \cup {n}
        /\ Folded("Snapshot")' = Folded("Snapshot")
        /\ \A op : FoldedLatency(op)' = FoldedLatency(op)
    BY FoldedGrows
  <1>2. Cardinality(F') = trades_ + 1
    <2>1. Cardinality(F \cup {n}) = Cardinality(F) + 1
      BY <1>1, FS_AddElement
    <2>2. Cardinality(F) = trades_
      BY DEF PipelineInv, FoldExact
    <2>3. QED
      BY <1>1, <2>1, <2>2
  <1>3. FoldExact'
    BY <1>1, <1>2 DEF PipelineInv, FoldExact
  <1>4. e.of \in Makers
    BY DEF Event
  <1>5. /\ tape_' = [tape_ EXCEPT ![tape_next_] = e.of]
        /\ tape_next_' = (tape_next_ + 1) % MAX_TAPE
        /\ tape_n_' = IF tape_n_ < MAX_TAPE THEN tape_n_ + 1 ELSE tape_n_
    BY DEF addToTape
  <1>6. tape_' \in [0 .. MAX_TAPE - 1 -> Makers \cup {Torn}] /\ tape_n_' \in 0 .. MAX_TAPE
    BY <1>0, <1>4, <1>5
  <1>7. tape_n_' = IF trades_' < MAX_TAPE THEN trades_' ELSE MAX_TAPE
    BY <1>0, <1>5 DEF PipelineInv, TapeExact
  <1>8. /\ tape_next_' \in 0 .. MAX_TAPE - 1
        /\ P(1) = tape_next_
        /\ \A k \in 1 .. MAX_TAPE - 1 : /\ P(k + 1) = TapePlace(k)
                                        /\ TapePlace(k) # tape_next_
                                        /\ TapePlace(k) \in 0 .. MAX_TAPE - 1
    BY <1>0, <1>5, TapeTurns
  <1> HIDE DEF P
  <1>9. ASSUME NEW p \in F', Age(F', p) <= MAX_TAPE
        PROVE  tape_'[P(Age(F', p))] = accepted[p].of
    <2>1. CASE p = n
      <3>1. {q \in F' : q >= p} = {n}
        BY <1>0, <1>1, <2>1
      <3>2. Age(F', p) = 1
        BY <3>1, FS_Singleton DEF Age
      <3>3. QED
        BY <1>0, <1>5, <1>8, <2>1, <3>2
    <2>2. CASE p \in F
      <3> DEFINE Q == {q \in F : q >= p}
                 a == Cardinality(Q)
      <3>1. {q \in F' : q >= p} = Q \cup {n} /\ n \notin Q
        BY <1>0, <1>1, <2>2
      <3>2. IsFiniteSet(Q) /\ Q # {}
        <4>1. p \in Q /\ Q \in SUBSET F
          BY <1>0, <1>1, <2>2
        <4>2. QED
          BY <1>1, <4>1, FS_Subset
      <3>3. a \in Nat /\ a # 0
        BY <3>2, FS_CardinalityType, FS_EmptySet
      <3>4. Age(F, p) = a
        BY DEF Age
      <3>5. Age(F', p) = a + 1
        BY <3>1, <3>2, FS_AddElement DEF Age
      <3> HIDE DEF a, Q
      <3>6. a \in 1 .. MAX_TAPE - 1 /\ a <= MAX_TAPE
        BY <1>0, <1>9, <3>3, <3>5
      <3>7. tape_[TapePlace(a)] = accepted[p].of
        BY <2>2, <3>4, <3>6 DEF PipelineInv, TapeExact
      <3>8. tape_'[TapePlace(a)] = tape_[TapePlace(a)]
        BY <1>0, <1>5, <1>8, <3>6
      <3>9. P(a + 1) = TapePlace(a)
        BY <1>8, <3>6
      <3>10. QED
        BY <3>5, <3>7, <3>8, <3>9
    <2>3. QED
      BY <1>1, <2>1, <2>2
  <1>10. TapeExact'
    BY <1>7, <1>9 DEF TapeExact, Age, TapePlace, P
  <1>11. QED
    BY <1>3, <1>6, <1>8, <1>10

\* A latency goes into its operation's window.
LEMMA LatencyIngested ==
    ASSUME PipelineInv, consumed_' = consumed_ + 1,
           UNCHANGED <<accepted, snaps_, trades_, book, tape_, tape_next_, tape_n_, cum_>>,
           NEW e \in Event, e = accepted[consumed_ + 1], e.etype = "Latency",
           win_' = [win_ EXCEPT ![e.of] = @ + 1]
    PROVE  FoldExact' /\ TapeExact' /\ win_' \in [Ops -> Nat]
  <1>0. win_ \in [Ops -> Nat] /\ cum_ \in [Ops -> Nat] /\ e.of \in Ops
    BY DEF PipelineInv, TypeOK, Event
  <1>1. /\ Folded("Trade")' = Folded("Trade") /\ Folded("Trade") \subseteq 1 .. consumed_
        /\ Folded("Snapshot")' = Folded("Snapshot")
        /\ \A op : IsFiniteSet(FoldedLatency(op)) /\ consumed_ + 1 \notin FoldedLatency(op)
                   /\ FoldedLatency(op)' = IF e.of = op THEN FoldedLatency(op) \cup {consumed_ + 1}
                                           ELSE FoldedLatency(op)
    BY FoldedGrows
  <1>2. win_' \in [Ops -> Nat]
    BY <1>0
  <1>3. ASSUME NEW op \in Ops PROVE cum_[op] + win_'[op] = Cardinality(FoldedLatency(op)')
    <2>1. cum_[op] + win_[op] = Cardinality(FoldedLatency(op))
      BY DEF PipelineInv, FoldExact
    <2>2. CASE e.of = op
      <3>1. Cardinality(FoldedLatency(op) \cup {consumed_ + 1}) = Cardinality(FoldedLatency(op)) + 1
        BY <1>1, FS_AddElement
      <3>2. win_'[op] = win_[op] + 1
        BY <1>0, <2>2
      <3>3. cum_[op] \in Nat /\ win_[op] \in Nat
        BY <1>0
      <3>4. cum_[op] + win_'[op] = Cardinality(FoldedLatency(op)) + 1
        BY <2>1, <3>2, <3>3
      <3>5. FoldedLatency(op)' = FoldedLatency(op) \cup {consumed_ + 1}
        BY <1>1, <2>2
      <3>6. QED
        BY <3>1, <3>4, <3>5
    <2>3. CASE e.of # op
      BY <1>0, <1>1, <2>1, <2>3
    <2>4. QED
      BY <2>2, <2>3
  <1>4. FoldExact'
    BY <1>1, <1>3 DEF PipelineInv, FoldExact
  <1>5. TapeExact'
    BY <1>1 DEF PipelineInv, TapeExact, Age, TapePlace
  <1>6. QED
    BY <1>2, <1>4, <1>5

\* A snapshot replaces the one before.
LEMMA SnapshotIngested ==
    ASSUME PipelineInv, consumed_' = consumed_ + 1,
           UNCHANGED <<accepted, trades_, win_, cum_, tape_, tape_next_, tape_n_>>,
           NEW e \in Event, e = accepted[consumed_ + 1], e.etype = "Snapshot",
           book' = e.of, snaps_' = snaps_ + 1
    PROVE  FoldExact' /\ TapeExact' /\ book' \in Books
  <1> DEFINE F == Folded("Snapshot")
             n == consumed_ + 1
  <1>1. /\ Folded("Trade")' = Folded("Trade") /\ consumed_ \in Nat
        /\ IsFiniteSet(F) /\ n \notin F /\ F \subseteq 1 .. consumed_ /\ F' = F \cup {n}
        /\ \A op : FoldedLatency(op)' = FoldedLatency(op)
    BY FoldedGrows, ConsumedPrefix
  <1>2. Cardinality(F') = snaps_ + 1
    <2>1. Cardinality(F \cup {n}) = Cardinality(F) + 1
      BY <1>1, FS_AddElement
    <2>2. Cardinality(F) = snaps_
      BY DEF PipelineInv, FoldExact
    <2>3. QED
      BY <1>1, <2>1, <2>2
  <1>3. ASSUME NEW k \in F', \A j \in F' : j <= k PROVE book' = accepted[k].of
    <2>1. n \in F' /\ n <= k
      BY <1>1, <1>3
    <2>2. k = n
      BY <1>1, <2>1
    <2>3. QED
      BY <2>2
  <1>4. FoldExact'
    BY <1>1, <1>2, <1>3 DEF PipelineInv, FoldExact
  <1>5. TapeExact'
    BY <1>1 DEF PipelineInv, TapeExact, Age, TapePlace
  <1>6. QED
    BY <1>4, <1>5 DEF Event

\* The end of a pop, and the fold of the event.
LEMMA IngestStep ==
    ASSUME PipelineInv, Inv', PopIngest
    PROVE  PipelineInv'
  <1>0. /\ Shutdown /\ Flags /\ Counts /\ Places /\ Inv /\ HistoryOK /\ Accounted
        /\ UNCHANGED <<mainVars, recorderVars, frameVars, apc>>
        /\ UNCHANGED <<producerVars, accepted, cum_>> /\ cpc # "idle" /\ cpc' = "idle"
        /\ PopPublish /\ ingest(out) /\ consumed_' = consumed_ + 1
        /\ i' = IF apc = "burst" THEN i + 1 ELSE i
    BY Parts DEF PipelineInv, PopIngest, PopPublish, AggregatorStep, ingest, recorderVars, frameVars
  <1>1. Popping /\ apc \notin {"final", "done"}
    BY <1>0 DEF Shutdown, Popping
  <1>2. Shutdown'
    BY <1>0, <1>1 DEF Shutdown, mainVars, producerVars
  <1>3. Flags'
    BY <1>0, Zenon DEF Flags, mainVars
  <1>4. Places'
    BY <1>0, <1>1, PipelineAssumption DEF Places, Popping, mainVars
  <1>5. DropsAlertedOnce' /\ FinalFrameComplete'
    BY <1>0, <1>1 DEF PipelineInv, DropsAlertedOnce, FinalFrameComplete, frameVars
  <1>6. HistoryOK' /\ Accounted'
    BY <1>0 DEF HistoryOK, Accounted, recorderVars
  <1>7. /\ consumed_ + 1 \in 1 .. Len(accepted)
        /\ out = accepted[consumed_ + 1] /\ out \in Event
        /\ Dist(head_, tail_)' = Dist(head_, tail_) - 1
        /\ \A k \in 1 .. Dist(head_, tail_) - 1 : Contents'[k] = accepted[consumed_ + 1 + k]
    BY <1>0, PopsNext
  <1>8. InOrder'
    <2>1. /\ consumed_ \in Nat /\ Len(accepted) \in Nat /\ Dist(head_, tail_) \in Nat /\ Pushing \in {0, 1}
          /\ consumed_ + Dist(head_, tail_) + Pushing = Len(accepted)
      BY ConsumedPrefix
    <2>2. Pushing' = Pushing /\ UNCHANGED <<ppc, v>>
      BY <1>0 DEF Pushing, producerVars
    <2> DEFINE d == Dist(head_, tail_)
    <2>3. Dist(head_, tail_)' = d - 1 /\ \A k \in 1 .. d - 1 : Contents'[k] = accepted[consumed_ + 1 + k]
      BY <1>7
    <2>4. ppc # "idle" => v = accepted[Len(accepted)]
      BY DEF PipelineInv, InOrder
    <2>5. (consumed_ + 1) + (d - 1) + Pushing = Len(accepted)
      BY <2>1
    <2> HIDE DEF d
    <2>6. QED
      BY <1>0, <2>2, <2>3, <2>4, <2>5 DEF InOrder
  <1>9. FoldExact' /\ TapeExact' /\ Counts'
    <2>0. UNCHANGED <<sample_count_, drops_, last_drops_alert_, alerted>>
      BY <1>0 DEF recorderVars, frameVars
    <2>1. CASE out.etype = "Latency"
      <3>1. /\ win_' = [win_ EXCEPT ![out.of] = @ + 1]
            /\ UNCHANGED <<snaps_, trades_, book, tape_, tape_next_, tape_n_>>
        BY <1>0, <2>1 DEF ingest
      <3>2. FoldExact' /\ TapeExact' /\ win_' \in [Ops -> Nat]
        BY <1>0, <1>7, <2>1, <3>1, LatencyIngested
      <3>3. QED
        BY <1>0, <2>0, <3>1, <3>2 DEF Counts
    <2>2. CASE out.etype = "Snapshot"
      <3>1. /\ book' = out.of /\ snaps_' = snaps_ + 1
            /\ UNCHANGED <<trades_, win_, tape_, tape_next_, tape_n_>>
        BY <1>0, <2>2 DEF ingest
      <3>2. FoldExact' /\ TapeExact' /\ book' \in Books
        BY <1>0, <1>7, <2>2, <3>1, SnapshotIngested
      <3>3. QED
        BY <1>0, <2>0, <3>1, <3>2 DEF Counts
    <2>3. CASE out.etype = "Trade"
      <3>1. trades_' = trades_ + 1 /\ addToTape(out) /\ UNCHANGED <<snaps_, book, win_>>
        BY <1>0, <2>3 DEF ingest
      <3>2. /\ FoldExact' /\ TapeExact'
            /\ tape_' \in [0 .. MAX_TAPE - 1 -> Makers \cup {Torn}]
            /\ tape_next_' \in 0 .. MAX_TAPE - 1 /\ tape_n_' \in 0 .. MAX_TAPE
        BY <1>0, <1>7, <2>3, <3>1, TradeIngested
      <3>3. QED
        BY <1>0, <2>0, <3>1, <3>2 DEF Counts
    <2>4. QED
      BY <1>7, <2>1, <2>2, <2>3 DEF Event
  <1>10. QED
    BY <1>2, <1>3, <1>4, <1>5, <1>6, <1>8, <1>9, Zenon DEF PipelineInv, TypeOK, Flags, Counts, Places, Data

-----------------------------------------------------------------------------
(* Frames.                                                                 *)

\* The lesser of two numbers.
LEMMA MinOfTwo ==
    ASSUME NEW a \in Nat, NEW b \in Nat
    PROVE  Min({a, b}) = IF b < a THEN b ELSE a
  <1> DEFINE m == IF b < a THEN b ELSE a
  <1>1. m \in {a, b} /\ \A y \in {a, b} : m <= y
    OBVIOUS
  <1>2. \A x \in {a, b} : (\A y \in {a, b} : x <= y) => x = m
    OBVIOUS
  <1>3. QED
    BY <1>1, <1>2 DEF Min

\* A frame rolls the windows into the all-time counts and settles the drops seen; it
\* changes no sum.
LEMMA RenderKeeps ==
    ASSUME PipelineInv, NEW final, NEW d \in last_drops_alert_ .. drops_, render(final, d),
           UNCHANGED <<ringVars, recorderVars>>
    PROVE  /\ Data' /\ Counts'
           /\ alerted' = d /\ last_drops_alert_' = d /\ UNCHANGED <<drops_, accepted>>
  <1>0. /\ Counts /\ alerted = last_drops_alert_ /\ FoldExact /\ TapeExact
        /\ UNCHANGED <<consumed_, snaps_, trades_, book, tape_, tape_next_, tape_n_>>
        /\ UNCHANGED <<sample_count_, drops_, accepted, attempts, skipped>>
        /\ cum_' = [op \in Ops |-> cum_[op] + win_[op]] /\ win_' = [op \in Ops |-> 0]
        /\ alerted' = IF d > last_drops_alert_ THEN alerted + (d - last_drops_alert_) ELSE alerted
        /\ last_drops_alert_' = d
    BY Parts DEF PipelineInv, render, winAfterRender, lastDropsAfter, recorderVars, DropsAlertedOnce
  <1>1. last_drops_alert_ \in Nat /\ drops_ \in Nat /\ d \in Nat /\ d >= last_drops_alert_ /\ d <= drops_
    BY <1>0 DEF Counts
  <1>2. alerted' = d
    BY <1>0, <1>1
  <1>3. win_ \in [Ops -> Nat] /\ cum_ \in [Ops -> Nat]
    BY <1>0 DEF Counts
  <1>4. /\ win_' \in [Ops -> Nat] /\ cum_' \in [Ops -> Nat]
        /\ \A op \in Ops : cum_'[op] + win_'[op] = cum_[op] + win_[op]
    BY <1>0, <1>3
  <1>5. Counts'
    BY <1>0, <1>1, <1>2, <1>4 DEF Counts
  <1>6. \A e : Folded(e)' = Folded(e)
    BY <1>0 DEF Folded
  <1>7. \A op : FoldedLatency(op)' = FoldedLatency(op)
    BY <1>0, <1>6 DEF FoldedLatency
  <1>8. FoldExact'
    BY <1>0, <1>4, <1>6, <1>7 DEF FoldExact
  <1>9. TapeExact'
    BY <1>0, <1>6 DEF TapeExact, Age, TapePlace
  <1>10. HistoryOK' /\ Accounted'
    BY <1>0 DEF PipelineInv, HistoryOK, Accounted
  <1>11. InOrder'
    BY <1>0 DEF PipelineInv, InOrder, Pushing, Contents, ringVars, producerVars, consumerVars
  <1>12. QED
    BY <1>0, <1>2, <1>5, <1>8, <1>9, <1>10, <1>11 DEF Data

\* The end of an iteration of the loop.
LEMMA TickStep ==
    ASSUME PipelineInv, Inv', Tick
    PROVE  PipelineInv'
  <1>0. /\ Shutdown /\ Flags /\ Counts /\ Places /\ apc = "tick" /\ apc' = "loop"
        /\ UNCHANGED <<mainVars, recorderVars, ringVars, i>>
    BY Parts DEF PipelineInv, Tick, AggregatorStep
  <1>1. Shutdown'
    BY <1>0 DEF Shutdown, Popping, mainVars, ringVars, producerVars, consumerVars
  <1>2. Flags'
    BY <1>0, Zenon DEF Flags, mainVars
  <1>3. Places'
    BY <1>0 DEF Places, mainVars
  <1>4. Data' /\ Counts' /\ DropsAlertedOnce'
    <2>1. CASE UNCHANGED <<foldVars, frameVars>>
      <3>1. Data'
        BY <1>0, <2>1, Parts, DataKept
      <3>2. QED
        BY <1>0, <2>1, <3>1 DEF Counts, PipelineInv, DropsAlertedOnce, recorderVars, foldVars, frameVars
    <2>2. CASE \E d \in last_drops_alert_ .. drops_ : render(FALSE, d)
      <3>1. PICK d \in last_drops_alert_ .. drops_ : render(FALSE, d)
        BY <2>2
      <3>2. Data' /\ Counts' /\ alerted' = last_drops_alert_'
        BY <1>0, <3>1, RenderKeeps
      <3>3. QED
        BY <1>0, <3>2 DEF DropsAlertedOnce
    <2>3. QED
      BY <2>1, <2>2 DEF Tick
  <1>5. FinalFrameComplete'
    BY <1>0 DEF FinalFrameComplete
  <1>6. QED
    BY <1>1, <1>2, <1>3, <1>4, <1>5, Zenon DEF PipelineInv, TypeOK, Flags, Counts, Places, Data

\* The last frame is rendered when everything accepted has been folded.
LEMMA FinalStep ==
    ASSUME PipelineInv, Inv', RenderFinal
    PROVE  PipelineInv'
  <1>0. /\ Shutdown /\ Flags /\ Counts /\ Places /\ apc = "final" /\ apc' = "done"
        /\ UNCHANGED <<mainVars, recorderVars, ringVars, i>> /\ render(TRUE, drops_)
    BY Parts DEF PipelineInv, RenderFinal, AggregatorStep
  <1>1. Shutdown'
    BY <1>0 DEF Shutdown, Popping, mainVars, ringVars, producerVars, consumerVars
  <1>2. Flags'
    BY <1>0, Zenon DEF Flags, mainVars
  <1>3. Places'
    BY <1>0 DEF Places, mainVars
  <1>4. /\ Data' /\ Counts' /\ alerted' = drops_ /\ last_drops_alert_' = drops_
        /\ UNCHANGED <<drops_, accepted>>
    <2>1. drops_ \in last_drops_alert_ .. drops_
      BY <1>0 DEF Counts
    <2>2. QED
      BY <1>0, <2>1, RenderKeeps
  <1>5. DropsAlertedOnce'
    BY <1>4 DEF DropsAlertedOnce
  <1>6. consumed_ = Len(accepted)
    <2>1. head_ = tail_ /\ ppc = "idle"
      BY <1>0 DEF Shutdown
    <2>2. Dist(head_, tail_) = 0
      BY <2>1, DistIs, WrapAssumption DEF PipelineInv, Inv, RingTypeOK, Counter
    <2>3. QED
      BY <2>1, <2>2, ConsumedPrefix
  <1>7. FinalFrameComplete'
    <2> DEFINE prints == AcceptedOf("Trade")
               shots == AcceptedOf("Snapshot")
    <2>1. /\ prints = Folded("Trade") /\ shots = Folded("Snapshot")
          /\ \A op : FoldedLatency(op) = {k \in AcceptedOf("Latency") : accepted[k].of = op}
      BY <1>6 DEF AcceptedOf, Folded, FoldedLatency
    <2>2. /\ frame' = [final |-> TRUE, events |-> consumed_, trades |-> trades_, snaps |-> snaps_,
                       drops |-> drops_, book |-> book, ops |-> cum_',
                       tape |-> [k \in 1 .. tape_n_ |-> tape_[TapePlace(k)]]]
          /\ cum_' = [op \in Ops |-> cum_[op] + win_[op]]
      BY <1>0 DEF render, TapePlace
    <2>3. /\ frame'.final /\ frame'.events = Len(accepted) /\ frame'.drops = drops_
          /\ frame'.trades = Cardinality(prints) /\ frame'.snaps = Cardinality(shots)
      BY <1>6, <2>1, <2>2 DEF PipelineInv, FoldExact
    <2>4. \A k \in shots : (\A j \in shots : j <= k) => frame'.book = accepted[k].of
      BY <2>1, <2>2 DEF PipelineInv, FoldExact
    <2>5. \A op \in Ops : frame'.ops[op] = Cardinality({k \in AcceptedOf("Latency") : accepted[k].of = op})
      BY <2>1, <2>2 DEF PipelineInv, FoldExact
    <2>6. /\ trades_ \in Nat /\ MAX_TAPE \in Nat \ {0} /\ trades_ = Cardinality(prints)
          /\ tape_n_ = IF trades_ < MAX_TAPE THEN trades_ ELSE MAX_TAPE
      BY <1>0, <2>1, PipelineAssumption DEF PipelineInv, FoldExact, TapeExact, Counts
    <2>7. DOMAIN frame'.tape = 1 .. Min({MAX_TAPE, Cardinality(prints)})
      <3>1. Min({MAX_TAPE, trades_}) = tape_n_
        BY <2>6, MinOfTwo
      <3>2. QED
        BY <2>2, <2>6, <3>1
    <2>8. ASSUME NEW p \in prints, Age(prints, p) <= MAX_TAPE
          PROVE  frame'.tape[Age(prints, p)] = accepted[p].of
      <3> DEFINE Q == {q \in prints : q >= p}
                 a == Cardinality(Q)
      <3>1. IsFiniteSet(prints) /\ prints \subseteq Nat
        <4>1. Len(accepted) \in Nat
          BY ConsumedPrefix
        <4>2. IsFiniteSet(1 .. Len(accepted)) /\ prints \in SUBSET (1 .. Len(accepted))
          BY <4>1, FS_Interval DEF AcceptedOf
        <4>3. QED
          BY <4>1, <4>2, FS_Subset
      <3>2. p \in Q /\ Q \in SUBSET prints
        BY <3>1, <2>8
      <3>3. IsFiniteSet(Q) /\ a <= Cardinality(prints) /\ a \in Nat /\ a # 0
        BY <3>1, <3>2, FS_Subset, FS_CardinalityType, FS_EmptySet
      <3>4. Age(prints, p) = a
        BY DEF Age
      <3> HIDE DEF a, Q
      <3>5. a \in 1 .. tape_n_
        BY <2>6, <2>8, <3>3, <3>4
      <3>6. tape_[TapePlace(a)] = accepted[p].of
        BY <2>1, <2>8, <3>4 DEF PipelineInv, TapeExact
      <3>7. QED
        BY <2>2, <3>4, <3>5, <3>6
    <2> HIDE DEF prints, shots
    <2>9. prints' = prints /\ shots' = shots /\ AcceptedOf("Latency")' = AcceptedOf("Latency")
      BY <1>4 DEF prints, shots, AcceptedOf
    <2>10. QED
      BY <1>4, <2>3, <2>4, <2>5, <2>7, <2>8, <2>9 DEF FinalFrameComplete, prints, shots, Age, AcceptedOf
  <1>8. QED
    BY <1>1, <1>2, <1>3, <1>4, <1>5, <1>7, Zenon DEF PipelineInv, TypeOK, Flags, Counts, Places, Data

-----------------------------------------------------------------------------
(* The theorems.                                                           *)

\* Every step of either thread preserves the invariant.
LEMMA PipelineNext == PipelineInv /\ [Next]_vars => PipelineInv'
  <1> SUFFICES ASSUME PipelineInv, [Next]_vars PROVE PipelineInv'
    OBVIOUS
  <1>1. Inv'
    BY RingStep, InvNext DEF PipelineInv
  <1>2. ASSUME Quiet PROVE PipelineInv'
    BY <1>1, <1>2, QuietStep
  <1>3. QED
    BY <1>1, <1>2, RecordStep, PushOnStep, PopStep, IngestStep, TickStep, FinalStep
       DEF Next, Main, Aggregate, Quiet

\* The invariant holds in every reachable state of the pipeline.
THEOREM PipelineInvAlways == Spec => []PipelineInv
  BY PipelineInit, PipelineNext, PTL DEF Spec

\* The recorder's and the aggregator's fields keep their types; the pops of a burst
\* never exceed it.
THEOREM PipelineTypeCorrect == Spec => []TypeOK
  <1>1. PipelineInv => TypeOK
    BY DEF PipelineInv
  <1>2. QED
    BY <1>1, PipelineInvAlways, PTL

\* When the driver has joined the aggregator every recording was consumed, dropped or
\* sampled out, at whatever moment stop() met the aggregator and with loads that may
\* return stale indices.
THEOREM NothingIsLost == Spec => []NothingLost
  <1>1. PipelineInv => NothingLost
    <2> SUFFICES ASSUME PipelineInv, joined PROVE consumed_ + drops_ + skipped = attempts
      BY DEF NothingLost
    <2>1. apc = "done"
      BY DEF PipelineInv, Shutdown
    <2>2. head_ = tail_ /\ ppc = "idle"
      BY <2>1, DoneIsQuiet
    <2>3. Dist(head_, tail_) = 0
      BY <2>2, DistIs, WrapAssumption DEF PipelineInv, Inv, RingTypeOK, Counter
    <2>4. consumed_ = Len(accepted)
      BY <2>2, <2>3, ConsumedPrefix
    <2>5. QED
      BY <2>4 DEF PipelineInv, Accounted
  <1>2. QED
    BY <1>1, PipelineInvAlways, PTL

\* The final frame is the summary of exactly the events the ring accepted.
THEOREM FinalFrameIsComplete == Spec => []FinalFrameComplete
  <1>1. PipelineInv => FinalFrameComplete
    BY DEF PipelineInv
  <1>2. QED
    BY <1>1, PipelineInvAlways, PTL

\* Every drop is reported by one alert, however stale the polled counter was.
THEOREM DropsAreAlertedOnce == Spec => []DropsAlertedOnce
  <1>1. PipelineInv => DropsAlertedOnce
    BY DEF PipelineInv
  <1>2. QED
    BY <1>1, PipelineInvAlways, PTL

\* The two threads of the pipeline use the ring within its contract, so all that is
\* proved of the ring holds in the pipeline.
THEOREM PipelineUsesRing == Spec => RingSpec
  <1>1. Init => RingInit
    BY DEF Init
  <1>2. PipelineInv /\ [Next]_vars => [RingNext]_ringVars
    BY RingStep DEF PipelineInv
  <1>3. QED
    BY <1>1, <1>2, PipelineInvAlways, PTL DEF Spec, RingSpec

\* No slot is read while it is written, the indices stay in step and the ring delivers
\* every event once, in order and whole, in the pipeline.
THEOREM PipelineRingCorrect == Spec => []NoSlotRace /\ []IndicesInStep /\ ImplementsFifo
  BY PipelineUsesRing, RaceFree, IndicesAlwaysInStep, RingImplementsFifo, PTL
=============================================================================
