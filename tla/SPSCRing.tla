------------------------------ MODULE SPSCRing ------------------------------
(***************************************************************************)
(* The lock-free single-producer single-consumer ring that carries metrics *)
(* events from the matching thread to the aggregator thread:               *)
(* src/metrics/include/spsc_ring.hpp.                                      *)
(*                                                                         *)
(* Each thread's call is cut at every access to memory the other thread    *)
(* also touches.  An acquire load of the other thread's index may return   *)
(* any value written since the last one this thread saw: nothing in        *)
(* acquire/release ordering makes it the newest.  Copying an element is    *)
(* not atomic: from the moment the producer starts to write a slot until   *)
(* it has finished the slot holds Torn.  Indices are std::size_t and wrap  *)
(* at Wrap (2^64 in the build).                                            *)
(***************************************************************************)
EXTENDS Integers, Sequences

CONSTANTS
    Cap,        \* number of slots
    Wrap,       \* size of the index type
    Val,        \* elements
    Torn        \* a partly written, or never written, element

\* static_assert: Cap is a power of two >= 2; hence it divides the size of the
\* index type, which is larger.
ASSUME CapAssumption == Cap \in Nat /\ Cap >= 2
ASSUME WrapAssumption == Wrap \in Nat /\ Wrap > Cap /\ Wrap % Cap = 0
ASSUME TornAssumption == Torn \notin Val

VARIABLES
    head_, tail_cache_,     \* producer's line: published index, its view of tail_
    tail_, head_cache_,     \* consumer's line: published index, its view of head_
    buf_,
    ppc, v,                 \* producer: where it is in try_push, the argument
    cpc, out,               \* consumer: where it is in try_pop, the out parameter
    received                \* the element the last successful try_pop handed over

producerVars == <<head_, tail_cache_, ppc, v>>
consumerVars == <<tail_, head_cache_, cpc, out, received>>
ringVars == <<producerVars, consumerVars, buf_>>

Counter == 0 .. Wrap - 1
Dist(a, b) == (a - b) % Wrap        \* unsigned subtraction a - b

\* n & MASK
Slot(n) == n % Cap

\* The values a load of x may return to a thread that last saw old.
Visible(old, x) == {(old + d) % Wrap : d \in 0 .. Dist(x, old)}

-----------------------------------------------------------------------------
(* try_push: producer only.                                                *)

\* MUTANT: off by one, a full ring is taken for one with a free slot.
LooksFull_OffByOne(t) == Dist(head_, t) > Cap
LooksFull(t) == Dist(head_, t) >= Cap

\* Start to copy the element into the slot.
BeginWrite ==
    /\ buf_' = [buf_ EXCEPT ![Slot(head_)] = Torn]
    /\ ppc' = "write"

\* A call that its cached view of tail_ lets through.
Push(x) ==
    /\ ppc = "idle"
    /\ v' = x
    /\ ~LooksFull(tail_cache_)
    /\ BeginWrite
    /\ UNCHANGED <<head_, tail_cache_, consumerVars>>

\* A call that looks full and loads tail_ again: t is the value it gets.
PushReload(x, t) ==
    /\ ppc = "idle"
    /\ v' = x
    /\ LooksFull(tail_cache_)
    /\ tail_cache_' = t
    /\ IF LooksFull(t)
       THEN UNCHANGED <<buf_, ppc>>     \* return false
       ELSE BeginWrite
    /\ UNCHANGED <<head_, consumerVars>>

PushWrite ==
    /\ ppc = "write"
    /\ buf_' = [buf_ EXCEPT ![Slot(head_)] = v]
    /\ ppc' = "publish"
    /\ UNCHANGED <<head_, tail_cache_, v, consumerVars>>

\* head_.store(head + 1, release): the slot becomes visible with it.
PushPublish ==
    /\ ppc = "publish"
    /\ head_' = (head_ + 1) % Wrap
    /\ ppc' = "idle"
    /\ UNCHANGED <<tail_cache_, v, consumerVars, buf_>>

-----------------------------------------------------------------------------
(* try_pop: consumer only.                                                 *)

Pop ==
    /\ cpc = "idle"
    /\ tail_ # head_cache_
    /\ cpc' = "read"
    /\ UNCHANGED <<tail_, head_cache_, out, received, producerVars, buf_>>

\* A call that looks empty and loads head_ again: h is the value it gets.
PopReload(h) ==
    /\ cpc = "idle"
    /\ tail_ = head_cache_
    /\ head_cache_' = h
    /\ cpc' = IF tail_ = h THEN "idle" ELSE "read"
    /\ UNCHANGED <<tail_, out, received, producerVars, buf_>>

\* MUTANT: the slot is given back before it has been read.
PopRead_AfterPublish ==
    /\ cpc = "read"
    /\ tail_' = (tail_ + 1) % Wrap
    /\ out' = buf_[Slot(tail_)]
    /\ received' = buf_[Slot(tail_ + 1)]
    /\ cpc' = "idle"
    /\ UNCHANGED <<head_cache_, producerVars, buf_>>

\* The copy out of the slot ends.
PopRead ==
    /\ cpc = "read"
    /\ out' = buf_[Slot(tail_)]
    /\ cpc' = "publish"
    /\ UNCHANGED <<tail_, head_cache_, received, producerVars, buf_>>

\* tail_.store(tail + 1, release), and return true.
PopPublish ==
    /\ cpc = "publish"
    /\ tail_' = (tail_ + 1) % Wrap
    /\ received' = out
    /\ cpc' = "idle"
    /\ UNCHANGED <<head_cache_, out, producerVars, buf_>>

-----------------------------------------------------------------------------
RingInit ==
    /\ head_ = 0 /\ tail_cache_ = 0 /\ tail_ = 0 /\ head_cache_ = 0
    /\ buf_ = [i \in 0 .. Cap - 1 |-> Torn]
    /\ ppc = "idle" /\ v = Torn
    /\ cpc = "idle" /\ out = Torn /\ received = Torn

RingProducer ==
    \/ \E x \in Val : Push(x)
    \/ \E x \in Val, t \in Visible(tail_cache_, tail_) : PushReload(x, t)
    \/ PushWrite
    \/ PushPublish

RingConsumer ==
    \/ Pop
    \/ \E h \in Visible(head_cache_, head_) : PopReload(h)
    \/ PopRead
    \/ PopPublish

RingNext == RingProducer \/ RingConsumer
RingSpec == RingInit /\ [][RingNext]_ringVars

-----------------------------------------------------------------------------
(* Properties.                                                             *)

\* Type invariant of the ring and of the two threads' locals.
RingTypeOK ==
    /\ head_ \in Counter /\ tail_cache_ \in Counter
    /\ tail_ \in Counter /\ head_cache_ \in Counter
    /\ buf_ \in [0 .. Cap - 1 -> Val \cup {Torn}]
    /\ ppc \in {"idle", "write", "publish"} /\ v \in Val \cup {Torn}
    /\ cpc \in {"idle", "read", "publish"}
    /\ out \in Val \cup {Torn} /\ received \in Val \cup {Torn}

\* While the producer writes a slot the consumer is not reading that slot: the
\* only synchronisation is the two published indices, read late and cached.
NoSlotRace ==
    ppc = "write" /\ cpc = "read" => Slot(head_) # Slot(tail_)

\* Each thread's cached view lags the other's index and never runs ahead of it,
\* and the published indices are never more than Cap apart, across the wrap of
\* the index type.
IndicesInStep ==
    /\ Dist(head_, tail_cache_) <= Cap
    /\ Dist(head_, tail_) <= Dist(head_, tail_cache_)
    /\ Dist(head_cache_, tail_) <= Dist(head_, tail_)
    /\ ppc # "idle" => Dist(head_, tail_cache_) < Cap
    /\ cpc # "idle" => head_cache_ # tail_

\* What is between the indices, read out of the slots.
Contents == [i \in 1 .. Dist(head_, tail_) |-> buf_[Slot(tail_ + i - 1)]]

Fifo == INSTANCE BoundedFifo WITH fifo <- Contents

\* The ring is a first-in first-out queue: every element is delivered once, in
\* order and whole (spsc_ring.hpp: "write slot... then publish").
ImplementsFifo == Fifo!FSpec
=============================================================================
