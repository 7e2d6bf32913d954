----------------------------- MODULE ObjectPool -----------------------------
(***************************************************************************)
(* The pool that orders are constructed in: src/include/object_pool.hpp.   *)
(*                                                                         *)
(* A slot is a union: it holds an object, or, when it is free, the pointer *)
(* to the next free slot.  Slots are numbered in the order in which their  *)
(* chunks were made, as a chunk never moves; the null pointer is 0.        *)
(***************************************************************************)
EXTENDS Integers, Sequences, FiniteSets

CONSTANTS
    initial_capacity, chunk_size,   \* the constructor's arguments
    LIVE,                           \* the contents of a slot that holds an object
    MaxCapacity                     \* bound on the slots of a behaviour

ASSUME PoolAssumption ==
    /\ initial_capacity \in Nat /\ chunk_size \in Nat /\ MaxCapacity \in Nat
    /\ LIVE \notin Nat

VARIABLES
    free_head_, allocated_, capacity_,
    cell,       \* the contents of each slot
    live,       \* history: slots that hold an object of the client
    stack       \* history: the free slots, the next to be handed out first

poolVars == <<free_head_, allocated_, capacity_, cell, live, stack>>

-----------------------------------------------------------------------------
\* A pool grows by at least one slot.
chunk_size_ == IF chunk_size > 0 THEN chunk_size ELSE 1

\* addChunk: each slot of the new chunk points to the one before, the first to what was
\* the head of the list; the last becomes the head.
Threaded(c, head, cap, n) ==
    [s \in 1 .. cap + n |-> IF s <= cap THEN c[s] ELSE IF s = cap + 1 THEN head ELSE s - 1]
Fresh(cap, n) == [i \in 1 .. n |-> cap + n + 1 - i]

\* The slot that allocate returns.
Returned == IF free_head_ = 0 THEN capacity_ + chunk_size_ ELSE free_head_

\* MUTANT: the slot that is handed out stays the head of the list.
allocate_KeepsHead ==
    /\ free_head_ # 0
    /\ cell' = [cell EXCEPT ![free_head_] = LIVE]
    /\ allocated_' = allocated_ + 1
    /\ live' = live \cup {free_head_}
    /\ UNCHANGED <<free_head_, capacity_, stack>>

\* The list is grown when it is empty; the object is constructed over the pointer.
allocate ==
    LET n == IF free_head_ = 0 THEN chunk_size_ ELSE 0
        grown == Threaded(cell, free_head_, capacity_, n)
        slot == Returned
    IN  /\ capacity_ + n <= MaxCapacity
        /\ capacity_' = capacity_ + n
        /\ free_head_' = grown[slot]
        /\ cell' = [grown EXCEPT ![slot] = LIVE]
        /\ allocated_' = allocated_ + 1
        /\ live' = live \cup {slot}
        /\ stack' = Tail(IF free_head_ = 0 THEN Fresh(capacity_, n) ELSE stack)

\* MUTANT: the list goes on with the slot, the slot does not go on with the list.
deallocate_NoLink(obj) ==
    /\ obj \in live
    /\ cell' = [cell EXCEPT ![obj] = 0]
    /\ free_head_' = obj
    /\ allocated_' = allocated_ - 1
    /\ live' = live \ {obj}
    /\ stack' = <<obj>> \o stack
    /\ UNCHANGED capacity_

\* MUTANT: a return is not counted.
deallocate_Uncounted(obj) ==
    /\ obj \in live
    /\ cell' = [cell EXCEPT ![obj] = free_head_]
    /\ free_head_' = obj
    /\ live' = live \ {obj}
    /\ stack' = <<obj>> \o stack
    /\ UNCHANGED <<allocated_, capacity_>>

\* The client returns an object it has and has not returned before.
deallocate(obj) ==
    /\ obj \in live
    /\ cell' = [cell EXCEPT ![obj] = free_head_]
    /\ free_head_' = obj
    /\ allocated_' = allocated_ - 1
    /\ live' = live \ {obj}
    /\ stack' = <<obj>> \o stack
    /\ UNCHANGED capacity_

-----------------------------------------------------------------------------
\* The constructor makes the first chunk.
PoolInit ==
    /\ capacity_ = IF initial_capacity > 0 THEN initial_capacity ELSE chunk_size_
    /\ free_head_ = capacity_
    /\ cell = Threaded(<<>>, 0, 0, capacity_)
    /\ allocated_ = 0
    /\ live = {} /\ stack = Fresh(0, capacity_)

PoolNext == allocate \/ \E obj \in live : deallocate(obj)

PoolSpec == PoolInit /\ [][PoolNext]_poolVars

-----------------------------------------------------------------------------
(* Properties.                                                             *)

\* Type invariant; a pointer is null or the address of a slot the pool has made.
PoolTypeOK ==
    /\ capacity_ \in Nat \ {0} /\ allocated_ \in 0 .. capacity_
    /\ free_head_ \in 0 .. capacity_
    /\ cell \in [1 .. capacity_ -> (0 .. capacity_) \cup {LIVE}]
    /\ live \subseteq 1 .. capacity_ /\ stack \in Seq(1 .. capacity_)

\* The list with this head that runs through the cells c is st: it has each of the
\* slots in free once and ends.
Spells(c, head, st, free) ==
    /\ head = IF Len(st) = 0 THEN 0 ELSE st[1]
    /\ \A i \in 1 .. Len(st) : st[i] \in free /\ c[st[i]] = IF i = Len(st) THEN 0 ELSE st[i + 1]
    /\ \A i, j \in 1 .. Len(st) : st[i] = st[j] => i = j
    /\ \A s \in free : \E i \in 1 .. Len(st) : st[i] = s

\* object_pool.hpp: "free slots store the "next free" pointer".  The list that runs
\* through the slots' own storage has every slot that holds no object, each once, however
\* allocations, returns and growth are mixed; available() is its length.
FreeListIntact ==
    /\ Spells(cell, free_head_, stack, 1 .. capacity_ \ live)
    /\ Len(stack) = capacity_ - allocated_

\* No slot is handed out again before it is returned, and the list is never written into
\* the storage of an object in use: the orders of the book are in different slots.
HandedOutOnce ==
    /\ Cardinality(live) = allocated_
    /\ \A s \in live : cell[s] = LIVE
=============================================================================
