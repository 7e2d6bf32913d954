----------------------------- MODULE PriceLevel -----------------------------
(***************************************************************************)
(* The orders of the price levels as the code links them: src/include/     *)
(* price_level.hpp, with the link fields of src/include/order.hpp.         *)
(*                                                                         *)
(* A level knows its oldest and its newest order, the links are in the     *)
(* orders themselves.  OrderBook has a sequence where this module has the  *)
(* links; fifo, a history variable, is that sequence.  As the links live   *)
(* in the orders, a wrong one can lead from one level into another.        *)
(***************************************************************************)
EXTENDS Integers, Sequences, FiniteSets, FiniteSetsExt

CONSTANTS
    Levels,
    Orders,         \* the pool's slots; an Order* is one of them or NULL
    Quantities,
    NULL

ASSUME LevelAssumption ==
    /\ Quantities \subseteq Nat /\ NULL \notin Orders /\ NULL \notin Levels
    /\ IsFiniteSet(Orders)

VARIABLES
    head_, tail_, total_quantity_, order_count_,    \* of each level
    next, prev, quantity,                           \* of each order
    at,     \* the level the order's side and price name, NULL for a free slot
    fifo    \* history: the orders of each level, the oldest first

levelVars == <<head_, tail_, order_count_>>
links == <<next, prev>>
listVars == <<levelVars, total_quantity_, links, quantity, at, fifo>>

-----------------------------------------------------------------------------
(* The history.                                                            *)

PlaceOf(f, o) == CHOOSE k \in 1 .. Len(f) : f[k] = o
Without(f, k) == [i \in 1 .. Len(f) - 1 |-> IF i < k THEN f[i] ELSE f[i + 1]]
Leaves(l, o) ==
    /\ at' = [at EXCEPT ![o] = NULL]
    /\ fifo' = [fifo EXCEPT ![l] = Without(@, PlaceOf(@, o))]

-----------------------------------------------------------------------------
(* The operations.                                                         *)

isEmpty(l) == head_[l] = NULL
getHead(l) == head_[l]

\* The order has just been constructed with quantity q.
addOrder(l, o, q) ==
    /\ next' = [p \in Orders |-> IF p = o THEN NULL ELSE IF p = tail_[l] THEN o ELSE next[p]]
    /\ prev' = [prev EXCEPT ![o] = tail_[l]]
    /\ head_' = [head_ EXCEPT ![l] = IF tail_[l] = NULL THEN o ELSE @]
    /\ tail_' = [tail_ EXCEPT ![l] = o]
    /\ quantity' = [quantity EXCEPT ![o] = q]
    /\ total_quantity_' = [total_quantity_ EXCEPT ![l] = @ + q]
    /\ order_count_' = [order_count_ EXCEPT ![l] = @ + 1]
    /\ at' = [at EXCEPT ![o] = l]
    /\ fifo' = [fifo EXCEPT ![l] = Append(@, o)]

\* MUTANT: the newest order is removed and stays the tail.
Unlink_KeepsTail(l, o) ==
    /\ head_' = [head_ EXCEPT ![l] = IF prev[o] = NULL THEN next[o] ELSE @]
    /\ tail_' = tail_
    /\ next' = [p \in Orders |-> IF p = o THEN NULL ELSE IF p = prev[o] THEN next[o] ELSE next[p]]
    /\ prev' = [p \in Orders |-> IF p = o THEN NULL ELSE IF p = next[o] THEN prev[o] ELSE prev[p]]
    /\ order_count_' = [order_count_ EXCEPT ![l] = @ - 1]

\* MUTANT: the count goes down with the order and again with its level.
Unlink_CountsTwice(l, o) ==
    /\ head_' = [head_ EXCEPT ![l] = IF prev[o] = NULL THEN next[o] ELSE @]
    /\ tail_' = [tail_ EXCEPT ![l] = IF next[o] = NULL THEN prev[o] ELSE @]
    /\ next' = [p \in Orders |-> IF p = o THEN NULL ELSE IF p = prev[o] THEN next[o] ELSE next[p]]
    /\ prev' = [p \in Orders |-> IF p = o THEN NULL ELSE IF p = next[o] THEN prev[o] ELSE prev[p]]
    /\ order_count_' = [order_count_ EXCEPT ![l] = IF next[o] = prev[o] THEN @ - 2 ELSE @ - 1]

\* removeOrder, but for the total.
Unlink(l, o) ==
    /\ head_' = [head_ EXCEPT ![l] = IF prev[o] = NULL THEN next[o] ELSE @]
    /\ tail_' = [tail_ EXCEPT ![l] = IF next[o] = NULL THEN prev[o] ELSE @]
    /\ next' = [p \in Orders |-> IF p = o THEN NULL ELSE IF p = prev[o] THEN next[o] ELSE next[p]]
    /\ prev' = [p \in Orders |-> IF p = o THEN NULL ELSE IF p = next[o] THEN prev[o] ELSE prev[p]]
    /\ order_count_' = [order_count_ EXCEPT ![l] = @ - 1]

\* MUTANT: the order takes its quantity with it, the level keeps it.
removeOrder_KeepsTotal(o) ==
    /\ at[o] # NULL
    /\ Unlink(at[o], o)
    /\ Leaves(at[o], o)
    /\ UNCHANGED <<quantity, total_quantity_>>

\* The book finds the level by the order's side and price.
removeOrder(o) ==
    /\ at[o] # NULL
    /\ Unlink(at[o], o)
    /\ total_quantity_' = [total_quantity_ EXCEPT ![at[o]] = @ - quantity[o]]
    /\ Leaves(at[o], o)
    /\ UNCHANGED quantity

\* The order that is filled has quantity 0 when removeOrder subtracts it.  The book
\* asks for less than the head has and removes a filled head through cancelOrder.
reduceHeadQuantity(l, qty) ==
    LET h == getHead(l) IN
    /\ ~isEmpty(l) /\ qty <= quantity[h]
    /\ quantity' = [quantity EXCEPT ![h] = @ - qty]
    /\ total_quantity_' = [total_quantity_ EXCEPT ![l] = @ - qty]
    /\ IF quantity[h] = qty
       THEN Unlink(l, h) /\ Leaves(l, h)
       ELSE UNCHANGED <<levelVars, links, at, fifo>>

\* modifyOrder and the partial fill of match: the order's quantity is set and the
\* level's total is adjusted by the difference.
adjustTotalQuantity(o, q) ==
    /\ at[o] # NULL
    /\ quantity' = [quantity EXCEPT ![o] = q]
    /\ total_quantity_' = [total_quantity_ EXCEPT ![at[o]] = @ + (q - quantity[o])]
    /\ UNCHANGED <<levelVars, links, at, fifo>>

-----------------------------------------------------------------------------
LevelInit ==
    /\ head_ = [l \in Levels |-> NULL] /\ tail_ = [l \in Levels |-> NULL]
    /\ total_quantity_ = [l \in Levels |-> 0] /\ order_count_ = [l \in Levels |-> 0]
    /\ next = [o \in Orders |-> NULL] /\ prev = [o \in Orders |-> NULL]
    /\ quantity = [o \in Orders |-> 0]
    /\ at = [o \in Orders |-> NULL] /\ fifo = [l \in Levels |-> <<>>]

LevelNext ==
    \/ \E l \in Levels, o \in Orders, q \in Quantities : at[o] = NULL /\ addOrder(l, o, q)
    \/ \E o \in Orders : removeOrder(o)
    \/ \E l \in Levels, q \in Quantities : reduceHeadQuantity(l, q)
    \/ \E o \in Orders, q \in Quantities : adjustTotalQuantity(o, q)

LevelSpec == LevelInit /\ [][LevelNext]_listVars

-----------------------------------------------------------------------------
(* Properties.                                                             *)

\* Type invariant; a count is a size_t and never goes below zero.
LevelTypeOK ==
    /\ head_ \in [Levels -> Orders \cup {NULL}] /\ tail_ \in [Levels -> Orders \cup {NULL}]
    /\ total_quantity_ \in [Levels -> Int] /\ order_count_ \in [Levels -> Nat]
    /\ next \in [Orders -> Orders \cup {NULL}] /\ prev \in [Orders -> Orders \cup {NULL}]
    /\ quantity \in [Orders -> Nat]
    /\ at \in [Orders -> Levels \cup {NULL}] /\ fifo \in [Levels -> Seq(Orders)]

\* Every order that rests is in the queue of its own level, once, and nowhere else.
Placed ==
    /\ \A l \in Levels : \A i \in 1 .. Len(fifo[l]) : at[fifo[l][i]] = l
    /\ \A o \in Orders : at[o] # NULL => \E i \in 1 .. Len(fifo[at[o]]) : fifo[at[o]][i] = o
    /\ \A l \in Levels : \A i, j \in 1 .. Len(fifo[l]) : fifo[l][i] = fifo[l][j] => i = j

\* Head and tail are the ends of the queue, and the count is its length.
EndsRight ==
    \A l \in Levels :
        /\ head_[l] = IF Len(fifo[l]) = 0 THEN NULL ELSE fifo[l][1]
        /\ tail_[l] = IF Len(fifo[l]) = 0 THEN NULL ELSE fifo[l][Len(fifo[l])]
        /\ order_count_[l] = Len(fifo[l])

\* next and prev of every resting order are its neighbours in the queue.
LinksRight ==
    \A l \in Levels : \A i \in 1 .. Len(fifo[l]) :
        /\ next[fifo[l][i]] = IF i = Len(fifo[l]) THEN NULL ELSE fifo[l][i + 1]
        /\ prev[fifo[l][i]] = IF i = 1 THEN NULL ELSE fifo[l][i - 1]

\* price_level.hpp: "intrusive doubly-LL of orders (FIFO)".  After any sequence of
\* additions and of removals at either end and in the middle, head, tail, next and prev
\* spell each level's orders, the oldest first, in both directions, and no link leads
\* from one level into another.
ListIntact == Placed /\ EndsRight /\ LinksRight

\* The total that executeMarketOrder and getDepth read is the sum of what the level's
\* orders have, and so is never an unsigned number that has wrapped.
TotalsExact ==
    \A l \in Levels :
        total_quantity_[l] = MapThenSumSet(LAMBDA o : quantity[o], {o \in Orders : at[o] = l})
=============================================================================
