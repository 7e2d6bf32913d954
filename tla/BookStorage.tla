----------------------------- MODULE BookStorage ----------------------------
(***************************************************************************)
(* What the book does to memory: the pool and the levels together, as      *)
(* OrderBook uses them (src/src/orderbook.cpp).  Orders live in the pool's *)
(* slots, so a slot that is handed out or returned while a level links it  *)
(* corrupts that level's list.  Neither part knows of the other: it is the *)
(* book's methods that make both calls.                                    *)
(***************************************************************************)
EXTENDS PriceLevel, ObjectPool

ASSUME StorageAssumption == Orders = 1 .. MaxCapacity

storageVars == <<listVars, poolVars>>

-----------------------------------------------------------------------------
\* addOrder: the order is constructed in the slot the pool hands out, and linked.
Rest(l, q) == allocate /\ addOrder(l, Returned, q)

\* MUTANT: the slot is returned and the level keeps the order.
Remove_Dangling(o) == at[o] # NULL /\ deallocate(o) /\ UNCHANGED listVars

\* cancelOrder, also of a maker that is filled: unlinked, then returned.
Remove(o) == removeOrder(o) /\ deallocate(o)

\* executeMarketOrder: a fill that leaves something of the head.
FillHead(l, qty) ==
    /\ ~isEmpty(l) /\ qty < quantity[getHead(l)]
    /\ reduceHeadQuantity(l, qty)
    /\ UNCHANGED poolVars

\* modifyOrder, and the partial fill of match.
Resize(o, q) == adjustTotalQuantity(o, q) /\ UNCHANGED poolVars

-----------------------------------------------------------------------------
StorageInit == LevelInit /\ PoolInit

StorageNext ==
    \/ \E l \in Levels, q \in Quantities : Rest(l, q) \/ FillHead(l, q)
    \/ \E o \in Orders : Remove(o)
    \/ \E o \in Orders, q \in Quantities : Resize(o, q)

StorageSpec == StorageInit /\ [][StorageNext]_storageVars

-----------------------------------------------------------------------------
(* Properties.                                                             *)

\* The slots that hold an object are the orders that rest in a level: a cancelled order
\* is returned and leaves no link behind, and no order is linked from a slot the pool
\* may hand out again.
RestingIsLive == live = {o \in Orders : at[o] # NULL}
=============================================================================
