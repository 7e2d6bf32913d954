------------------------- MODULE OrderBookRefinement -------------------------
(***************************************************************************)
(* OrderBook implements PriceTimeBook.  The mapping forgets the pool, the  *)
(* map, the bitmap, the cached best indices and the counters: the queue at *)
(* a price is the level's list of slots read through the pool, and the     *)
(* request is the call in progress without its position in the loops.      *)
(***************************************************************************)
EXTENDS OrderBook

\* PriceTimeBook marks a request without a limit by NULL.
ASSUME LimitAssumption == NULL \notin Prices

QueueOf(side, p) ==
    [k \in DOMAIN levels_[side][priceToIndex(p)] |->
        LET o == levels_[side][priceToIndex(p)][k]
        IN  [id |-> pool_[o].id, quantity |-> pool_[o].quantity]]

queueBar == [side \in Side |-> [p \in MinPrice .. MaxPrice |-> QueueOf(side, p)]]

\* executeMarketOrder subtracts what a level filled when it leaves the level.
reqBar ==
    IF op = Idle THEN Idle
    ELSE [kind |-> "working", side |-> op.side,
          limit |-> IF op.kind = "limit" THEN op.limit ELSE NULL,
          rem |-> op.rem - op.filled, id |-> op.taker, rests |-> op.kind = "limit"]

Abstract == INSTANCE PriceTimeBook WITH queue <- queueBar, req <- reqBar

\* The ladder, bitmap, best indices, map and pool, with their loops, trade in
\* price-time priority and stop only when nothing is left to trade: every step
\* of the engine is a step of PriceTimeBook or changes nothing there.
PriceTimePriority == Abstract!BSpec
=============================================================================
