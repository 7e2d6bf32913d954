---------------------------- MODULE PriceTimeBook ----------------------------
(***************************************************************************)
(* What the matching engine promises (orderbook.hpp: "match against the    *)
(* resting book in price-time priority, then rest any unfilled remainder"; *)
(* "match at any price until filled or the book is exhausted"), with none  *)
(* of the machinery: a queue of orders per side and price in order of      *)
(* arrival, and one request at a time that trades with whichever opposing  *)
(* order has priority until it is filled or nothing crosses.               *)
(***************************************************************************)
EXTENDS Integers, Sequences, SequencesExt

CONSTANTS MinPrice, MaxPrice, OrderIds, Prices, Quantities, NULL

VARIABLES queue,    \* orders [id, quantity] per side and price, oldest first
          req       \* the request being worked, or Free

bvars == <<queue, req>>

Sides == {"BUY", "SELL"}
Ladder == MinPrice .. MaxPrice
Other(side) == IF side = "BUY" THEN "SELL" ELSE "BUY"
Free == [kind |-> "idle"]

Resting(side) == {p \in Ladder : queue[side][p] # <<>>}

\* p is the best price of a non-empty side: highest bid or lowest ask.
IsBest(side, p) ==
    /\ p \in Resting(side)
    /\ \A r \in Resting(side) : IF side = "BUY" THEN p >= r ELSE p <= r

\* A request of the given side and limit would trade at price p.
Acceptable(side, p, limit) ==
    \/ limit = NULL
    \/ limit # NULL /\ (IF side = "BUY" THEN p <= limit ELSE p >= limit)

Rest(side, p, id, q) ==
    queue' = IF p \in Ladder
             THEN [queue EXCEPT ![side][p] = Append(@, [id |-> id, quantity |-> q])]
             ELSE queue

Known(id) == \E s \in Sides, p \in Ladder : \E k \in DOMAIN queue[s][p] : queue[s][p][k].id = id

Place(side, p, q, id) ==
    /\ req = Free /\ ~Known(id)
    /\ Rest(side, p, id, q)
    /\ UNCHANGED req

Withdraw(id) ==
    /\ req = Free
    /\ \E s \in Sides, p \in Ladder : \E k \in DOMAIN queue[s][p] :
          /\ queue[s][p][k].id = id
          /\ queue' = [queue EXCEPT ![s][p] = RemoveAt(@, k)]
    /\ UNCHANGED req

\* A change of quantity, up or down, keeps the order's place in its queue.
Resize(id, q) ==
    /\ req = Free
    /\ \E s \in Sides, p \in Ladder : \E k \in DOMAIN queue[s][p] :
          /\ queue[s][p][k].id = id
          /\ queue' = [queue EXCEPT ![s][p][k].quantity = q]
    /\ UNCHANGED req

\* limit is NULL for a market order; rests says whether a remainder is kept.
Request(side, limit, q, id, rests) ==
    /\ req = Free
    /\ rests => ~Known(id)
    /\ req' = [kind |-> "working", side |-> side, limit |-> limit, rem |-> q,
               id |-> id, rests |-> rests]
    /\ UNCHANGED queue

\* Trade with the oldest order at the best opposing price.
Trade ==
    /\ req # Free /\ req.rem > 0
    /\ \E p \in Ladder :
          /\ IsBest(Other(req.side), p) /\ Acceptable(req.side, p, req.limit)
          /\ LET maker == Head(queue[Other(req.side)][p])
                 fill == IF maker.quantity < req.rem THEN maker.quantity ELSE req.rem
             IN  /\ req' = [req EXCEPT !.rem = @ - fill]
                 /\ queue' = [queue EXCEPT ![Other(req.side)][p] =
                       IF fill = maker.quantity THEN Tail(@)
                       ELSE [@ EXCEPT ![1].quantity = maker.quantity - fill]]

\* Nothing is left to do: a limit order rests what remains of it.
Settle ==
    /\ req # Free
    /\ \/ req.rem = 0
       \/ \A p \in Resting(Other(req.side)) : ~Acceptable(req.side, p, req.limit)
    /\ IF req.rests /\ req.rem > 0
       THEN Rest(req.side, req.limit, req.id, req.rem)
       ELSE UNCHANGED queue
    /\ req' = Free

BInit ==
    /\ queue = [s \in Sides |-> [p \in Ladder |-> <<>>]]
    /\ req = Free

BNext ==
    \/ \E s \in Sides, p \in Prices, q \in Quantities, id \in OrderIds :
          Place(s, p, q, id) \/ Request(s, p, q, id, TRUE)
    \/ \E s \in Sides, q \in Quantities : Request(s, NULL, q, NULL, FALSE)
    \/ \E id \in OrderIds : Withdraw(id) \/ \E q \in Quantities : Resize(id, q)
    \/ Trade
    \/ Settle

BSpec == BInit /\ [][BNext]_bvars
=============================================================================
