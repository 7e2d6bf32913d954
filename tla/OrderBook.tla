------------------------------ MODULE OrderBook ------------------------------
(***************************************************************************)
(* The limit order book and matching engine: src/src/orderbook.cpp and     *)
(* src/include/orderbook.hpp.                                              *)
(*                                                                         *)
(* An Order* is a slot of the object pool, distinct from the OrderId that  *)
(* the caller chose, so that the map orders_ (id -> slot), the FIFO of each *)
(* price level (sequence of slots), the occupancy bitmap, the cached best  *)
(* index and the counters are separate pieces of state that the operations *)
(* have to keep in step.  The bid and ask halves of the code are textual   *)
(* mirrors of each other; they are one definition here, parameterised by   *)
(* the side.                                                               *)
(*                                                                         *)
(* addOrder, cancelOrder and modifyOrder are single steps.  The loops of   *)
(* executeMarketOrder and match run one iteration per step, with the       *)
(* locals of the running call in op.                                       *)
(***************************************************************************)
EXTENDS Integers, Sequences, FiniteSets, SequencesExt

CONSTANTS
    MinPrice, MaxPrice,     \* the price ladder [min_price_, max_price_]
    Slots,                  \* slots of order_pool_ (bound: the pool grows on demand)
    NULL,                   \* nullptr, and the absence of a map entry
    OrderIds,               \* ids a caller may use
    Prices, Quantities,     \* prices and quantities of requests
    SeparateIds             \* the ids callers supply keep clear of the book's own numbering

ASSUME LadderAssumption == MinPrice \in Int /\ MaxPrice \in Int /\ MinPrice <= MaxPrice
ASSUME RequestAssumption == /\ OrderIds \subseteq Nat
                            /\ Prices \subseteq Int
                            /\ Quantities \subseteq Nat
                            /\ SeparateIds \in BOOLEAN

Side == {"BUY", "SELL"}
Order == [id : OrderIds, side : Side, price : MinPrice .. MaxPrice, quantity : Nat]

ASSUME PoolAssumption == IsFiniteSet(Slots) /\ NULL \notin Slots /\ NULL \notin Order

VARIABLES
    orders_,            \* std::unordered_map<OrderId, Order*>
    pool_,              \* contents of every slot, NULL when the slot is free
    levels_,            \* {bid,ask}_levels_: the FIFO of slots at every index
    total_quantity_,    \* PriceLevel::total_quantity_ of every level
    words_,             \* {bid,ask}_words_: the indices whose bit is set
    best_idx_,          \* best_{bid,ask}_idx_
    count_,             \* {bid,ask}_count_: number of non-empty levels
    total_orders_,
    next_order_id_,
    op,                 \* locals of the call in progress
    trades,             \* the std::vector<Trade> that call has filled so far
    avail               \* history: opposing quantity that rested when the call began

bookVars == <<orders_, pool_, levels_, total_quantity_, words_, best_idx_,
              count_, total_orders_>>
callVars == <<op, trades, avail>>
vars == <<bookVars, next_order_id_, callVars>>

-----------------------------------------------------------------------------
(* Ladder, bitmap and level helpers.                                       *)

Opposite(side) == IF side = "BUY" THEN "SELL" ELSE "BUY"

Index == 0 .. (MaxPrice - MinPrice)
priceToIndex(p) == p - MinPrice
indexToPrice(i) == MinPrice + i
inRange(p) == MinPrice <= p /\ p <= MaxPrice

\* Index i is nearer the touch than index j.
Better(side, i, j) == IF side = "BUY" THEN i > j ELSE i < j

\* highestSetBit for the bids, lowestSetBit for the asks; -1 when no bit is set.
bestSetBit(side, w) ==
    IF w = {} THEN -1
    ELSE CHOOSE i \in w : \A j \in w \ {i} : Better(side, i, j)

isEmpty(side, i) == levels_[side][i] = <<>>

\* MUTANT: the newest order of the level instead of the oldest.
getHead_Newest(side, i) == Last(levels_[side][i])
getHead(side, i) == Head(levels_[side][i])

\* MUTANT: removal always takes the head off.
unlink_Head(list, o) == Tail(list)

\* PriceLevel::removeOrder on the list: the order is unlinked where it stands.
unlink(list, o) == RemoveAt(list, CHOOSE k \in DOMAIN list : list[k] = o)

\* MUTANT: the larger of the two.
Lesser_Swapped(a, b) == IF a < b THEN b ELSE a
Lesser(a, b) == IF a < b THEN a ELSE b

\* MUTANT: the order shrinks but the level's total does not.
reduceQuantity_NoTotal(o, side, idx, qty) ==
    /\ pool_' = [pool_ EXCEPT ![o].quantity = @ - qty]
    /\ UNCHANGED <<total_quantity_, orders_, levels_, words_, best_idx_, count_, total_orders_>>

\* MUTANT: the level's total shrinks but the order does not.
reduceQuantity_NoOrder(o, side, idx, qty) ==
    /\ total_quantity_' = [total_quantity_ EXCEPT ![side][idx] = @ - qty]
    /\ UNCHANGED <<pool_, orders_, levels_, words_, best_idx_, count_, total_orders_>>

\* PriceLevel::reduceHeadQuantity and match's partial fill: the resting order
\* keeps its place in the list.
reduceQuantity(o, side, idx, qty) ==
    /\ pool_' = [pool_ EXCEPT ![o].quantity = @ - qty]
    /\ total_quantity_' = [total_quantity_ EXCEPT ![side][idx] = @ - qty]
    /\ UNCHANGED <<orders_, levels_, words_, best_idx_, count_, total_orders_>>

-----------------------------------------------------------------------------
(* The three elementary operations, as relations on the book.              *)

FreeSlots == {o \in Slots : pool_[o] = NULL}

\* MUTANT: a better level does not replace the best of a non-empty side.
bestAfterAdd_KeepsOld(side, idx) == IF best_idx_[side] < 0 THEN idx ELSE best_idx_[side]

\* The index the cached best moves to when a level becomes occupied.
bestAfterAdd(side, idx) ==
    IF best_idx_[side] < 0 \/ Better(side, idx, best_idx_[side])
    THEN idx ELSE best_idx_[side]

\* MUTANT: the best index is not recomputed from the bitmap.
bestAfterRemove_Stale(side, idx, w) == IF w = {} THEN -1 ELSE best_idx_[side]

\* The index the cached best moves to when level idx loses its last order and
\* w is the bitmap without it.
bestAfterRemove(side, idx, w) ==
    IF idx = best_idx_[side] THEN bestSetBit(side, w) ELSE best_idx_[side]

addOrder(side, price, quantity, id) ==
    \/ /\ ~inRange(price)
       /\ UNCHANGED bookVars
    \/ /\ inRange(price)
       /\ \E o \in FreeSlots :
            LET idx == priceToIndex(price)
                wasEmpty == isEmpty(side, idx)
            IN  /\ pool_' = [pool_ EXCEPT ![o] = [id |-> id, side |-> side,
                                                  price |-> price, quantity |-> quantity]]
                /\ orders_' = [orders_ EXCEPT ![id] = o]
                /\ levels_' = [levels_ EXCEPT ![side][idx] = Append(@, o)]
                /\ total_quantity_' = [total_quantity_ EXCEPT ![side][idx] = @ + quantity]
                /\ IF wasEmpty
                   THEN /\ words_' = [words_ EXCEPT ![side] = @ \cup {idx}]
                        /\ count_' = [count_ EXCEPT ![side] = @ + 1]
                        /\ best_idx_' = [best_idx_ EXCEPT ![side] = bestAfterAdd(side, idx)]
                   ELSE UNCHANGED <<words_, count_, best_idx_>>
                /\ total_orders_' = total_orders_ + 1

cancelOrder(id) ==
    \/ /\ orders_[id] = NULL
       /\ UNCHANGED bookVars
    \/ /\ orders_[id] # NULL
       /\ LET o == orders_[id]
              side == pool_[o].side
              idx == priceToIndex(pool_[o].price)
              rest == unlink(levels_[side][idx], o)
              w == words_[side] \ {idx}
          IN  /\ levels_' = [levels_ EXCEPT ![side][idx] = rest]
              /\ total_quantity_' = [total_quantity_ EXCEPT ![side][idx] = @ - pool_[o].quantity]
              /\ IF rest = <<>>
                 THEN /\ words_' = [words_ EXCEPT ![side] = w]
                      /\ count_' = [count_ EXCEPT ![side] = @ - 1]
                      /\ best_idx_' = [best_idx_ EXCEPT ![side] = bestAfterRemove(side, idx, w)]
                 ELSE UNCHANGED <<words_, count_, best_idx_>>
              /\ orders_' = [orders_ EXCEPT ![id] = NULL]
              /\ pool_' = [pool_ EXCEPT ![o] = NULL]
              /\ total_orders_' = total_orders_ - 1

modifyOrder(id, new_quantity) ==
    \/ /\ orders_[id] = NULL
       /\ UNCHANGED bookVars
    \/ /\ orders_[id] # NULL
       /\ LET o == orders_[id]
              delta == new_quantity - pool_[o].quantity
          IN  /\ pool_' = [pool_ EXCEPT ![o].quantity = new_quantity]
              /\ total_quantity_' =
                   [total_quantity_ EXCEPT ![pool_[o].side][priceToIndex(pool_[o].price)] = @ + delta]
       /\ UNCHANGED <<orders_, levels_, words_, best_idx_, count_, total_orders_>>

-----------------------------------------------------------------------------
(* Calls.  op.lvl is the level the inner loop holds a reference to, -1 in  *)
(* the outer loop; op.quantity is the argument.                            *)

Idle == [kind |-> "idle"]
Running(kinds) == op.kind \in kinds

\* The quantity in each slot, and the resting quantity on a side, summed over the orders
\* themselves.
SlotQuantity == [o \in Slots |-> IF pool_[o] = NULL THEN 0 ELSE pool_[o].quantity]
RestingQuantity(side) ==
    MapThenSumSet(LAMBDA o : SlotQuantity[o],
                  {o \in Slots : pool_[o] # NULL /\ pool_[o].side = side})

Call(kind, side, limit, quantity, takerId) ==
    /\ op' = [kind |-> kind, side |-> side, limit |-> limit, quantity |-> quantity,
              rem |-> quantity, taker |-> takerId, lvl |-> -1, fill |-> 0, filled |-> 0]
    /\ avail' = RestingQuantity(Opposite(side))

\* The call hands its result to the caller.
Return == op' = Idle /\ trades' = <<>> /\ avail' = 0

\* A caller supplies only ids that no resting order has.
Unused(id) == orders_[id] = NULL

\* The overload that numbers the order itself spends next_order_id_ even when
\* the price is refused, and does not look whether the number is in use.
\* OrderIds bounds the counter.
AddAuto(side, price, quantity) ==
    /\ op = Idle
    /\ next_order_id_ \in OrderIds
    /\ SeparateIds => Unused(next_order_id_)
    /\ addOrder(side, price, quantity, next_order_id_)
    /\ next_order_id_' = next_order_id_ + 1
    /\ UNCHANGED callVars

Add(side, price, quantity, id) ==
    /\ op = Idle
    /\ Unused(id)
    /\ addOrder(side, price, quantity, id)
    /\ UNCHANGED <<next_order_id_, callVars>>

Cancel(id) ==
    /\ op = Idle
    /\ cancelOrder(id)
    /\ UNCHANGED <<next_order_id_, callVars>>

Modify(id, new_quantity) ==
    /\ op = Idle
    /\ modifyOrder(id, new_quantity)
    /\ UNCHANGED <<next_order_id_, callVars>>

\* Every call of match starts with an empty vector of trades.  The bound on the
\* pool is applied here, so that resting the remainder always finds a slot.
submitLimit(side, price, quantity, takerId) ==
    /\ op = Idle
    /\ FreeSlots # {}
    /\ Unused(takerId)
    /\ Call("limit", side, price, quantity, takerId)
    /\ UNCHANGED <<bookVars, next_order_id_, trades>>

\* numeric_limits<Price>::max() / ::min(): a limit every ladder price meets.
\* The taker's id only labels the trades.
submitMarket(side, quantity) ==
    /\ op = Idle
    /\ Call("market", side, IF side = "BUY" THEN MaxPrice ELSE MinPrice, quantity, NULL)
    /\ UNCHANGED <<bookVars, next_order_id_, trades>>

executeMarketOrder(side, quantity) ==
    /\ op = Idle
    /\ Call("exec", side, IF side = "BUY" THEN MaxPrice ELSE MinPrice, quantity, NULL)
    /\ UNCHANGED <<bookVars, next_order_id_, trades>>

-----------------------------------------------------------------------------
(* match: sweep the opposing levels from the best one while they cross.    *)

Book == Opposite(op.side)       \* the side the running call trades against

\* MUTANT: an order at exactly the limit does not trade.
Crosses_Strict(side, i, limit) ==
    IF side = "BUY" THEN indexToPrice(i) < limit ELSE indexToPrice(i) > limit

\* The best opposing price is no worse than the limit.
Crosses(side, i, limit) ==
    IF side = "BUY" THEN indexToPrice(i) <= limit ELSE indexToPrice(i) >= limit

OuterLoop == op.rem > 0 /\ best_idx_[Book] >= 0

MatchLevel ==
    /\ Running({"limit", "market"}) /\ op.lvl < 0
    /\ OuterLoop
    /\ Crosses(op.side, best_idx_[Book], op.limit)
    /\ op' = [op EXCEPT !.lvl = best_idx_[Book]]
    /\ UNCHANGED <<bookVars, next_order_id_, trades, avail>>

\* One iteration of the inner loop: trade with the oldest order of the level.
MatchFill ==
    /\ Running({"limit", "market"}) /\ op.lvl >= 0
    /\ op.rem > 0 /\ ~isEmpty(Book, op.lvl)
    /\ LET m == getHead(Book, op.lvl)
           fill == Lesser(op.rem, pool_[m].quantity)
       IN  /\ trades' = Append(trades, [price |-> indexToPrice(op.lvl), quantity |-> fill,
                                        makerId |-> pool_[m].id])
           /\ op' = [op EXCEPT !.rem = @ - fill]
           /\ IF fill = pool_[m].quantity
              THEN cancelOrder(pool_[m].id)
              ELSE reduceQuantity(m, Book, op.lvl, fill)
    /\ UNCHANGED <<next_order_id_, avail>>

MatchLevelDone ==
    /\ Running({"limit", "market"}) /\ op.lvl >= 0
    /\ op.rem = 0 \/ isEmpty(Book, op.lvl)
    /\ op' = [op EXCEPT !.lvl = -1]
    /\ UNCHANGED <<bookVars, next_order_id_, trades, avail>>

\* The outer loop has ended: submitLimit rests what is left, submitMarket
\* drops it; the trades are handed to the caller.
MatchReturn ==
    /\ Running({"limit", "market"}) /\ op.lvl < 0
    /\ ~(OuterLoop /\ Crosses(op.side, best_idx_[Book], op.limit))
    /\ IF op.kind = "limit" /\ op.rem > 0
       THEN addOrder(op.side, op.limit, op.rem, op.taker)
       ELSE UNCHANGED bookVars
    /\ Return
    /\ UNCHANGED next_order_id_

-----------------------------------------------------------------------------
(* executeMarketOrder: a level at a time, bounded by the level's total.    *)

ExecLevel ==
    /\ Running({"exec"}) /\ op.lvl < 0
    /\ OuterLoop
    /\ op' = [op EXCEPT !.lvl = best_idx_[Book],
                        !.fill = Lesser(op.rem, total_quantity_[Book][best_idx_[Book]]),
                        !.filled = 0]
    /\ UNCHANGED <<bookVars, next_order_id_, trades, avail>>

ExecFill ==
    /\ Running({"exec"}) /\ op.lvl >= 0
    /\ op.filled < op.fill /\ ~isEmpty(Book, op.lvl)
    /\ LET h == getHead(Book, op.lvl)
           tf == Lesser(pool_[h].quantity, op.fill - op.filled)
       IN  /\ IF tf = pool_[h].quantity
              THEN cancelOrder(pool_[h].id)
              ELSE reduceQuantity(h, Book, op.lvl, tf)
           /\ op' = [op EXCEPT !.filled = @ + tf]
    /\ UNCHANGED <<next_order_id_, trades, avail>>

\* MUTANT: a level that fills nothing does not end the call.
ExecLevelDone_NoBreak ==
    /\ Running({"exec"}) /\ op.lvl >= 0
    /\ op.filled >= op.fill \/ isEmpty(Book, op.lvl)
    /\ op' = [op EXCEPT !.rem = @ - op.filled, !.lvl = -1, !.fill = 0, !.filled = 0]
    /\ UNCHANGED <<bookVars, next_order_id_, trades, avail>>

\* The inner loop has ended; a level that filled nothing ends the call.
ExecLevelDone ==
    /\ Running({"exec"}) /\ op.lvl >= 0
    /\ op.filled >= op.fill \/ isEmpty(Book, op.lvl)
    /\ IF op.filled = 0 THEN Return
       ELSE /\ op' = [op EXCEPT !.rem = @ - op.filled, !.lvl = -1, !.fill = 0, !.filled = 0]
            /\ UNCHANGED <<trades, avail>>
    /\ UNCHANGED <<bookVars, next_order_id_>>

ExecReturn ==
    /\ Running({"exec"}) /\ op.lvl < 0
    /\ ~OuterLoop
    /\ Return
    /\ UNCHANGED <<bookVars, next_order_id_>>

-----------------------------------------------------------------------------
(* getDepth: the read-only walk from the cached best index inward.         *)

\* The indices the loop visits.
depthWalk(side) ==
    LET best == best_idx_[side]
    IN  IF best < 0 THEN <<>>
        ELSE IF side = "BUY" THEN [k \in 1 .. best + 1 |-> best + 1 - k]
        ELSE [k \in 1 .. MaxPrice - MinPrice + 1 - best |-> best - 1 + k]

getDepth(side, maxLevels) ==
    LET seen == SelectSeq(depthWalk(side), LAMBDA i : ~isEmpty(side, i))
    IN  [k \in 1 .. Min({maxLevels, Len(seen)}) |->
            [price |-> indexToPrice(seen[k]), qty |-> total_quantity_[side][seen[k]]]]

-----------------------------------------------------------------------------
Init ==
    /\ orders_ = [id \in OrderIds |-> NULL]
    /\ pool_ = [o \in Slots |-> NULL]
    /\ levels_ = [side \in Side |-> [i \in Index |-> <<>>]]
    /\ total_quantity_ = [side \in Side |-> [i \in Index |-> 0]]
    /\ words_ = [side \in Side |-> {}]
    /\ best_idx_ = [side \in Side |-> -1]
    /\ count_ = [side \in Side |-> 0]
    /\ total_orders_ = 0
    /\ next_order_id_ = 1
    /\ op = Idle
    /\ trades = <<>>
    /\ avail = 0

\* One iteration of the loops of the call in progress.
Step == \/ MatchLevel \/ MatchFill \/ MatchLevelDone \/ MatchReturn
        \/ ExecLevel \/ ExecFill \/ ExecLevelDone \/ ExecReturn

\* What a trading client calls: orders enter only through the matching engine.
Trading ==
    \/ \E side \in Side, p \in Prices, q \in Quantities, id \in OrderIds :
           submitLimit(side, p, q, id)
    \/ \E side \in Side, q \in Quantities : submitMarket(side, q)
    \/ \E side \in Side, q \in Quantities : executeMarketOrder(side, q)
    \/ \E id \in OrderIds : Cancel(id)
    \/ \E id \in OrderIds, q \in Quantities : Modify(id, q)

\* What a market-data feed calls: orders are placed where the exchange says.
Feeding ==
    \/ \E side \in Side, p \in Prices, q \in Quantities : AddAuto(side, p, q)
    \/ \E side \in Side, p \in Prices, q \in Quantities, id \in OrderIds : Add(side, p, q, id)

TradingNext == Trading \/ Step
Next == Trading \/ Feeding \/ Step

\* The caller's thread runs a call it has begun; when it makes the next call
\* is up to it.
TradingSpec == Init /\ [][TradingNext]_vars /\ WF_vars(Step)
Spec == Init /\ [][Next]_vars /\ WF_vars(Step)
-----------------------------------------------------------------------------
(* Properties.                                                             *)

\* Types of the book itself.
BookTypeOK ==
    /\ orders_ \in [OrderIds -> Slots \cup {NULL}]
    /\ pool_ \in [Slots -> Order \cup {NULL}]
    /\ levels_ \in [Side -> [Index -> Seq(Slots)]]
    /\ total_quantity_ \in [Side -> [Index -> Int]]
    /\ words_ \in [Side -> SUBSET Index]
    /\ best_idx_ \in [Side -> Index \cup {-1}]
    /\ count_ \in [Side -> Int]
    /\ total_orders_ \in Int

CallInProgress ==
    [kind : {"limit", "market", "exec"}, side : Side, limit : Int, quantity : Nat,
     rem : Nat, taker : OrderIds \cup {NULL}, lvl : Index \cup {-1}, fill : Int, filled : Nat]

\* Type invariant: every field stays in the range its C++ type is used for; in
\* particular the unsigned remainders and resting quantities that the matching
\* loops subtract from never go below zero.
TypeOK ==
    /\ BookTypeOK
    /\ next_order_id_ \in Nat
    /\ op = Idle \/ op \in CallInProgress
    /\ trades \in Seq([price : MinPrice .. MaxPrice, quantity : Nat, makerId : OrderIds])

Live == {o \in Slots : pool_[o] # NULL}

\* The map, the pool and the levels describe the same orders: every allocated
\* slot is the map's entry for its own id and stands exactly once in the level
\* of its side and price, and nothing else is in the map or in a level
\* (orders_, order_pool_ and the intrusive lists across add, cancel and fills).
IndexesAgree ==
    /\ \A id \in OrderIds : orders_[id] # NULL =>
           orders_[id] \in Live /\ pool_[orders_[id]].id = id
    /\ \A o \in Live : orders_[pool_[o].id] = o
    /\ \A side \in Side, i \in Index :
           /\ Range(levels_[side][i]) =
                 {o \in Live : pool_[o].side = side /\ priceToIndex(pool_[o].price) = i}
           /\ IsInjective(levels_[side][i])

Occupied(side) == {i \in Index : levels_[side][i] # <<>>}

\* b is the member of w nearest the touch, -1 when there is none.
IsTouch(side, b, w) ==
    /\ b = -1 <=> w = {}
    /\ w # {} => b \in w /\ \A i \in w \ {b} : Better(side, b, i)

\* The bitmap marks exactly the occupied levels and the cached best index is the
\* occupied level nearest the touch, -1 when the side is empty, after any
\* sequence of adds, cancels and fills (setBit/clearBit/highestSetBit/
\* lowestSetBit against the levels themselves).
BestIsBest ==
    \A side \in Side : words_[side] = Occupied(side) /\ IsTouch(side, best_idx_[side], Occupied(side))

\* The counters the getters report are the sizes of what they count:
\* bid_count_/ask_count_ the occupied levels, total_orders_ the allocated
\* orders, and every level's total_quantity_ the sum over its orders.
CountersExact ==
    /\ \A side \in Side : count_[side] = Cardinality(Occupied(side))
    /\ total_orders_ = Cardinality(Live)
    /\ \A side \in Side, i \in Index :
           total_quantity_[side][i] =
               MapThenSumSet(LAMBDA o : SlotQuantity[o], Range(levels_[side][i]))

\* The depth published to readers is the book itself, for any number of levels
\* asked for: the occupied prices from the touch outward, each with the sum of
\* the quantities that rest there.
DepthIsBook ==
    \A side \in Side, n \in 1 .. Cardinality(Index) :
        LET prices == SetToSortSeq({pool_[o].price : o \in {x \in Live : pool_[x].side = side}},
                                   LAMBDA p, r : Better(side, p, r))
        IN  getDepth(side, n) =
              [k \in 1 .. Min({n, Len(prices)}) |->
                 [price |-> prices[k],
                  qty |-> FoldSet(LAMBDA o, sum : pool_[o].quantity + sum, 0,
                            {o \in Live : pool_[o].side = side /\ pool_[o].price = prices[k]})]]

\* orderbook.cpp in match: "maker fully filled -> remove".  A fill that takes all
\* of a maker's quantity leaves that maker's slot free.
FilledMakerLeaves ==
    [][\A m \in Live : MatchFill /\ m = getHead(Book, op.lvl) /\ pool_[m].quantity <= op.rem
            => pool_'[m] = NULL]_vars

\* test_matching.cpp: "a matched book is NEVER crossed".  While orders enter only
\* through the matching engine the best bid stays below the best ask, in the
\* middle of a sweep too.
NotCrossed ==
    best_idx_["BUY"] >= 0 /\ best_idx_["SELL"] >= 0 => best_idx_["BUY"] < best_idx_["SELL"]

\* orderbook.hpp on submitLimit: "Guarantees the book is never crossed afterward".
UncrossedAfterSubmit == [][Running({"limit"}) /\ op' = Idle => NotCrossed']_vars

TradeQuantity == [k \in DOMAIN trades |-> trades[k].quantity]
Traded == MapThenSumSet(LAMBDA k : TradeQuantity[k], DOMAIN trades)

\* What leaves the opposing side is what was traded: at every point of a sweep
\* the quantity still resting plus the quantity of the trades (or the filled
\* count of executeMarketOrder) is what rested when the call began, and the
\* taker's remainder has shrunk by the same amount.
QuantityConserved ==
    /\ Running({"limit", "market"}) =>
          /\ RestingQuantity(Book) + Traded = avail
          /\ op.rem + Traded = op.quantity
    /\ Running({"exec"}) =>
          RestingQuantity(Book) + (op.quantity - op.rem) + op.filled = avail

\* A sweep stops for a reason the caller can see: when a limit or market order
\* returns, it is filled or no resting order on the other side still crosses
\* its limit, wherever in the ladder that order stands.
SweepComplete ==
    [][Running({"limit", "market"}) /\ op' = Idle =>
          \/ op.rem = 0
          \/ \A o \in Live : pool_[o].side = Book =>
                 ~Crosses(op.side, priceToIndex(pool_[o].price), op.limit)]_vars

\* executeMarketOrder takes all it can: it returns the quantity asked for or all
\* that rested on the other side when it was called, whichever is less, unless it
\* stopped at an order of quantity zero, which then still rests.
ExecTakesAll ==
    [][Running({"exec"}) /\ op' = Idle =>
          \/ op.quantity - op.rem + op.filled = Min({op.quantity, avail})
          \/ \E o \in Live : pool_[o].side = Book /\ pool_[o].quantity = 0]_vars

\* Every submit, market order and execution returns: no sweep loops for ever.
CallsReturn == op # Idle ~> op = Idle
=============================================================================
