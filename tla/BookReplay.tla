----------------------------- MODULE BookReplay -----------------------------
(***************************************************************************)
(* The replay layer that rebuilds one symbol's book from an ITCH feed:     *)
(* src/include/book_replay.hpp on top of OrderBook.                        *)
(*                                                                         *)
(* The venue whose feed is replayed is external.  It keeps the open orders *)
(* of all symbols and sends only messages about orders that are open, with *)
(* a new reference for every add and every replace.  Types A and F, and    *)
(* types X, E and C, are handled alike.  A price is in ITCH units, of      *)
(* which a tick of the book has TickUnits.                                 *)
(***************************************************************************)
EXTENDS OrderBook

CONSTANTS
    ItchPrices,     \* prices of the feed, in 1/10000 dollar
    TickUnits,      \* ITCH units per cent (100)
    MaxMessages     \* bound on the messages of a behaviour

\* An open order of the venue: time is the message that put it where it stands in its queue,
\* tracked whether it has been the target's and on the ladder since it was added.
VenueOrder == [target : BOOLEAN, side : Side, price : ItchPrices, shares : Nat, time : Nat,
               tracked : BOOLEAN]

\* The locals of onReplace that outlive its cancelOrder.
Replacement == [side : Side, price : ItchPrices, shares : Nat, newRef : OrderIds]

ASSUME FeedAssumption ==
    /\ ItchPrices \subseteq Nat /\ TickUnits \in Nat \ {0} /\ MaxMessages \in Nat
    /\ NULL \notin VenueOrder /\ NULL \notin Replacement

VARIABLES
    seen_, added_, deleted_, reduced_, replaced_,
    replacing,      \* onReplace between its cancelOrder and its addOrder, or NULL
    venue,          \* open orders of the venue by reference, NULL when closed
    used,           \* references the venue has given out
    emptied,        \* history: reductions that removed the order
    refused         \* history: replacements that the book refused

venueVars == <<venue, used>>
counters == <<added_, deleted_, reduced_, replaced_>>
replayVars == <<vars, seen_, counters, replacing, venueVars, emptied, refused>>

-----------------------------------------------------------------------------
(* The venue.                                                              *)

Open(ref) == venue[ref] # NULL

\* The order enters its queue with the message that is the time-th.
Listed(target, side, price, shares, tracked) ==
    [target |-> target, side |-> side, price |-> price, shares |-> shares,
     time |-> seen_, tracked |-> tracked]

Message ==
    /\ replacing = NULL
    /\ seen_ < MaxMessages
    /\ seen_' = seen_ + 1
    /\ UNCHANGED <<next_order_id_, callVars>>

-----------------------------------------------------------------------------
(* onMessage.                                                              *)

\* MUTANT: rounded to the nearest tick.
toCents_Rounded(itchPrice) == (itchPrice + TickUnits \div 2) \div TickUnits
toCents(itchPrice) == itchPrice \div TickUnits

\* A and F: only the target symbol's orders enter the book.
onAdd(ref, target, side, price, shares) ==
    /\ Message
    /\ ref \notin used
    /\ venue' = [venue EXCEPT ![ref] =
                    Listed(target, side, price, shares, target /\ inRange(price \div TickUnits))]
    /\ used' = used \cup {ref}
    /\ IF target
       THEN /\ addOrder(side, toCents(price), shares, ref)
            /\ added_' = IF inRange(toCents(price)) THEN added_ + 1 ELSE added_
       ELSE UNCHANGED <<bookVars, added_>>
    /\ UNCHANGED <<deleted_, reduced_, replaced_, replacing, emptied, refused>>

\* MUTANT: a delete of an order that is not in the book counts too.
onDelete_Unchecked(ref) ==
    /\ Message
    /\ Open(ref)
    /\ venue' = [venue EXCEPT ![ref] = NULL]
    /\ cancelOrder(ref)
    /\ deleted_' = deleted_ + 1
    /\ UNCHANGED <<used, added_, reduced_, replaced_, replacing, emptied, refused>>

\* D
onDelete(ref) ==
    /\ Message
    /\ Open(ref)
    /\ venue' = [venue EXCEPT ![ref] = NULL]
    /\ IF orders_[ref] # NULL
       THEN cancelOrder(ref) /\ deleted_' = deleted_ + 1
       ELSE UNCHANGED <<bookVars, deleted_>>
    /\ UNCHANGED <<used, added_, reduced_, replaced_, replacing, emptied, refused>>

\* What is left of the order after the reduction is positive.
Survives(o, shares) == pool_[o].quantity > shares

\* X, E and C: the venue never takes more than the order has.
onReduce(ref, shares) ==
    /\ Message
    /\ Open(ref) /\ shares <= venue[ref].shares
    /\ LET old == venue[ref]
       IN  venue' = [venue EXCEPT ![ref] = IF shares = old.shares THEN NULL
                                           ELSE [old EXCEPT !.shares = old.shares - shares]]
    /\ LET o == orders_[ref]
       IN  IF o # NULL
           THEN /\ IF Survives(o, shares)
                   THEN modifyOrder(ref, pool_[o].quantity - shares) /\ UNCHANGED emptied
                   ELSE cancelOrder(ref) /\ emptied' = emptied + 1
                /\ reduced_' = reduced_ + 1
           ELSE UNCHANGED <<bookVars, reduced_, emptied>>
    /\ UNCHANGED <<used, added_, deleted_, replaced_, replacing, refused>>

\* U: the venue moves the order to a new reference, at the back of its queue.  An
\* order the book does not have is left alone, whatever its symbol.
onReplace(ref, newRef, price, shares) ==
    /\ Message
    /\ Open(ref) /\ newRef \notin used
    /\ LET old == venue[ref]
       IN  venue' = [venue EXCEPT ![ref] = NULL,
                        ![newRef] = Listed(old.target, old.side, price, shares,
                                           old.tracked /\ inRange(price \div TickUnits))]
    /\ used' = used \cup {newRef}
    /\ IF orders_[ref] # NULL
       THEN /\ replacing' = [side |-> pool_[orders_[ref]].side, price |-> price,
                             shares |-> shares, newRef |-> newRef]
            /\ cancelOrder(ref)
       ELSE UNCHANGED <<bookVars, replacing>>
    /\ UNCHANGED <<counters, emptied, refused>>

\* MUTANT: the new order counts as an add, too.
ReplaceAdd_Twice ==
    /\ replacing # NULL
    /\ addOrder(replacing.side, toCents(replacing.price), replacing.shares, replacing.newRef)
    /\ replaced_' = replaced_ + 1 /\ added_' = added_ + 1
    /\ replacing' = NULL
    /\ UNCHANGED <<seen_, deleted_, reduced_, venueVars, emptied, refused,
                   next_order_id_, callVars>>

\* The rest of onReplace.
ReplaceAdd ==
    /\ replacing # NULL
    /\ addOrder(replacing.side, toCents(replacing.price), replacing.shares, replacing.newRef)
    /\ IF inRange(toCents(replacing.price))
       THEN replaced_' = replaced_ + 1 /\ UNCHANGED refused
       ELSE refused' = refused + 1 /\ UNCHANGED replaced_
    /\ replacing' = NULL
    /\ UNCHANGED <<seen_, added_, deleted_, reduced_, venueVars, emptied,
                   next_order_id_, callVars>>

-----------------------------------------------------------------------------
ReplayInit ==
    /\ Init
    /\ seen_ = 0 /\ added_ = 0 /\ deleted_ = 0 /\ reduced_ = 0 /\ replaced_ = 0
    /\ replacing = NULL
    /\ venue = [ref \in OrderIds |-> NULL] /\ used = {}
    /\ emptied = 0 /\ refused = 0

ReplayNext ==
    \/ \E ref \in OrderIds, target \in BOOLEAN, side \in Side, p \in ItchPrices, q \in Quantities :
           onAdd(ref, target, side, p, q)
    \/ \E ref \in OrderIds : onDelete(ref)
    \/ \E ref \in OrderIds, q \in Quantities : onReduce(ref, q)
    \/ \E ref, newRef \in OrderIds, p \in ItchPrices, q \in Quantities :
           onReplace(ref, newRef, p, q)
    \/ ReplaceAdd

ReplaySpec == ReplayInit /\ [][ReplayNext]_replayVars

-----------------------------------------------------------------------------
(* Properties.                                                             *)

\* Type invariant of the replay layer, and of the book below it; a message is
\* counted as at most one operation.
ReplayTypeOK ==
    /\ TypeOK
    /\ seen_ \in 0 .. MaxMessages
    /\ added_ \in Nat /\ deleted_ \in Nat /\ reduced_ \in Nat /\ replaced_ \in Nat
    /\ added_ + deleted_ + reduced_ + replaced_ <= seen_
    /\ used \subseteq OrderIds

\* The venue's order ref as the book should hold it.
Mirrors(ref, o) ==
    /\ pool_[o].id = ref /\ pool_[o].side = venue[ref].side
    /\ pool_[o].price = venue[ref].price \div TickUnits
    /\ pool_[o].quantity = venue[ref].shares

\* README.md: "A thin BookReplay layer maps each decoded message onto a book
\* operation".  Between messages the book holds exactly the target symbol's open
\* orders that have been within the ladder since they were added, each with its
\* side, its price in cents and its open shares, and every level has them in the
\* order in which the venue queued them.
TracksFeed ==
    replacing = NULL =>
        /\ \A ref \in OrderIds :
              orders_[ref] # NULL <=> Open(ref) /\ venue[ref].tracked
        /\ \A ref \in OrderIds : orders_[ref] # NULL => Mirrors(ref, orders_[ref])
        /\ \A side \in Side, i \in Index : \A k \in 1 .. Len(levels_[side][i]) - 1 :
              venue[pool_[levels_[side][i][k]].id].time <
                  venue[pool_[levels_[side][i][k + 1]].id].time

\* The counts the tools print explain the orders they report live: adds less
\* deletes, reductions to nothing, and replacements that the ladder refused.
CountsExplainBook ==
    replacing = NULL => total_orders_ = added_ - deleted_ - emptied - refused

\* README.md: "U -> cancel-then-add".  Between messages every open order of the
\* target symbol whose price is on the ladder is in the book.
BookComplete ==
    replacing = NULL =>
        \A ref \in OrderIds :
            Open(ref) /\ venue[ref].target /\ inRange(toCents(venue[ref].price))
                => orders_[ref] # NULL
=============================================================================
