----------------------------- MODULE MCOrderBook -----------------------------
(* Small instances of OrderBook for TLC. *)
EXTENDS OrderBook

\* Slots are interchangeable: the pool hands out any free one.
SlotSymmetry == Permutations(Slots)

\* One price below and one above the ladder MinPrice .. MaxPrice.
LadderAndBeyond == (MinPrice - 1) .. (MaxPrice + 1)
=============================================================================
