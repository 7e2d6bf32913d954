------------------------ MODULE MCOrderBookRefinement ------------------------
(* Small instances of OrderBookRefinement for TLC. *)
EXTENDS OrderBookRefinement

SlotSymmetry == Permutations(Slots)

LadderAndBeyond == (MinPrice - 1) .. (MaxPrice + 1)
=============================================================================
