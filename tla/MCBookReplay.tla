---------------------------- MODULE MCBookReplay ----------------------------
(* Small instances of BookReplay for TLC. *)
EXTENDS BookReplay

SlotSymmetry == Permutations(Slots)
=============================================================================
