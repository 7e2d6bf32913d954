---------------------------- MODULE MCBookStorage ---------------------------
(* Small instances of BookStorage for TLC. *)
EXTENDS BookStorage
=============================================================================
