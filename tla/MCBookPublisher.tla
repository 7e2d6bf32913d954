--------------------------- MODULE MCBookPublisher ---------------------------
(* Small instances of BookPublisher for TLC. *)
EXTENDS BookPublisher
=============================================================================
