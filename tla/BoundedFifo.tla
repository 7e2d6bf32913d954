----------------------------- MODULE BoundedFifo -----------------------------
(***************************************************************************)
(* What the metrics ring promises its two threads: a first-in first-out    *)
(* queue of at most Cap elements.  A push that is refused and a pop that   *)
(* finds nothing leave it unchanged.                                       *)
(***************************************************************************)
EXTENDS Naturals, Sequences

CONSTANTS Cap, Val

VARIABLES fifo,         \* the elements pushed and not yet popped, oldest first
          received      \* the element the last successful pop delivered

fvars == <<fifo, received>>

Put(v) ==
    /\ Len(fifo) < Cap
    /\ fifo' = Append(fifo, v)
    /\ UNCHANGED received

Get ==
    /\ fifo # <<>>
    /\ received' = Head(fifo)
    /\ fifo' = Tail(fifo)

FInit == fifo = <<>> /\ received \notin Val
FNext == Get \/ \E v \in Val : Put(v)
FSpec == FInit /\ [][FNext]_fvars
=============================================================================
