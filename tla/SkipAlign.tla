----------------------------- MODULE SkipAlign ------------------------------
(***************************************************************************)
(* The gearbox of the feed handler: src/fpga/rtl/axis_skip_align.v.        *)
(*                                                                         *)
(* GearEdge is a clock edge.  A beat is the sequence of its bytes that     *)
(* tkeep marks, at most KEEP_W, and tlast; only the last beat of a frame   *)
(* has fewer.  The gearbox never looks at a byte.  What it is connected to *)
(* is FeedHandler's.                                                       *)
(***************************************************************************)
EXTENDS Integers, Sequences, FiniteSetsExt

CONSTANTS
    KEEP_W,         \* bytes of a beat (8)
    NULL

ASSUME GearAssumption == KEEP_W \in Nat \ {0}

BUF_B == 2 * KEEP_W

VARIABLES
    buf_q,              \* the cnt_q bytes staged
    in_frame, drop_q, bounded_q, done_q, skip_q, left_q,
    m_axis              \* the beat on the output port, NULL when not valid

gearVars == <<buf_q, in_frame, drop_q, bounded_q, done_q, skip_q, left_q, m_axis>>

-----------------------------------------------------------------------------
\* A finished payload that is still staged.
residue == done_q /\ buf_q # <<>>
out_free(ready) == m_axis = NULL \/ ready
gear_tready(ready) == ~residue /\ Len(buf_q) <= BUF_B - KEEP_W /\ out_free(ready)

\* MUTANT: a frame starts as soon as its first beat is present.
first_beat_Present(valid, ready) == valid /\ ~in_frame
first_beat(valid, ready) == valid /\ gear_tready(ready) /\ ~in_frame

\* What the loop over the lanes of a beat keeps, and what is left of skip and budget.
Gather(b, skip, left, bounded, drop) ==
    LET rest == SubSeq(b, skip + 1, Len(b))
        kept == IF drop THEN <<>> ELSE IF bounded THEN SubSeq(rest, 1, Min({left, Len(rest)})) ELSE rest
    IN  [kept |-> kept, skip |-> Max({0, skip - Len(b)}),
         left |-> IF bounded THEN left - Len(kept) ELSE left]

\* MUTANT: a payload ends with its frame only.
Finished_AtLast(bounded, left, last) == last
\* No further payload can arrive: the budget is spent, or the frame ends.
Finished(bounded, left, last) == (bounded /\ left = 0) \/ last

\* MUTANT: a beat leaves when there is more than one.
CanEmit_Strict(buf, done, drop, ready) ==
    /\ out_free(ready) /\ ~drop
    /\ Len(buf) > KEEP_W \/ (done /\ buf # <<>>)

\* A full beat, or the short tail of a finished payload, can leave.
CanEmit(buf, done, drop, ready) ==
    /\ out_free(ready) /\ ~drop
    /\ Len(buf) >= KEEP_W \/ (done /\ buf # <<>>)

\* The beat that empties the buffer of a finished payload is its last.
Emit(buf, done, drop, ready) ==
    LET n == Min({KEEP_W, Len(buf)}) IN
    IF CanEmit(buf, done, drop, ready)
    THEN /\ m_axis' = [bytes |-> SubSeq(buf, 1, n), last |-> done /\ Len(buf) <= KEEP_W]
         /\ buf_q' = SubSeq(buf, n + 1, Len(buf))
    ELSE /\ m_axis' = IF out_free(ready) THEN NULL ELSE m_axis
         /\ buf_q' = buf

\* An edge at which a beat is accepted.  The control values of a frame come from the
\* ports at its first beat and from the registers at the later ones.
GearAccept(beat, skip, keep_len, drop, ready) ==
    LET first == first_beat(TRUE, ready)
        bounded == IF first THEN keep_len # 0 ELSE bounded_q
        dropped == IF first THEN drop ELSE drop_q
        g == Gather(beat.bytes, IF first THEN skip ELSE skip_q,
                    IF first THEN keep_len ELSE left_q, bounded, dropped)
        ndone == (~first /\ done_q) \/ Finished(bounded, g.left, beat.last)
    IN  /\ Emit(buf_q \o g.kept, ndone, dropped, ready)
        /\ skip_q' = IF beat.last THEN 0 ELSE g.skip
        /\ left_q' = IF beat.last THEN 0 ELSE g.left
        /\ bounded_q' = bounded /\ drop_q' = dropped /\ done_q' = ndone
        /\ in_frame' = ~beat.last

\* An edge without one; valid says whether a beat is present.
GearIdle(valid, ready) ==
    /\ Emit(buf_q, ~first_beat(valid, ready) /\ done_q, drop_q, ready)
    /\ UNCHANGED <<in_frame, drop_q, bounded_q, done_q, skip_q, left_q>>

GearEdge(valid, beat, skip, keep_len, drop, ready) ==
    IF valid /\ gear_tready(ready)
    THEN GearAccept(beat, skip, keep_len, drop, ready)
    ELSE GearIdle(valid, ready)

\* After reset.
GearInit ==
    /\ buf_q = <<>> /\ m_axis = NULL
    /\ in_frame = FALSE /\ drop_q = FALSE /\ bounded_q = FALSE /\ done_q = FALSE
    /\ skip_q = 0 /\ left_q = 0
=============================================================================
