------------------------- MODULE FeedHandlerProofs -------------------------
(***************************************************************************)
(* Proofs about FeedHandler: for all frames, all stalls and every layer    *)
(* the beat on the output port is the next one of the payloads that the    *)
(* reference finds in the frames, and mold_parser flags every gap.         *)
(***************************************************************************)
EXTENDS FeedHandler, NumberLemmas, SequenceTheorems, TLAPS

-----------------------------------------------------------------------------
(* Payloads and what the gearbox has of one.                               *)

Piece(no, k, from, to) == [no |-> no, kind |-> k, from |-> from, to |-> to]

Pieces == [no : 0 .. MaxFrames, kind : Kinds, from : Nat, to : Nat]

\* The bytes from .. to of frame no are still to be taken.
Remaining(no, k, from, to) == IF from <= to THEN <<Piece(no, k, from, to)>> ELSE <<>>

DueOf(p) ==
    [bytes |-> Bytes(p.no, p.kind, p.from, Min({p.from + KEEP_W - 1, p.to})),
     last |-> p.from + KEEP_W > p.to]

AfterBeat(o) ==
    IF Head(o).from + KEEP_W > Head(o).to THEN Tail(o) ELSE [o EXCEPT ![1].from = @ + KEEP_W]

\* With the beat m on the port and o owed, the sink is owed R after that beat.
Port(m, o, R) ==
    IF m = NULL THEN o = R
    ELSE /\ o # <<>> /\ Head(o).from <= Head(o).to
         /\ m = DueOf(Head(o)) /\ R = AfterBeat(o)

\* The last place of the payload that is among the first fed bytes of a frame, s when
\* there is none, under the control values s (skip), l (keep_len) and d (drop).
EndAt(s, l, d, fed) ==
    LET m == IF fed <= s THEN s ELSE fed IN
    IF d THEN s ELSE IF l = 0 \/ m <= s + l THEN m ELSE s + l

\* What is left of the header and of the budget after the first fed bytes.
SkipAt(s, fed) == IF fed <= s THEN s - fed ELSE 0
LeftAt(s, l, d, fed) == IF l = 0 THEN 0 ELSE l - (EndAt(s, l, d, fed) - s)

\* These control values cut the payload of the reference out of frame k.
Cuts(k, s, l, d) ==
    LET p == Golden(Frames[k])
        e == EndAt(s, l, d, Frames[k].len)
    IN  (p[1] > p[2] /\ e = s) \/ (p[1] = s + 1 /\ p[2] = e /\ e > s)

\* The gearbox is between frames; of a payload it still has from .. to, all of it.
Idle(no, k, from, to) ==
    /\ in_frame = FALSE
    /\ no \in 0 .. MaxFrames /\ k \in Kinds /\ from \in Nat \ {0} /\ to \in Nat
    /\ from <= to + 1 /\ to + 1 - from < KEEP_W
    /\ from <= to => to <= Frames[k].len
    /\ buf_q = Bytes(no, k, from, to)
    /\ from <= to => done_q /\ ~drop_q

\* The gearbox is within frame no; of its first fed bytes it still has the payload from
\* place from on.
InFrame(no, k, s, l, d, fed, from) ==
    LET at == EndAt(s, l, d, fed) IN
    /\ in_frame = TRUE
    /\ no \in 0 .. MaxFrames /\ k \in Kinds /\ s \in Nat /\ l \in Nat /\ d \in BOOLEAN
    /\ fed \in 1 .. Frames[k].len - 1
    /\ from \in s + 1 .. at + 1 /\ at + 1 - from < KEEP_W
    /\ buf_q = Bytes(no, k, from, at)
    /\ drop_q = d /\ bounded_q = (l # 0)
    /\ done_q = (l # 0 /\ at = s + l)
    /\ skip_q = SkipAt(s, fed) /\ left_q = LeftAt(s, l, d, fed)

GearTypes ==
    /\ in_frame \in BOOLEAN /\ drop_q \in BOOLEAN /\ bounded_q \in BOOLEAN /\ done_q \in BOOLEAN
    /\ skip_q \in Nat /\ left_q \in Nat

-----------------------------------------------------------------------------
(* The inductive invariant.                                                *)

\* The control values of the frame in the gearbox.
Ctrl ==
    LET f == Frames[frame.kind] IN
    CASE layer = "udp" -> [s |-> 8, l |-> IF f.ulen > 8 THEN f.ulen - 8 ELSE 0,
                           d |-> ~f.port \/ f.ulen <= 8 \/ f.len < 8]
      [] layer = "gear" -> [s |-> f.skip, l |-> f.keep_len, d |-> f.drop]
      [] OTHER -> [s |-> skip_r, l |-> keep_r, d |-> drop_r]

\* The bytes of the source's frame that the gearbox has accepted.
Fed ==
    IF ~Sniffs(layer) THEN frame.sent
    ELSE IF state = "SNIFF" THEN 0
    ELSE IF drain_idx < nheld THEN KEEP_W * drain_idx
    ELSE frame.sent

\* The gearbox is within the source's frame.
Within == Fed > 0 /\ Fed < Frames[frame.kind].len

\* The payload of a frame that waits in front of the gearbox.
Waiting ==
    IF Sniffs(layer) /\ nheld > 0 /\ drain_idx = 0
    THEN LET p == Golden(Frames[frame.kind]) IN Remaining(frame.no, frame.kind, p[1], p[2])
    ELSE <<>>

SourceInv ==
    /\ layer \in Layers /\ s_axis_tvalid \in BOOLEAN
    /\ frame \in [no : 0 .. MaxFrames, kind : Kinds, sent : Nat \ {0}]
    /\ frame.sent <= Frames[frame.kind].len
    /\ Sending => Frames[frame.kind].layer = layer /\ frame.no > 0
    /\ s_axis_tvalid => Sending \/ frame.no < MaxFrames
    /\ owed \in Seq(Pieces)

\* What the header registers say of the frame while it is sniffed.
SniffInv(k) ==
    LET f == Frames[k] IN
    CASE layer = "eth" -> nheld <= 2 /\ (nheld = 2 => f.ethertype = "vlan")
      [] layer = "ipv4" -> /\ ihl_r = f.ihl /\ total_r = f.total /\ f.ihl > KEEP_W * nheld
                           /\ bad_r = (~f.v4 \/ f.ihl < 20 \/ (nheld > 1 /\ ~f.udp))
      [] layer = "mold" -> nheld <= 2

\* The first n beats of frame no.
HeldBeats(no, k, n) == [i \in 1 .. n |-> BeatAt(no, k, KEEP_W * (i - 1))]

HoldInv ==
    LET f == Frames[frame.kind] IN
    /\ state \in {"SNIFF", "EMIT"} /\ nheld \in Nat /\ drain_idx \in 0 .. nheld
    /\ skip_r \in Nat /\ keep_r \in Nat /\ drop_r \in BOOLEAN
    /\ ihl_r \in Nat /\ total_r \in Nat /\ bad_r \in BOOLEAN
    /\ ~Sniffs(layer) => state = "SNIFF" /\ nheld = 0
    /\ hb = HeldBeats(frame.no, frame.kind, nheld)
    /\ nheld > 0 => f.layer = layer /\ KEEP_W * (nheld - 1) < f.len /\ nheld <= HB_DEPTH[layer]
    /\ state = "SNIFF" => /\ drain_idx = 0
                          /\ nheld = 0 /\ Sniffs(layer) => ~Sending
                          /\ nheld > 0 => Sending /\ frame.sent = KEEP_W * nheld /\ SniffInv(frame.kind)
    /\ state = "EMIT" => /\ nheld > 0 /\ Cuts(frame.kind, skip_r, keep_r, drop_r)
                         /\ draining => frame.sent = Min({KEEP_W * nheld, f.len})
                         /\ ~draining => Sending /\ frame.sent >= KEEP_W * nheld

\* Between frames, with Y to come after what the gearbox has.
IdlePort(Y) ==
    \E no \in 0 .. MaxFrames, k \in Kinds : \E from \in Nat, to \in Nat :
        Idle(no, k, from, to) /\ Port(m_axis, owed, Remaining(no, k, from, to) \o Y)

\* Within frame no, whose first fed bytes are in.
InPort(no, k, s, l, d, fed) ==
    \E from \in Nat : /\ InFrame(no, k, s, l, d, fed, from)
                      /\ Port(m_axis, owed, Remaining(no, k, from, EndAt(s, l, d, Frames[k].len)))

GearInv ==
    IF Within THEN InPort(frame.no, frame.kind, Ctrl.s, Ctrl.l, Ctrl.d, Fed) ELSE IdlePort(Waiting)

RegInv ==
    /\ buf_q = <<>> /\ (m_axis = NULL => skid = NULL)
    /\ IF skid = NULL
       THEN Port(m_axis, owed, Remaining(frame.no, frame.kind, frame.sent + 1, Frames[frame.kind].len))
       ELSE \E sent \in 0 .. Frames[frame.kind].len - 1 :
               /\ skid = BeatAt(frame.no, frame.kind, sent)
               /\ frame.sent = Min({sent + KEEP_W, Frames[frame.kind].len})
               /\ Port(m_axis, owed, Remaining(frame.no, frame.kind, sent + 1, Frames[frame.kind].len))

FeedInv ==
    /\ SourceInv /\ HoldInv /\ GearTypes
    /\ layer # "reg" => GearInv
    /\ layer = "reg" => RegInv

-----------------------------------------------------------------------------
(* Bytes.                                                                  *)

\* The lesser of two numbers.
LEMMA MinTwo ==
    ASSUME NEW a \in Int, NEW b \in Int
    PROVE  Min({a, b}) = IF a <= b THEN a ELSE b
  <1> DEFINE c == IF a <= b THEN a ELSE b
             S == {a, b}
  <1>1. c \in S /\ \A y \in S : c <= y
    OBVIOUS
  <1>2. \A x \in S : (\A y \in S : x <= y) => x = c
    OBVIOUS
  <1>3. Min(S) = CHOOSE x \in S : \A y \in S : x <= y
    BY DEF Min
  <1> HIDE DEF c, S
  <1>4. Min(S) = c
    BY <1>1, <1>2, <1>3
  <1> QED
    BY <1>4 DEF c, S

\* The greater of zero and a number.
LEMMA MaxZero ==
    ASSUME NEW a \in Int
    PROVE  Max({0, a}) = IF a <= 0 THEN 0 ELSE a
  <1> DEFINE c == IF a <= 0 THEN 0 ELSE a
             S == {0, a}
  <1>1. c \in S /\ \A y \in S : c >= y
    OBVIOUS
  <1>2. \A x \in S : (\A y \in S : x >= y) => x = c
    OBVIOUS
  <1>3. Max(S) = CHOOSE x \in S : \A y \in S : x >= y
    BY DEF Max
  <1> HIDE DEF c, S
  <1>4. Max(S) = c
    BY <1>1, <1>2, <1>3
  <1> QED
    BY <1>4 DEF c, S

\* The byte at a place of frame no.
ByteAt(no, k, i) ==
    <<no, i, IF Frames[k].layer = "mold" /\ i > 20 THEN Frames[k].payload[i - 20] ELSE 0>>

ByteSet(no, k) == {ByteAt(no, k, i) : i \in Int}

\* The bytes from .. to are a sequence, one for each place.
LEMMA BytesAre ==
    ASSUME NEW no, NEW k, NEW from \in Int, NEW to \in Int
    PROVE  LET n == IF to < from THEN 0 ELSE to - from + 1
               b == Bytes(no, k, from, to)
           IN  /\ b \in Seq(ByteSet(no, k)) /\ Len(b) = n
               /\ \A j \in 1 .. n : b[j] = ByteAt(no, k, from + j - 1)
  <1> DEFINE n == IF to < from THEN 0 ELSE to - from + 1
             b == Bytes(no, k, from, to)
             S == ByteSet(no, k)
  <1>1. n \in Nat /\ Max({0, to - from + 1}) = n
    BY MaxZero
  <1>2. b = [j \in 1 .. n |-> <<no, from + j - 1,
                IF Frames[k].layer = "mold" /\ from + j > 21 THEN Frames[k].payload[from + j - 21] ELSE 0>>]
    BY <1>1 DEF Bytes
  <1>3. ASSUME NEW j \in 1 .. n
        PROVE  b[j] = ByteAt(no, k, from + j - 1)
    <2>1. j \in Int /\ n \in Int
      BY <1>1
    <2>2. from + j > 21 <=> from + j - 1 > 20
      BY <2>1
    <2>3. from + j - 21 = from + j - 1 - 20
      BY <2>1
    <2> QED
      BY <1>2, <2>2, <2>3 DEF ByteAt
  <1>4. ASSUME NEW j \in 1 .. n
        PROVE  ByteAt(no, k, from + j - 1) \in S
    <2>1. from + j - 1 \in Int
      BY <1>1
    <2> QED
      BY <2>1 DEF ByteSet
  <1>5. b = [j \in 1 .. n |-> b[j]]
    BY <1>2
  <1> HIDE DEF n, b, S
  <1>6. b \in Seq(S) /\ Len(b) = n
    BY <1>1, <1>3, <1>4, <1>5
  <1> QED
    BY <1>6, <1>3 DEF n, b, S

\* There are none exactly when the range is empty.
LEMMA BytesEmpty ==
    ASSUME NEW no, NEW k, NEW from \in Int, NEW to \in Int
    PROVE  Bytes(no, k, from, to) = <<>> <=> to < from
  <1> DEFINE b == Bytes(no, k, from, to)
  <1>1. b \in Seq(ByteSet(no, k)) /\ Len(b) = (IF to < from THEN 0 ELSE to - from + 1)
    BY BytesAre
  <1> HIDE DEF b
  <1>2. b = <<>> <=> Len(b) = 0
    BY <1>1, EmptySeq
  <1> QED
    BY <1>1, <1>2 DEF b

\* The places i .. j of the bytes from .. to are the bytes x .. y.
Stretch(no, k, from, to, i, j, x, y) ==
    SubSeq(Bytes(no, k, from, to), i, j) = Bytes(no, k, x, y)

\* A stretch of them is the bytes of that stretch.
LEMMA BytesSub ==
    ASSUME NEW no, NEW k, NEW from \in Int, NEW to \in Int, NEW i \in Int, NEW j \in Int,
           NEW x \in Int, NEW y \in Int, x = from + i - 1, y = from + j - 1,
           from <= x, x <= y + 1, y <= to
    PROVE  Stretch(no, k, from, to, i, j, x, y)
  <1> DEFINE b == Bytes(no, k, from, to)
             c == Bytes(no, k, x, y)
             S == ByteSet(no, k)
             n == to - from + 1
             d == SubSeq(b, i, j)
  <1>1. b \in Seq(S) /\ Len(b) = n /\ \A m \in 1 .. n : b[m] = ByteAt(no, k, from + m - 1)
    <2>1. (IF to < from THEN 0 ELSE to - from + 1) = n
      OBVIOUS
    <2> QED
      BY <2>1, BytesAre
  <1>2. /\ c \in Seq(S) /\ Len(c) = j - i + 1
        /\ \A m \in 1 .. j - i + 1 : c[m] = ByteAt(no, k, x + m - 1)
    <2>1. (IF y < x THEN 0 ELSE y - x + 1) = j - i + 1
      OBVIOUS
    <2> QED
      BY <2>1, BytesAre
  <1>3. j <= n /\ n \in Nat /\ 1 <= i /\ i <= j + 1
    OBVIOUS
  <1> HIDE DEF b, c, S, n
  <1>4. \A m \in i .. j : b[m] \in S
    <2> SUFFICES ASSUME NEW m \in i .. j PROVE b[m] \in S
      OBVIOUS
    <2>1. m \in 1 .. Len(b)
      BY <1>1, <1>3
    <2> QED
      BY <1>1, <2>1, ElementOfSeq
  <1>5. /\ d \in Seq(S) /\ Len(d) = j - i + 1
        /\ \A m \in 1 .. j - i + 1 : d[m] = b[i + m - 1]
    BY <1>3, <1>4, SubSeqProperties
  <1> HIDE DEF d
  <1>6. ASSUME NEW m \in 1 .. j - i + 1
        PROVE  d[m] = c[m]
    <2>1. i + m - 1 \in 1 .. n
      BY <1>3
    <2>2. d[m] = ByteAt(no, k, from + (i + m - 1) - 1)
      BY <1>5, <1>1, <2>1
    <2>3. from + (i + m - 1) - 1 = x + m - 1
      OBVIOUS
    <2> QED
      BY <1>2, <2>2, <2>3
  <1>7. d = c
    BY <1>2, <1>5, <1>6, SeqEqual
  <1> QED
    BY <1>7 DEF b, c, d, Stretch

\* The bytes from .. mid and next .. to, put together.
Joined(no, k, from, mid, next, to) ==
    Bytes(no, k, from, mid) \o Bytes(no, k, next, to) = Bytes(no, k, from, to)

\* Adjacent stretches join.
LEMMA BytesCat ==
    ASSUME NEW no, NEW k, NEW from \in Int, NEW mid \in Int, NEW next \in Int, NEW to \in Int,
           from <= next, next = mid + 1, mid <= to
    PROVE  Joined(no, k, from, mid, next, to)
  <1> DEFINE b == Bytes(no, k, from, to)
             S == ByteSet(no, k)
             n == to - from + 1
             m == mid - from + 1
             p == m + 1
  <1>1. b \in Seq(S) /\ Len(b) = n
    BY BytesAre
  <1>a. n \in Int /\ m \in Int /\ p \in Int /\ p = m + 1
    OBVIOUS
  <1>2. SubSeq(b, 1, m) = Bytes(no, k, from, mid)
    <2>1. 1 \in Int /\ from = from + 1 - 1 /\ mid = from + m - 1 /\ from <= from /\ from <= mid + 1
      OBVIOUS
    <2> HIDE DEF b, n, S, p, m
    <2>2. Stretch(no, k, from, to, 1, m, from, mid)
      BY <1>a, <2>1, BytesSub
    <2> QED
      BY <2>2 DEF b, Stretch
  <1>3. SubSeq(b, p, n) = Bytes(no, k, next, to)
    <2>1. next = from + p - 1 /\ to = from + n - 1 /\ next <= to + 1 /\ to <= to
      OBVIOUS
    <2> HIDE DEF b, n, S, p, m
    <2>2. Stretch(no, k, from, to, p, n, next, to)
      BY <1>a, <2>1, BytesSub
    <2> QED
      BY <2>2 DEF b, Stretch
  <1>4. SubSeq(b, 1, n) = b
    <2> HIDE DEF b, S, n
    <2> QED
      BY <1>1, SubSeqFull
  <1>5. 1 \in 1 .. n + 1 /\ m \in 1 - 1 .. n /\ n \in m .. n
    OBVIOUS
  <1> HIDE DEF b, S, n, m, p
  <1>6. SubSeq(b, 1, m) \o SubSeq(b, p, n) = SubSeq(b, 1, n)
    BY <1>1, <1>5, <1>a, ConcatAdjacentSubSeq
  <1> QED
    BY <1>2, <1>3, <1>4, <1>6 DEF b, Joined

-----------------------------------------------------------------------------
(* What is owed, and the beat on the port.                                 *)

\* Of from .. to the port got nothing, or the next beat and from2 .. to is left.
Emitted(no, k, from, from2, to, m) ==
    \/ m = NULL /\ from2 = from
    \/ /\ from <= to /\ m # NULL /\ m = DueOf(Piece(no, k, from, to))
       /\ from2 = IF from + KEEP_W > to THEN to + 1 ELSE from + KEEP_W

\* A beat of a payload is not NULL.
LEMMA DueIsBeat ==
    ASSUME NEW no \in 0 .. MaxFrames, NEW k \in Kinds, NEW from \in Nat \ {0}, NEW to \in Nat,
           from <= to, to <= Frames[k].len
    PROVE  DueOf(Piece(no, k, from, to)) # NULL
  <1> DEFINE e == Min({from + KEEP_W - 1, to})
             b == from + KEEP_W > to
  <1>1. KEEP_W \in Nat \ {0} /\ Frames[k].len \in Nat
    BY GearAssumption, FrameAssumption DEF FrameOK
  <1>2. e = IF from + KEEP_W - 1 <= to THEN from + KEEP_W - 1 ELSE to
    BY <1>1, MinTwo
  <1>3. Min({from + KEEP_W - 1, Frames[k].len})
            = IF from + KEEP_W - 1 <= Frames[k].len THEN from + KEEP_W - 1 ELSE Frames[k].len
    BY <1>1, MinTwo
  <1>4. e \in from .. Min({from + KEEP_W - 1, Frames[k].len})
    BY <1>1, <1>2, <1>3
  <1>5. b \in BOOLEAN /\ from \in 1 .. Frames[k].len
    BY <1>1
  <1>6. DueOf(Piece(no, k, from, to)) = [bytes |-> Bytes(no, k, from, e), last |-> b]
    BY DEF DueOf, Piece
  <1> HIDE DEF e, b
  <1> QED
    BY <1>4, <1>5, <1>6, FrameAssumption

\* A rest of a payload is a sequence of pieces.
LEMMA RemainingType ==
    ASSUME NEW no \in 0 .. MaxFrames, NEW k \in Kinds, NEW from \in Nat, NEW to \in Nat
    PROVE  Remaining(no, k, from, to) \in Seq(Pieces)
  <1> DEFINE p == Piece(no, k, from, to)
  <1>1. p \in Pieces
    BY DEF Piece, Pieces
  <1> HIDE DEF p
  <1>2. <<p>> \in Seq(Pieces) /\ <<>> \in Seq(Pieces)
    BY <1>1
  <1> QED
    BY <1>2 DEF Remaining, p

\* When the output is free, what is owed after this edge's take is what the port says.
LEMMA PortFree ==
    ASSUME NEW R, Port(m_axis, owed, R), NEW ready \in BOOLEAN, out_free(ready)
    PROVE  AfterTake(ready) = R
  BY DEF Port, AfterTake, out_free, AfterBeat

\* Replacing the first of a sequence leaves what is appended to it alone.
LEMMA ExceptFirst ==
    ASSUME NEW S, NEW o \in Seq(S), NEW X \in Seq(S), NEW p \in S, o # <<>>
    PROVE  [o \o X EXCEPT ![1] = p] = [o EXCEPT ![1] = p] \o X
  <1> DEFINE z == o \o X
             a == [z EXCEPT ![1] = p]
             b == [o EXCEPT ![1] = p]
             c == b \o X
  <1>1. Len(o) \in Nat /\ Len(X) \in Nat /\ 1 \in 1 .. Len(o)
    OBVIOUS
  <1>2. /\ z \in Seq(S) /\ Len(z) = Len(o) + Len(X)
        /\ \A j \in 1 .. Len(o) + Len(X) : z[j] = IF j <= Len(o) THEN o[j] ELSE X[j - Len(o)]
    BY ConcatProperties
  <1>3. /\ b \in Seq(S) /\ Len(b) = Len(o)
        /\ \A j \in 1 .. Len(o) : b[j] = IF j = 1 THEN p ELSE o[j]
    BY <1>1, ExceptSeq
  <1> HIDE DEF z, b
  <1>4. 1 \in 1 .. Len(z)
    BY <1>1, <1>2
  <1>5. /\ a \in Seq(S) /\ Len(a) = Len(z)
        /\ \A j \in 1 .. Len(z) : a[j] = IF j = 1 THEN p ELSE z[j]
    BY <1>2, <1>4, ExceptSeq
  <1>6. /\ c \in Seq(S) /\ Len(c) = Len(b) + Len(X)
        /\ \A j \in 1 .. Len(b) + Len(X) : c[j] = IF j <= Len(b) THEN b[j] ELSE X[j - Len(b)]
    BY <1>3, ConcatProperties
  <1> HIDE DEF a, c
  <1>7. Len(a) = Len(c)
    BY <1>2, <1>3, <1>5, <1>6
  <1>8. ASSUME NEW j \in 1 .. Len(a)
        PROVE  a[j] = c[j]
    <2>1. j \in 1 .. Len(o) + Len(X) /\ j \in 1 .. Len(z) /\ j \in 1 .. Len(b) + Len(X)
      BY <1>2, <1>3, <1>5
    <2>2. CASE j = 1
      BY <2>1, <2>2, <1>1, <1>3, <1>5, <1>6
    <2>3. CASE j # 1 /\ j <= Len(o)
      <3>1. j \in 1 .. Len(o)
        BY <2>1, <2>3, <1>1
      <3> QED
        BY <2>1, <2>3, <3>1, <1>2, <1>3, <1>5, <1>6
    <2>4. CASE j # 1 /\ ~(j <= Len(o))
      BY <2>1, <2>4, <1>2, <1>3, <1>5, <1>6
    <2> QED
      BY <2>2, <2>3, <2>4
  <1>9. a = c
    BY <1>5, <1>6, <1>7, <1>8, SeqEqual
  <1> QED
    BY <1>9 DEF a, b, c, z

\* When it is not, nothing is taken and what is appended is owed later.
LEMMA PortHeld ==
    ASSUME NEW R, Port(m_axis, owed, R), NEW ready \in BOOLEAN, ~out_free(ready),
           owed \in Seq(Pieces), NEW X \in Seq(Pieces)
    PROVE  /\ AfterTake(ready) = owed
           /\ Port(m_axis, owed \o X, R \o X)
  <1>1. m_axis # NULL /\ ~ready
    BY DEF out_free
  <1>2. owed # <<>> /\ m_axis = DueOf(Head(owed)) /\ R = AfterBeat(owed)
    BY <1>1 DEF Port
  <1>3. AfterTake(ready) = owed
    BY <1>1 DEF AfterTake
  <1>4. owed \o X # <<>> /\ Head(owed \o X) = Head(owed)
    BY <1>2
  <1>5. AfterBeat(owed \o X) = AfterBeat(owed) \o X
    <2>1. CASE Head(owed).from + KEEP_W > Head(owed).to
      <3>1. AfterBeat(owed) = Tail(owed) /\ AfterBeat(owed \o X) = Tail(owed \o X)
        BY <2>1, <1>4 DEF AfterBeat
      <3>2. Tail(owed \o X) = Tail(owed) \o X
        BY <1>2
      <3> QED
        BY <3>1, <3>2
    <2>2. CASE ~(Head(owed).from + KEEP_W > Head(owed).to)
      <3> DEFINE p == [owed[1] EXCEPT !.from = @ + KEEP_W]
             z == owed \o X
      <3>1. /\ AfterBeat(owed) = [owed EXCEPT ![1] = p]
            /\ AfterBeat(z) = [z EXCEPT ![1] = [z[1] EXCEPT !.from = @ + KEEP_W]]
        <4> HIDE DEF z
        <4>1. AfterBeat(owed) = [owed EXCEPT ![1] = p]
          BY <2>2 DEF AfterBeat
        <4>2. AfterBeat(z) = [z EXCEPT ![1] = [z[1] EXCEPT !.from = @ + KEEP_W]]
          BY <2>2, <1>4 DEF AfterBeat, z
        <4> QED
          BY <4>1, <4>2
      <3>2. (owed \o X)[1] = owed[1] /\ 1 \in 1 .. Len(owed)
        BY <1>2
      <3>3. p \in Pieces
        <4>1. owed[1] \in Pieces
          BY <3>2, ElementOfSeq
        <4>2. ASSUME NEW q \in Pieces PROVE [q EXCEPT !.from = @ + KEEP_W] \in Pieces
          <5>1. q.no \in 0 .. MaxFrames /\ q.kind \in Kinds /\ q.from \in Nat /\ q.to \in Nat
            BY DEF Pieces
          <5>2. q.from + KEEP_W \in Nat
            BY <5>1, GearAssumption
          <5>3. q = Piece(q.no, q.kind, q.from, q.to)
            BY DEF Pieces, Piece
          <5>4. [q EXCEPT !.from = @ + KEEP_W] = Piece(q.no, q.kind, q.from + KEEP_W, q.to)
            BY <5>3 DEF Piece
          <5> QED
            BY <5>1, <5>2, <5>4 DEF Pieces, Piece
        <4> QED
          BY <4>1, <4>2
      <3> HIDE DEF p
      <3>4. [owed \o X EXCEPT ![1] = p] = [owed EXCEPT ![1] = p] \o X
        BY <1>2, <3>3, ExceptFirst
      <3> QED
        BY <3>1, <3>2, <3>4 DEF p
    <2> QED
      BY <2>1, <2>2
  <1>6. Port(m_axis, owed \o X, R \o X)
    BY <1>1, <1>2, <1>4, <1>5 DEF Port
  <1> QED
    BY <1>3, <1>6

\* The port after an edge with a free output.
LEMMA PortStep ==
    ASSUME NEW no \in 0 .. MaxFrames, NEW k \in Kinds, NEW from \in Nat, NEW to \in Nat,
           NEW from2, NEW m, NEW Y \in Seq(Pieces), Emitted(no, k, from, from2, to, m)
    PROVE  Port(m, Remaining(no, k, from, to) \o Y, Remaining(no, k, from2, to) \o Y)
  <1> DEFINE p == Piece(no, k, from, to)
             o == <<p>> \o Y
  <1>1. CASE m = NULL /\ from2 = from
    BY <1>1 DEF Port
  <1>2. CASE /\ from <= to /\ m # NULL /\ m = DueOf(p)
             /\ from2 = IF from + KEEP_W > to THEN to + 1 ELSE from + KEEP_W
    <2>1. Remaining(no, k, from, to) \o Y = o
      BY <1>2 DEF Remaining
    <2>2. p \in Pieces /\ p.from = from /\ p.to = to
      BY DEF Pieces, Piece
    <2> HIDE DEF p
    <2>3. o # <<>> /\ Head(o) = p /\ Tail(o) = Y
      BY <2>2
    <2>4. AfterBeat(o) = Remaining(no, k, from2, to) \o Y
      <3>1. CASE from + KEEP_W > to
        <4>1. AfterBeat(o) = Y
          BY <3>1, <2>2, <2>3 DEF AfterBeat
        <4>2. Remaining(no, k, from2, to) = <<>>
          BY <3>1, <1>2 DEF Remaining
        <4> QED
          BY <4>1, <4>2
      <3>2. CASE ~(from + KEEP_W > to)
        <4> DEFINE q == Piece(no, k, from + KEEP_W, to)
        <4>1. AfterBeat(o) = [o EXCEPT ![1].from = @ + KEEP_W]
          BY <3>2, <2>2, <2>3 DEF AfterBeat
        <4>2. o[1] = p /\ 1 \in 1 .. Len(o) /\ o \in Seq(Pieces)
          BY <2>2
        <4>3. [p EXCEPT !.from = @ + KEEP_W] = q
          BY DEF Piece, p
        <4>4. AfterBeat(o) = [o EXCEPT ![1] = q]
          BY <4>1, <4>2, <4>3
        <4>5. Remaining(no, k, from2, to) = <<q>>
          BY <3>2, <1>2, GearAssumption DEF Remaining
        <4>6. q \in Pieces
          BY GearAssumption DEF Pieces, Piece
        <4> HIDE DEF q
        <4>7. [o EXCEPT ![1] = q] = <<q>> \o Y
          <5> DEFINE u == <<p>>
          <5>1. u \in Seq(Pieces) /\ u # <<>> /\ [u EXCEPT ![1] = q] = <<q>>
            BY <2>2
          <5> HIDE DEF u
          <5>2. [u \o Y EXCEPT ![1] = q] = [u EXCEPT ![1] = q] \o Y
            BY <5>1, <4>6, ExceptFirst
          <5> QED
            BY <5>1, <5>2 DEF u
        <4> QED
          BY <4>4, <4>5, <4>7
      <3> QED
        BY <3>1, <3>2
    <2> QED
      BY <1>2, <2>1, <2>2, <2>3, <2>4 DEF Port
  <1> QED
    BY <1>1, <1>2 DEF Emitted

-----------------------------------------------------------------------------
(* The gearbox.                                                            *)

\* The end of the payload before and after the bytes up to fed2.
EndMoves(s, l, d, fed, fed2) ==
    LET at == EndAt(s, l, d, fed)
        to == EndAt(s, l, d, fed2)
    IN  /\ at \in Nat /\ to \in Nat /\ s <= at /\ at <= to /\ to - at <= fed2 - fed
        /\ l # 0 => to <= s + l
        /\ fed = 0 => at = s
        /\ d => to = s
        /\ l # 0 /\ at = s + l => to = at
        /\ fed < fed2 /\ ~(l # 0 /\ at = s + l) => at < to \/ at = s
        /\ to > s => to <= fed2

\* How the end of the payload moves as a frame is fed in.
LEMMA EndFacts ==
    ASSUME NEW s \in Nat, NEW l \in Nat, NEW d \in BOOLEAN, NEW fed \in Nat, NEW fed2 \in Nat, fed <= fed2
    PROVE  EndMoves(s, l, d, fed, fed2)
  BY DEF EndMoves, EndAt

\* Of the beat with the bytes fed + 1 .. fed2 those behind place m are left after skip.
SkipRight(no, k, fed, fed2, skip, m) ==
    LET b == Bytes(no, k, fed + 1, fed2)
        rest == SubSeq(b, skip + 1, Len(b))
    IN  /\ Len(b) = fed2 - fed
        /\ fed2 <= m => rest = <<>>
        /\ fed2 > m => rest = Bytes(no, k, m + 1, fed2) /\ Len(rest) = fed2 - m

\* The part of a beat behind the header.
LEMMA RestOfBeat ==
    ASSUME NEW no, NEW k, NEW s \in Nat, NEW fed \in Nat, NEW fed2 \in Nat, fed <= fed2,
           NEW skip, skip = IF fed <= s THEN s - fed ELSE 0,
           NEW m, m = IF fed <= s THEN s ELSE fed
    PROVE  SkipRight(no, k, fed, fed2, skip, m)
  <1> DEFINE b == Bytes(no, k, fed + 1, fed2)
             n == fed2 - fed
             i == skip + 1
             x == m + 1
             f1 == fed + 1
  <1>1. n \in Int /\ i \in Int /\ x \in Int /\ f1 \in Int /\ m \in Int
    OBVIOUS
  <1>2. Len(b) = n
    <2>1. (IF fed2 < f1 THEN 0 ELSE fed2 - f1 + 1) = n
      OBVIOUS
    <2> HIDE DEF f1, n
    <2>2. Len(Bytes(no, k, f1, fed2)) = (IF fed2 < f1 THEN 0 ELSE fed2 - f1 + 1)
      BY <1>1, BytesAre
    <2> QED
      BY <2>1, <2>2 DEF f1
  <1>3. fed2 <= m => SubSeq(b, i, n) = <<>>
    <2>1. fed2 <= m => n < i
      OBVIOUS
    <2> HIDE DEF b, n, i
    <2> QED
      BY <1>1, <2>1, SubSeqEmpty
  <1>4. ASSUME fed2 > m
        PROVE  SubSeq(b, i, n) = Bytes(no, k, x, fed2) /\ Len(Bytes(no, k, x, fed2)) = fed2 - m
    <2>1. x = f1 + i - 1 /\ fed2 = f1 + n - 1 /\ f1 <= x /\ x <= fed2 + 1 /\ fed2 <= fed2
      BY <1>4
    <2>2. (IF fed2 < x THEN 0 ELSE fed2 - x + 1) = fed2 - m
      BY <1>4
    <2>a. b = Bytes(no, k, f1, fed2) /\ fed2 \in Int
      OBVIOUS
    <2> HIDE DEF b, n, i, x, f1
    <2>3. Stretch(no, k, f1, fed2, i, n, x, fed2)
      BY <1>1, <2>1, <2>a, BytesSub
    <2>4. Len(Bytes(no, k, x, fed2)) = (IF fed2 < x THEN 0 ELSE fed2 - x + 1)
      BY <1>1, BytesAre
    <2> QED
      BY <2>a, <2>2, <2>3, <2>4 DEF Stretch
  <1> HIDE DEF b, n
  <1> QED
    BY <1>2, <1>3, <1>4 DEF b, n, SkipRight

\* What the loop over the lanes of the beat fed + 1 .. fed2 keeps and leaves.
GatherOK(no, k, s, l, d, fed, fed2) ==
    LET at == EndAt(s, l, d, fed2)
        g == Gather(Bytes(no, k, fed + 1, fed2), SkipAt(s, fed), LeftAt(s, l, d, fed), l # 0, d)
    IN  /\ g.kept = Bytes(no, k, EndAt(s, l, d, fed) + 1, at)
        /\ g.skip = SkipAt(s, fed2) /\ g.left = LeftAt(s, l, d, fed2)

\* The loop over the lanes keeps the payload of the beat, and the registers go on.
LEMMA GatherRight ==
    ASSUME NEW no, NEW k, NEW s \in Nat, NEW l \in Nat, NEW d \in BOOLEAN,
           NEW fed \in Nat, NEW fed2 \in Nat, fed <= fed2
    PROVE  GatherOK(no, k, s, l, d, fed, fed2)
  <1> DEFINE b == Bytes(no, k, fed + 1, fed2)
             at0 == EndAt(s, l, d, fed)
             at == EndAt(s, l, d, fed2)
             skip == SkipAt(s, fed)
             left == LeftAt(s, l, d, fed)
             rest == SubSeq(b, skip + 1, Len(b))
             bounded == l # 0
             kept == IF d THEN <<>> ELSE IF bounded THEN SubSeq(rest, 1, Min({left, Len(rest)})) ELSE rest
             m == IF fed <= s THEN s ELSE fed
             g == Gather(b, skip, left, bounded, d)
  <1>1. /\ Len(b) = fed2 - fed
        /\ fed2 <= m => rest = <<>>
        /\ fed2 > m => rest = Bytes(no, k, m + 1, fed2) /\ Len(rest) = fed2 - m
    <2> HIDE DEF m
    <2>1. m = IF fed <= s THEN s ELSE fed
      BY DEF m
    <2>2. skip = IF fed <= s THEN s - fed ELSE 0
      BY DEF SkipAt
    <2> HIDE DEF skip
    <2>3. SkipRight(no, k, fed, fed2, skip, m)
      BY <2>1, <2>2, RestOfBeat
    <2> QED
      BY <2>3 DEF SkipRight
  <1>2. /\ g.kept = kept /\ g.skip = Max({0, skip - Len(b)})
        /\ g.left = IF bounded THEN left - Len(kept) ELSE left
    <2>1. g = [kept |-> kept, skip |-> Max({0, skip - Len(b)}),
               left |-> IF bounded THEN left - Len(kept) ELSE left]
      BY Zenon DEF Gather
    <2> HIDE DEF g, kept, b
    <2> QED
      BY <2>1
  <1>3. at0 \in Nat /\ at \in Nat /\ s <= at0 /\ at0 <= at /\ (l # 0 => at <= s + l) /\ left \in Nat
    <2>1. at0 \in Nat /\ at \in Nat /\ s <= at0 /\ at0 <= at /\ (l # 0 => at <= s + l)
      BY EndFacts DEF EndMoves
    <2> HIDE DEF at, at0
    <2> QED
      BY <2>1 DEF at0, LeftAt
  <1>4. kept = Bytes(no, k, at0 + 1, at)
    <2>0. ASSUME at0 = at, kept = <<>>
          PROVE  kept = Bytes(no, k, at0 + 1, at)
      <3> DEFINE x == at0 + 1
      <3>1. x \in Int /\ at < x
        BY <1>3, <2>0
      <3> HIDE DEF x, at, at0
      <3>2. Bytes(no, k, x, at) = <<>>
        BY <1>3, <3>1, BytesEmpty
      <3> QED
        BY <2>0, <3>2 DEF x
    <2>1. CASE d
      BY <2>0, <2>1 DEF EndAt
    <2>2. CASE ~d /\ fed2 <= m
      <3>1. at0 = at
        BY <2>2 DEF EndAt
      <3>2. rest = <<>> /\ Len(rest) = 0
        BY <1>1, <2>2
      <3>3. Min({left, Len(rest)}) = 0
        <4>1. Min({left, 0}) = IF left <= 0 THEN left ELSE 0
          BY <1>3, MinTwo
        <4> HIDE DEF rest
        <4> QED
          BY <1>3, <3>2, <4>1
      <3>4. kept = <<>>
        <4> HIDE DEF rest
        <4>1. SubSeq(rest, 1, 0) = <<>>
          BY SubSeqEmpty
        <4> QED
          BY <3>2, <3>3, <4>1
      <3> QED
        BY <2>0, <3>1, <3>4
    <2>3. CASE ~d /\ fed2 > m /\ l = 0
      <3>1. at0 = m /\ at = fed2
        BY <2>3 DEF EndAt
      <3> QED
        BY <1>1, <2>3, <3>1
    <2>4. CASE ~d /\ fed2 > m /\ l # 0
      <3> DEFINE n == Min({left, Len(rest)})
      <3>1. rest = Bytes(no, k, m + 1, fed2) /\ Len(rest) = fed2 - m
        BY <1>1, <2>4
      <3>2. n = IF left <= fed2 - m THEN left ELSE fed2 - m
        <4> DEFINE z == fed2 - m
        <4>1. z \in Int
          OBVIOUS
        <4> HIDE DEF z
        <4>2. Min({left, z}) = IF left <= z THEN left ELSE z
          BY <1>3, <4>1, MinTwo
        <4>3. n = Min({left, z})
          <5> HIDE DEF rest
          <5> QED
            BY <3>1 DEF z
        <4> QED
          BY <4>2, <4>3 DEF z
      <3>3. kept = SubSeq(rest, 1, n)
        BY <2>4
      <3>4. CASE m <= s + l
        <4> DEFINE x == m + 1
        <4>1. at0 = m /\ at = m + n /\ n \in Nat /\ n <= fed2 - m
          <5> HIDE DEF n
          <5>1. at0 = m /\ left = l + s - m
            BY <2>4, <3>4 DEF EndAt, LeftAt
          <5>2. at = IF fed2 <= s + l THEN fed2 ELSE s + l
            BY <2>4, <3>4 DEF EndAt
          <5>3. m \in Nat
            OBVIOUS
          <5> HIDE DEF at, at0, m
          <5> QED
            BY <2>4, <3>2, <3>4, <5>1, <5>2, <5>3
        <4>2. x \in Int /\ fed2 \in Int /\ n \in Int /\ at \in Int /\ 1 \in Int /\ x = x + 1 - 1 /\ at = x + n - 1 /\ x <= x /\ x <= at + 1 /\ at <= fed2
          <5>1. m \in Nat
            OBVIOUS
          <5> HIDE DEF n, at, at0, m
          <5> QED
            BY <4>1, <5>1, <2>4, <1>3
        <4> HIDE DEF n, x, at, at0, m
        <4>3. Stretch(no, k, x, fed2, 1, n, x, at)
          BY <4>2, BytesSub
        <4> QED
          BY <3>1, <3>3, <4>1, <4>3 DEF Stretch, x
      <3>5. CASE m > s + l
        <4>1. at0 = s + l /\ at = s + l /\ left = 0 /\ n = 0
          <5>1. at0 = s + l /\ at = s + l /\ left = 0
            BY <2>4, <3>5 DEF EndAt, LeftAt
          <5>2. m \in Nat
            OBVIOUS
          <5> HIDE DEF n, m, left, at, at0
          <5> QED
            BY <2>4, <3>2, <5>1, <5>2
        <4>2. SubSeq(rest, 1, 0) = <<>>
          BY SubSeqEmpty
        <4>3. kept = <<>>
          BY <3>3, <4>1, <4>2
        <4> QED
          BY <2>0, <4>1, <4>3
      <3> HIDE DEF kept, at, at0
      <3>6. m \in Nat
        OBVIOUS
      <3> HIDE DEF m
      <3> QED
        BY <3>4, <3>5, <3>6
    <2>5. m \in Nat
      OBVIOUS
    <2> HIDE DEF kept, at, at0, m
    <2> QED
      BY <2>1, <2>2, <2>3, <2>4, <2>5
  <1>5. Len(kept) = at - at0
    <2> DEFINE x == at0 + 1
    <2>1. x \in Int /\ (IF at < x THEN 0 ELSE at - x + 1) = at - at0
      BY <1>3
    <2> HIDE DEF x, kept, at, at0
    <2>2. Len(Bytes(no, k, x, at)) = (IF at < x THEN 0 ELSE at - x + 1)
      BY <1>3, <2>1, BytesAre
    <2> QED
      BY <1>4, <2>1, <2>2 DEF x
  <1>6. g.skip = SkipAt(s, fed2)
    <2>1. Max({0, skip - Len(b)}) = IF skip - Len(b) <= 0 THEN 0 ELSE skip - Len(b)
      <3>1. skip - Len(b) \in Int
        BY <1>1 DEF SkipAt
      <3> QED
        BY <3>1, MaxZero
    <2> HIDE DEF g, b
    <2> QED
      BY <1>1, <1>2, <2>1 DEF SkipAt
  <1>7. g.left = LeftAt(s, l, d, fed2)
    <2>1. left = (IF l = 0 THEN 0 ELSE l - (at0 - s)) /\ LeftAt(s, l, d, fed2) = IF l = 0 THEN 0 ELSE l - (at - s)
      BY DEF LeftAt
    <2>2. g.left = IF l # 0 THEN left - Len(kept) ELSE left
      BY <1>2, Zenon
    <2> HIDE DEF g, kept, at, at0
    <2> QED
      BY <1>3, <1>5, <2>1, <2>2
  <1> QED
    BY <1>2, <1>4, <1>6, <1>7 DEF GatherOK

\* The bytes from .. at of the payload that ends at to are staged: all of it when done says so.
Staged(no, k, from, at, to, done, drop) ==
    /\ no \in 0 .. MaxFrames /\ k \in Kinds /\ from \in Nat \ {0} /\ at \in Nat /\ to \in Nat
    /\ from <= at + 1 /\ at <= to
    /\ from <= to => to <= Frames[k].len
    /\ done \in BOOLEAN /\ drop \in BOOLEAN
    /\ done => at = to
    /\ ~done => at < to \/ from = at + 1
    /\ drop => from = at + 1

\* With a free output the next beat leaves as soon as it is complete, and no other.
LEMMA EmitRight ==
    ASSUME NEW no, NEW k, NEW from, NEW at, NEW to, NEW done, NEW drop, NEW ready, NEW buf,
           Staged(no, k, from, at, to, done, drop), buf = Bytes(no, k, from, at),
           at + 1 - from < 2 * KEEP_W, out_free(ready), Emit(buf, done, drop, ready)
    PROVE  \E from2 \in Nat : /\ from <= from2 /\ from2 <= at + 1 /\ at + 1 - from2 < KEEP_W
                              /\ buf_q' = Bytes(no, k, from2, at)
                              /\ Emitted(no, k, from, from2, to, m_axis')
  <1> DEFINE len == at + 1 - from
             n == Min({KEEP_W, Len(buf)})
             can == CanEmit(buf, done, drop, ready)
  <1>1. /\ no \in 0 .. MaxFrames /\ k \in Kinds /\ from \in Nat \ {0} /\ at \in Nat /\ to \in Nat
        /\ from <= at + 1 /\ at <= to /\ (from <= to => to <= Frames[k].len)
        /\ done \in BOOLEAN /\ drop \in BOOLEAN
        /\ (done => at = to) /\ (~done => at < to \/ from = at + 1) /\ (drop => from = at + 1)
    BY DEF Staged
  <1>2. KEEP_W \in Nat \ {0}
    BY GearAssumption
  <1>3. Len(buf) = len /\ (buf = <<>> <=> len = 0) /\ len \in Nat
    <2>1. Len(buf) = (IF at < from THEN 0 ELSE at - from + 1)
      BY <1>1, BytesAre
    <2>2. buf = <<>> <=> at < from
      BY <1>1, BytesEmpty
    <2> QED
      BY <1>1, <2>1, <2>2
  <1>4. n = IF KEEP_W <= len THEN KEEP_W ELSE len
    BY <1>2, <1>3, MinTwo
  <1>5. can <=> ~drop /\ (len >= KEEP_W \/ (done /\ len # 0))
    BY <1>3 DEF CanEmit
  <1>6. CASE can
    <2> DEFINE from2 == from + n
               n1 == n + 1
               e == from + n - 1
    <2>1. n \in 1 .. KEEP_W /\ n <= len /\ (n < KEEP_W => n = len /\ done) /\ (~done => at < to /\ n = KEEP_W)
      BY <1>1, <1>2, <1>3, <1>4, <1>5, <1>6
    <2>2. /\ m_axis' = [bytes |-> SubSeq(buf, 1, n), last |-> done /\ Len(buf) <= KEEP_W]
          /\ buf_q' = SubSeq(buf, n + 1, Len(buf))
      BY <1>6 DEF Emit
    <2> HIDE DEF n, can
    <2>3. from2 \in Nat /\ from <= from2 /\ from2 <= at + 1 /\ at + 1 - from2 < KEEP_W
      BY <1>1, <1>2, <1>3, <2>1
    <2>4. buf_q' = Bytes(no, k, from2, at)
      <3>1. /\ n1 \in Int /\ len \in Int /\ from2 \in Int /\ at \in Int /\ from \in Int
            /\ from2 = from + n1 - 1 /\ at = from + len - 1
            /\ from <= from2 /\ from2 <= at + 1 /\ at <= at
        BY <1>1, <1>3, <2>1, <2>3
      <3> HIDE DEF n1, from2, len
      <3>2. Stretch(no, k, from, at, n1, len, from2, at)
        BY <3>1, BytesSub
      <3> QED
        BY <2>2, <3>2, <1>3 DEF Stretch, n1
    <2>5. SubSeq(buf, 1, n) = Bytes(no, k, from, e)
      <3>1. /\ 1 \in Int /\ n \in Int /\ e \in Int /\ at \in Int /\ from \in Int
            /\ from = from + 1 - 1 /\ e = from + n - 1
            /\ from <= from /\ from <= e + 1 /\ e <= at
        BY <1>1, <1>3, <2>1, <2>3
      <3> HIDE DEF e
      <3>2. Stretch(no, k, from, at, 1, n, from, e)
        BY <3>1, BytesSub
      <3> QED
        BY <3>2 DEF Stretch
    <2>6. e = Min({from + KEEP_W - 1, to})
      <3> DEFINE z == from + KEEP_W - 1
      <3>1. z \in Int /\ e = IF z <= to THEN z ELSE to
        BY <1>1, <1>2, <1>3, <2>1
      <3> HIDE DEF z
      <3>2. Min({z, to}) = IF z <= to THEN z ELSE to
        BY <1>1, <3>1, MinTwo
      <3> QED
        BY <3>1, <3>2 DEF z
    <2>7. (done /\ Len(buf) <= KEEP_W) = (from + KEEP_W > to)
      <3>1. done /\ len <= KEEP_W <=> from + KEEP_W > to
        BY <1>1, <1>2, <1>3, <1>4, <2>1 DEF n
      <3> QED
        BY <1>3, <3>1
    <2>8. m_axis' = DueOf(Piece(no, k, from, to))
      <3>1. DueOf(Piece(no, k, from, to))
              = [bytes |-> Bytes(no, k, from, Min({from + KEEP_W - 1, to})), last |-> from + KEEP_W > to]
        BY DEF DueOf, Piece
      <3> QED
        BY <2>2, <2>5, <2>6, <2>7, <3>1
    <2>9. from <= to /\ from2 = IF from + KEEP_W > to THEN to + 1 ELSE from + KEEP_W
      BY <1>1, <1>2, <1>3, <2>1
    <2>10. m_axis' # NULL
      BY <2>8, <2>9, <1>1, DueIsBeat
    <2> HIDE DEF from2
    <2>11. Emitted(no, k, from, from2, to, m_axis')
      BY <2>8, <2>9, <2>10 DEF Emitted
    <2> QED
      BY <2>3, <2>4, <2>11
  <1>7. CASE ~can
    <2>1. m_axis' = NULL /\ buf_q' = buf
      BY <1>7 DEF Emit
    <2>2. len < KEEP_W
      BY <1>1, <1>2, <1>3, <1>5, <1>7
    <2> QED
      BY <1>1, <2>1, <2>2 DEF Emitted
  <1> QED
    BY <1>6, <1>7

\* With a stalled output nothing moves.
LEMMA EmitHeld ==
    ASSUME NEW done, NEW drop, NEW ready, NEW buf, ~out_free(ready), Emit(buf, done, drop, ready)
    PROVE  m_axis' = m_axis /\ buf_q' = buf
  BY DEF Emit, CanEmit

\* The source's beat behind sent has the bytes up to place to.
BeatTo(no, k, sent, to) ==
    LET b == BeatAt(no, k, sent) IN
    b.bytes = Bytes(no, k, sent + 1, to) /\ b.last = (sent + KEEP_W >= Frames[k].len)

\* The bytes and the end of the source's beat.
LEMMA BeatIs ==
    ASSUME NEW no, NEW k \in Kinds, NEW sent \in Nat,
           NEW to, to = IF sent + KEEP_W <= Frames[k].len THEN sent + KEEP_W ELSE Frames[k].len
    PROVE  BeatTo(no, k, sent, to)
  <1> DEFINE z == sent + KEEP_W
  <1>1. z \in Int /\ Frames[k].len \in Int
    BY GearAssumption, FrameAssumption DEF FrameOK
  <1> HIDE DEF z
  <1>2. Min({z, Frames[k].len}) = IF z <= Frames[k].len THEN z ELSE Frames[k].len
    BY <1>1, MinTwo
  <1> QED
    BY <1>2 DEF BeatAt, BeatTo, z

\* Before its beat at fed the frame is within the gearbox, or this is its first beat.
Entering(no, k, s, l, d, fed, from, skip, keep_len, drop) ==
    \/ /\ fed = 0 /\ in_frame = FALSE /\ buf_q = <<>> /\ from = s + 1
       /\ no \in 0 .. MaxFrames /\ k \in Kinds /\ s \in Nat /\ l \in Nat /\ d \in BOOLEAN
       /\ skip = s /\ keep_len = l /\ drop = d
    \/ InFrame(no, k, s, l, d, fed, from)

\* After the frame's first fed bytes.
FedTo(no, k, s, l, d, fed, from) ==
    IF fed < Frames[k].len THEN InFrame(no, k, s, l, d, fed, from)
    ELSE Idle(no, k, from, EndAt(s, l, d, Frames[k].len))

\* The gearbox accepts a beat: its payload is staged, and the next beat of the payload
\* is on the port if it is complete.
LEMMA AcceptRight ==
    ASSUME NEW no, NEW k, NEW s, NEW l, NEW d, NEW fed, NEW from, NEW skip, NEW keep_len, NEW drop,
           NEW ready, Entering(no, k, s, l, d, fed, from, skip, keep_len, drop),
           GearTypes, gear_tready(ready), NEW fed2,
           fed2 = (IF fed + KEEP_W <= Frames[k].len THEN fed + KEEP_W ELSE Frames[k].len),
           GearAccept(BeatAt(no, k, fed), skip, keep_len, drop, ready)
    PROVE  /\ GearTypes'
           /\ \E from2 \in Nat : /\ FedTo(no, k, s, l, d, fed2, from2)'
                                 /\ Emitted(no, k, from, from2, EndAt(s, l, d, Frames[k].len), m_axis')
  <1> DEFINE len == Frames[k].len
             beat == BeatAt(no, k, fed)
             at0 == EndAt(s, l, d, fed)
             at == EndAt(s, l, d, fed2)
             to == EndAt(s, l, d, len)
             first == first_beat(TRUE, ready)
             bounded == IF first THEN keep_len # 0 ELSE bounded_q
             dropped == IF first THEN drop ELSE drop_q
             sk == IF first THEN skip ELSE skip_q
             lf == IF first THEN keep_len ELSE left_q
             g == Gather(beat.bytes, sk, lf, bounded, dropped)
             ndone == (~first /\ done_q) \/ Finished(bounded, g.left, beat.last)
  <1>1. /\ no \in 0 .. MaxFrames /\ k \in Kinds /\ s \in Nat /\ l \in Nat /\ d \in BOOLEAN
        /\ KEEP_W \in Nat \ {0} /\ len \in Nat \ {0}
    BY GearAssumption, FrameAssumption DEF Entering, InFrame, FrameOK
  <1>2. fed \in Nat /\ fed < len
    BY <1>1 DEF Entering, InFrame
  <1>3. fed2 \in Nat /\ fed < fed2 /\ fed2 <= len /\ fed2 - fed <= KEEP_W
    BY <1>1, <1>2
  <1>4. beat.bytes = Bytes(no, k, fed + 1, fed2) /\ (beat.last <=> fed2 = len) /\ beat.last \in BOOLEAN
    <2>0. BeatTo(no, k, fed, fed2)
      BY <1>1, <1>2, BeatIs
    <2>1. beat.bytes = Bytes(no, k, fed + 1, fed2) /\ beat.last = (fed + KEEP_W >= len)
      BY <2>0 DEF BeatTo
    <2> DEFINE c == fed + KEEP_W >= len
    <2>2. (c <=> fed2 = len) /\ c \in BOOLEAN
      BY <1>1, <1>2
    <2> HIDE DEF c, beat, len
    <2>3. beat.last = c
      BY <2>1 DEF c
    <2> QED
      BY <2>1, <2>2, <2>3, Zenon
  <1>5. /\ at0 \in Nat /\ at \in Nat /\ to \in Nat /\ s <= at0 /\ at0 <= at /\ at <= to
        /\ at - at0 <= KEEP_W
        /\ l # 0 => to <= s + l
        /\ fed = 0 => at0 = s
        /\ d => to = s
        /\ l # 0 /\ at0 = s + l => at = at0
        /\ l # 0 /\ at = s + l => to = at
        /\ fed2 < len /\ ~(l # 0 /\ at = s + l) => at < to \/ at = s
        /\ to > s => to <= len
    <2>1. /\ at0 \in Nat /\ at \in Nat /\ s <= at0 /\ at0 <= at /\ at - at0 <= fed2 - fed
          /\ (fed = 0 => at0 = s) /\ (l # 0 /\ at0 = s + l => at = at0)
      <3>1. EndMoves(s, l, d, fed, fed2)
        BY <1>1, <1>2, <1>3, EndFacts
      <3> QED
        BY <3>1 DEF EndMoves
    <2>2. /\ to \in Nat /\ at <= to /\ (l # 0 => to <= s + l) /\ (d => to = s)
          /\ (l # 0 /\ at = s + l => to = at)
          /\ (fed2 < len /\ ~(l # 0 /\ at = s + l) => at < to \/ at = s)
          /\ (to > s => to <= len)
      <3>1. EndMoves(s, l, d, fed2, len)
        BY <1>1, <1>3, EndFacts
      <3> QED
        BY <3>1 DEF EndMoves
    <2> HIDE DEF at0, at, to, len
    <2> QED
      BY <1>1, <1>2, <1>3, <2>1, <2>2
  <1>6. first = ~in_frame
    BY DEF first_beat, GearTypes
  <1> HIDE DEF at0, at, to
  <1>7. /\ from \in Nat \ {0} /\ s + 1 <= from /\ from <= at0 + 1 /\ at0 + 1 - from < KEEP_W
        /\ buf_q = Bytes(no, k, from, at0)
        /\ bounded = (l # 0) /\ dropped = d
        /\ sk = SkipAt(s, fed) /\ lf = LeftAt(s, l, d, fed)
        /\ (~first /\ done_q) <=> (l # 0 /\ at0 = s + l)
    <2>1. CASE /\ fed = 0 /\ in_frame = FALSE /\ buf_q = <<>> /\ from = s + 1
               /\ skip = s /\ keep_len = l /\ drop = d
      <3>1. first = TRUE
        BY <1>6, <2>1
      <3> HIDE DEF first
      <3>2. at0 = s
        BY <1>5, <2>1
      <3>3. Bytes(no, k, from, at0) = <<>>
        BY <1>1, <2>1, <3>2, BytesEmpty
      <3>4. bounded = (l # 0) /\ dropped = d /\ sk = SkipAt(s, fed) /\ lf = LeftAt(s, l, d, fed)
        BY <1>1, <2>1, <3>1, <3>2 DEF SkipAt, LeftAt, at0
      <3>5. ~(~first /\ done_q) /\ ~(l # 0 /\ at0 = s + l)
        BY <1>1, <3>1, <3>2
      <3> HIDE DEF bounded, dropped, sk, lf
      <3> QED
        BY <1>1, <2>1, <3>2, <3>3, <3>4, <3>5
    <2>2. CASE InFrame(no, k, s, l, d, fed, from)
      <3>1. /\ in_frame = TRUE /\ from \in s + 1 .. at0 + 1 /\ at0 + 1 - from < KEEP_W
            /\ buf_q = Bytes(no, k, from, at0) /\ drop_q = d /\ bounded_q = (l # 0)
            /\ done_q = (l # 0 /\ at0 = s + l)
            /\ skip_q = SkipAt(s, fed) /\ left_q = LeftAt(s, l, d, fed)
        BY <2>2 DEF InFrame, at0
      <3>2. first = FALSE
        BY <1>6, <3>1
      <3> HIDE DEF first
      <3>3. bounded = (l # 0) /\ dropped = d /\ sk = skip_q /\ lf = left_q
        BY <3>1, <3>2
      <3>4. (~first /\ done_q) <=> (l # 0 /\ at0 = s + l)
        BY <3>1, <3>2
      <3> HIDE DEF bounded, dropped, sk, lf
      <3> QED
        BY <1>1, <1>5, <3>1, <3>3, <3>4
    <2> QED
      BY <2>1, <2>2 DEF Entering
  <1> HIDE DEF first, bounded, dropped, sk, lf, len, beat
  <1>8. g.kept = Bytes(no, k, at0 + 1, at) /\ g.skip = SkipAt(s, fed2) /\ g.left = LeftAt(s, l, d, fed2)
    <2>1. GatherOK(no, k, s, l, d, fed, fed2)
      BY <1>1, <1>2, <1>3, GatherRight
    <2> QED
      BY <1>4, <1>7, <2>1 DEF GatherOK, at0, at
  <1> HIDE DEF g
  <1>9. ndone <=> (l # 0 /\ at = s + l) \/ fed2 = len
    <2>1. ndone <=> (l # 0 /\ at0 = s + l) \/ (l # 0 /\ g.left = 0) \/ fed2 = len
      BY <1>4, <1>7, Zenon DEF Finished
    <2>2. l # 0 => (g.left = 0 <=> at = s + l)
      BY <1>1, <1>5, <1>8 DEF LeftAt, at
    <2> QED
      BY <1>5, <2>1, <2>2
  <1>10. buf_q \o g.kept = Bytes(no, k, from, at)
    <2> DEFINE x == at0 + 1
    <2>1. x \in Int /\ x = at0 + 1 /\ from <= x /\ at0 <= at /\ from \in Int /\ at0 \in Int /\ at \in Int
      BY <1>5, <1>7
    <2>2. g.kept = Bytes(no, k, x, at)
      BY <1>8
    <2> HIDE DEF x
    <2> QED
      <3>1. Joined(no, k, from, at0, x, at)
        BY <2>1, BytesCat
      <3> QED
        BY <1>7, <2>2, <3>1 DEF Joined
  <1>11. /\ Emit(buf_q \o g.kept, ndone, dropped, ready)
         /\ skip_q' = (IF beat.last THEN 0 ELSE g.skip)
         /\ left_q' = (IF beat.last THEN 0 ELSE g.left)
         /\ bounded_q' = bounded /\ drop_q' = dropped /\ done_q' = ndone
         /\ in_frame' = ~beat.last
    BY Zenon DEF GearAccept, first, bounded, dropped, sk, lf, g, beat
  <1>12. ndone \in BOOLEAN
    OBVIOUS
  <1> HIDE DEF ndone
  <1>13. Staged(no, k, from, at, to, ndone, d)
    <2>1. from <= at + 1 /\ (from <= to => to <= len) /\ (d => from = at + 1)
      BY <1>1, <1>5, <1>7
    <2>2. ndone => at = to
      BY <1>5, <1>9 DEF at, to
    <2>3. ~ndone => at < to \/ from = at + 1
      BY <1>1, <1>3, <1>5, <1>7, <1>9
    <2> QED
      BY <1>1, <1>5, <1>7, <1>12, <2>1, <2>2, <2>3 DEF Staged, len
  <1>14. at + 1 - from < 2 * KEEP_W /\ out_free(ready)
    BY <1>1, <1>5, <1>7 DEF gear_tready
  <1>15. PICK from2 \in Nat : /\ from <= from2 /\ from2 <= at + 1 /\ at + 1 - from2 < KEEP_W
                              /\ buf_q' = Bytes(no, k, from2, at)
                              /\ Emitted(no, k, from, from2, to, m_axis')
    BY <1>7, <1>10, <1>11, <1>13, <1>14, EmitRight
  <1>16. FedTo(no, k, s, l, d, fed2, from2)'
    <2>1. CASE fed2 < len
      <3>1. in_frame' = TRUE /\ skip_q' = g.skip /\ left_q' = g.left
        <4>1. beat.last = FALSE
          BY <1>1, <1>3, <1>4, <2>1
        <4> QED
          BY <1>11, <4>1
      <3>2. done_q' = (l # 0 /\ at = s + l)
        BY <1>9, <1>11, <1>12, <2>1, <1>3
      <3>3. fed2 \in 1 .. len - 1 /\ from2 \in s + 1 .. at + 1
        BY <1>1, <1>2, <1>3, <1>5, <1>7, <1>15, <2>1
      <3>4. InFrame(no, k, s, l, d, fed2, from2)'
        BY <1>1, <1>7, <1>8, <1>11, <1>15, <3>1, <3>2, <3>3 DEF InFrame, at, len
      <3> QED
        BY <2>1, <3>4 DEF FedTo, len
    <2>2. CASE fed2 = len
      <3>1. in_frame' = FALSE /\ done_q' = TRUE /\ drop_q' = d /\ at = to
        BY <1>4, <1>7, <1>9, <1>11, <1>12, <2>2 DEF at, to
      <3>2. from2 <= to => ~d /\ to <= len
        BY <1>5, <1>7, <1>15, <1>1
      <3>3. Idle(no, k, from2, to)'
        BY <1>1, <1>5, <1>7, <1>15, <3>1, <3>2 DEF Idle, len
      <3> QED
        BY <1>1, <2>2, <3>3 DEF FedTo, len, to
    <2> QED
      BY <1>1, <1>3, <2>1, <2>2
  <1>17. GearTypes'
    <2>1. skip_q' \in Nat /\ left_q' \in Nat
      <3>1. SkipAt(s, fed2) \in Nat /\ LeftAt(s, l, d, fed2) \in Nat
        BY <1>1, <1>3, <1>5 DEF SkipAt, LeftAt, at
      <3> QED
        BY <1>4, <1>8, <1>11, <3>1
    <2>2. bounded_q' \in BOOLEAN /\ drop_q' \in BOOLEAN /\ in_frame' \in BOOLEAN /\ done_q' \in BOOLEAN
      BY <1>1, <1>4, <1>7, <1>11, <1>12
    <2> QED
      BY <2>1, <2>2 DEF GearTypes
  <1> QED
    BY <1>15, <1>16, <1>17 DEF to, len

\* An edge at which the gearbox accepts no beat.
NoAccept(ready) ==
    /\ Emit(buf_q, done_q, drop_q, ready)
    /\ UNCHANGED <<in_frame, drop_q, bounded_q, done_q, skip_q, left_q>>

\* Without a beat that it can accept the gearbox only empties its buffer.
LEMMA GearIdleIs ==
    ASSUME NEW valid \in BOOLEAN, NEW ready \in BOOLEAN, GearTypes, ~(valid /\ gear_tready(ready)),
           NEW beat, NEW skip, NEW keep_len, NEW drop, GearEdge(valid, beat, skip, keep_len, drop, ready)
    PROVE  NoAccept(ready)
  <1>1. GearIdle(valid, ready)
    BY DEF GearEdge
  <1>2. first_beat(valid, ready) = FALSE
    BY DEF first_beat
  <1>3. (~first_beat(valid, ready) /\ done_q) = done_q
    BY <1>2 DEF GearTypes
  <1> QED
    BY <1>1, <1>3 DEF GearIdle, NoAccept

\* Of from .. to the port got the next beat or nothing; with a stalled output nothing moved.
Moved(no, k, from, from2, to, ready) ==
    IF out_free(ready) THEN Emitted(no, k, from, from2, to, m_axis')
    ELSE from2 = from /\ m_axis' = m_axis

\* Between frames a finished payload goes on leaving.
LEMMA IdleEdge ==
    ASSUME NEW no, NEW k, NEW from, NEW to, NEW ready \in BOOLEAN, GearTypes,
           Idle(no, k, from, to), NoAccept(ready)
    PROVE  \E from2 \in Nat : Idle(no, k, from2, to)' /\ Moved(no, k, from, from2, to, ready)
  <1>1. /\ in_frame = FALSE /\ no \in 0 .. MaxFrames /\ k \in Kinds /\ from \in Nat \ {0} /\ to \in Nat
        /\ from <= to + 1 /\ to + 1 - from < KEEP_W /\ (from <= to => to <= Frames[k].len)
        /\ buf_q = Bytes(no, k, from, to) /\ (from <= to => done_q /\ ~drop_q)
    BY DEF Idle
  <1>2. /\ Emit(buf_q, done_q, drop_q, ready)
        /\ in_frame' = FALSE /\ done_q' = done_q /\ drop_q' = drop_q
    BY <1>1 DEF NoAccept
  <1>3. CASE out_free(ready)
    <2>1. Staged(no, k, from, to, to, done_q, drop_q)
      BY <1>1 DEF Staged, GearTypes
    <2>2. to + 1 - from < 2 * KEEP_W
      BY <1>1, GearAssumption
    <2>3. PICK from2 \in Nat : /\ from <= from2 /\ from2 <= to + 1 /\ to + 1 - from2 < KEEP_W
                               /\ buf_q' = Bytes(no, k, from2, to)
                               /\ Emitted(no, k, from, from2, to, m_axis')
      BY <1>1, <1>2, <1>3, <2>1, <2>2, EmitRight
    <2>4. Idle(no, k, from2, to)'
      BY <1>1, <1>2, <2>3 DEF Idle
    <2> QED
      BY <1>3, <2>3, <2>4 DEF Moved
  <1>4. CASE ~out_free(ready)
    <2>1. m_axis' = m_axis /\ buf_q' = buf_q
      BY <1>2, <1>4, EmitHeld
    <2>2. Idle(no, k, from, to)'
      BY <1>1, <1>2, <2>1 DEF Idle
    <2> QED
      BY <1>1, <1>4, <2>1, <2>2 DEF Moved
  <1> QED
    BY <1>3, <1>4

\* Within a frame the staged beats go on leaving.
LEMMA InFrameEdge ==
    ASSUME NEW no, NEW k, NEW s, NEW l, NEW d, NEW fed, NEW from, NEW ready \in BOOLEAN, GearTypes,
           InFrame(no, k, s, l, d, fed, from), NoAccept(ready)
    PROVE  \E from2 \in Nat : /\ InFrame(no, k, s, l, d, fed, from2)'
                              /\ Moved(no, k, from, from2, EndAt(s, l, d, Frames[k].len), ready)
  <1> DEFINE at == EndAt(s, l, d, fed)
             to == EndAt(s, l, d, Frames[k].len)
  <1>1. /\ in_frame = TRUE /\ no \in 0 .. MaxFrames /\ k \in Kinds /\ s \in Nat /\ l \in Nat /\ d \in BOOLEAN
        /\ fed \in 1 .. Frames[k].len - 1 /\ from \in s + 1 .. at + 1 /\ at + 1 - from < KEEP_W
        /\ buf_q = Bytes(no, k, from, at) /\ drop_q = d /\ bounded_q = (l # 0)
        /\ done_q = (l # 0 /\ at = s + l)
        /\ skip_q = SkipAt(s, fed) /\ left_q = LeftAt(s, l, d, fed)
    BY DEF InFrame
  <1>2. Frames[k].len \in Nat \ {0} /\ KEEP_W \in Nat \ {0}
    BY <1>1, FrameAssumption, GearAssumption DEF FrameOK
  <1>3. /\ at \in Nat /\ to \in Nat /\ s <= at /\ at <= to
        /\ (l # 0 => to <= s + l) /\ (d => to = s) /\ (l # 0 /\ at = s + l => to = at)
        /\ (~(l # 0 /\ at = s + l) => at < to \/ at = s)
        /\ (to > s => to <= Frames[k].len)
    <2>1. EndMoves(s, l, d, fed, Frames[k].len)
      BY <1>1, <1>2, EndFacts
    <2> QED
      BY <1>1, <1>2, <2>1 DEF EndMoves
  <1>4. /\ Emit(buf_q, done_q, drop_q, ready) /\ in_frame' = in_frame /\ drop_q' = drop_q
        /\ bounded_q' = bounded_q /\ done_q' = done_q /\ skip_q' = skip_q /\ left_q' = left_q
    BY DEF NoAccept
  <1> HIDE DEF at, to
  <1>5. CASE out_free(ready)
    <2>1. Staged(no, k, from, at, to, done_q, drop_q)
      <3>1. from \in Nat \ {0} /\ from <= at + 1 /\ (from <= to => to <= Frames[k].len) /\ (d => from = at + 1)
        BY <1>1, <1>2, <1>3
      <3>2. done_q \in BOOLEAN /\ (done_q => at = to)
        <4>1. done_q \in BOOLEAN
          BY DEF GearTypes
        <4>2. done_q => l # 0 /\ at = s + l
          BY <1>1
        <4> QED
          BY <1>3, <4>1, <4>2
      <3>3. ~done_q => at < to \/ from = at + 1
        <4>1. ~done_q => ~(l # 0 /\ at = s + l)
          BY <1>1
        <4>2. at = s => from = at + 1
          BY <1>1, <1>3
        <4> QED
          BY <1>3, <4>1, <4>2
      <3> QED
        BY <1>1, <1>3, <3>1, <3>2, <3>3 DEF Staged
    <2>2. at + 1 - from < 2 * KEEP_W
      BY <1>1, <1>2, <1>3
    <2>3. PICK from2 \in Nat : /\ from <= from2 /\ from2 <= at + 1 /\ at + 1 - from2 < KEEP_W
                               /\ buf_q' = Bytes(no, k, from2, at)
                               /\ Emitted(no, k, from, from2, to, m_axis')
      BY <1>1, <1>4, <1>5, <2>1, <2>2, EmitRight
    <2>4. from2 \in s + 1 .. at + 1
      BY <1>1, <1>3, <2>3
    <2>5. InFrame(no, k, s, l, d, fed, from2)'
      BY <1>1, <1>4, <2>3, <2>4 DEF InFrame, at
    <2> QED
      BY <1>5, <2>3, <2>5 DEF Moved, to
  <1>6. CASE ~out_free(ready)
    <2>1. m_axis' = m_axis /\ buf_q' = buf_q
      BY <1>4, <1>6, EmitHeld
    <2>2. InFrame(no, k, s, l, d, fed, from)'
      BY <1>1, <1>4, <2>1 DEF InFrame, at
    <2>3. from \in Nat
      BY <1>1, <1>3
    <2> QED
      BY <1>6, <2>1, <2>2, <2>3 DEF Moved
  <1> QED
    BY <1>5, <1>6

-----------------------------------------------------------------------------
(* The gearbox and what is owed.                                           *)

\* Concatenation is associative.
Regroup(a, b, c) == (a \o b) \o c = a \o (b \o c)

\* Of pieces too.
LEMMA ConcatPieces ==
    ASSUME NEW a \in Seq(Pieces), NEW b \in Seq(Pieces), NEW c \in Seq(Pieces)
    PROVE  Regroup(a, b, c)
  BY ConcatAssociative DEF Regroup

\* The port after an edge, when the sequence X is appended to what is owed.
LEMMA PortMoves ==
    ASSUME NEW no \in 0 .. MaxFrames, NEW k \in Kinds, NEW from \in Nat, NEW to \in Nat, NEW from2,
           NEW X \in Seq(Pieces), NEW Y \in Seq(Pieces), NEW ready \in BOOLEAN, owed \in Seq(Pieces),
           Port(m_axis, owed, Remaining(no, k, from, to) \o Y), Moved(no, k, from, from2, to, ready),
           owed' = AfterTake(ready) \o X
    PROVE  Port(m_axis', owed', Remaining(no, k, from2, to) \o (Y \o X))
  <1> DEFINE R == Remaining(no, k, from, to)
             R2 == Remaining(no, k, from2, to)
             Z == Y \o X
  <1>1. R \in Seq(Pieces)
    BY RemainingType
  <1>2. Z \in Seq(Pieces) /\ (R \o Y) \o X = R \o Z
    <2> HIDE DEF R
    <2>1. Y \o X \in Seq(Pieces)
      BY ConcatProperties
    <2>2. Regroup(R, Y, X)
      BY <1>1, ConcatPieces
    <2> QED
      BY <2>1, <2>2 DEF Regroup
  <1>3. CASE out_free(ready)
    <2>1. Emitted(no, k, from, from2, to, m_axis')
      BY <1>3 DEF Moved
    <2>2. AfterTake(ready) = R \o Y
      BY <1>3, PortFree
    <2>3. owed' = R \o Z
      BY <1>2, <2>2
    <2> HIDE DEF Z
    <2>4. Port(m_axis', R \o Z, R2 \o Z)
      BY <1>2, <2>1, PortStep
    <2> QED
      BY <2>3, <2>4 DEF Z
  <1>4. CASE ~out_free(ready)
    <2>1. from2 = from /\ m_axis' = m_axis
      BY <1>4 DEF Moved
    <2> DEFINE P == R \o Y
    <2> HIDE DEF P, R, Z
    <2>2. Port(m_axis, owed, P)
      BY DEF P, R
    <2>3. AfterTake(ready) = owed /\ Port(m_axis, owed \o X, P \o X)
      BY <1>4, <2>2, PortHeld
    <2>4. P \o X = R2 \o Z
      BY <1>2, <2>1 DEF P, R
    <2> QED
      BY <2>1, <2>3, <2>4 DEF Z
  <1> QED
    BY <1>3, <1>4

\* The gearbox accepts nothing between frames.
LEMMA KeepIdle ==
    ASSUME NEW X \in Seq(Pieces), NEW Y \in Seq(Pieces), NEW ready \in BOOLEAN, owed \in Seq(Pieces),
           GearTypes, IdlePort(Y), NoAccept(ready), owed' = AfterTake(ready) \o X
    PROVE  IdlePort(Y \o X)'
  <1>1. PICK no \in 0 .. MaxFrames, k \in Kinds, from \in Nat, to \in Nat :
            Idle(no, k, from, to) /\ Port(m_axis, owed, Remaining(no, k, from, to) \o Y)
    BY DEF IdlePort
  <1>2. PICK from2 \in Nat : Idle(no, k, from2, to)' /\ Moved(no, k, from, from2, to, ready)
    BY <1>1, IdleEdge
  <1>3. Port(m_axis', owed', Remaining(no, k, from2, to) \o (Y \o X))
    BY <1>1, <1>2, PortMoves
  <1> QED
    BY <1>2, <1>3 DEF IdlePort

\* The gearbox accepts nothing within a frame.
LEMMA KeepIn ==
    ASSUME NEW no, NEW k, NEW s, NEW l, NEW d, NEW fed, NEW ready \in BOOLEAN, owed \in Seq(Pieces),
           GearTypes, InPort(no, k, s, l, d, fed), NoAccept(ready), owed' = AfterTake(ready) \o <<>>
    PROVE  InPort(no, k, s, l, d, fed)'
  <1> DEFINE to == EndAt(s, l, d, Frames[k].len)
  <1>1. PICK from \in Nat : InFrame(no, k, s, l, d, fed, from) /\ Port(m_axis, owed, Remaining(no, k, from, to))
    BY DEF InPort
  <1>2. no \in 0 .. MaxFrames /\ k \in Kinds /\ to \in Nat
    BY <1>1, FrameAssumption DEF InFrame, EndAt, FrameOK
  <1>3. PICK from2 \in Nat : InFrame(no, k, s, l, d, fed, from2)' /\ Moved(no, k, from, from2, to, ready)
    BY <1>1, InFrameEdge
  <1> HIDE DEF to
  <1>4. Remaining(no, k, from, to) \in Seq(Pieces) /\ Remaining(no, k, from2, to) \in Seq(Pieces)
    BY <1>2, RemainingType
  <1>5. <<>> \in Seq(Pieces) /\ <<>> \o <<>> = <<>>
    OBVIOUS
  <1>6. Port(m_axis, owed, Remaining(no, k, from, to) \o <<>>)
    BY <1>1, <1>4, ConcatEmptySeq
  <1>7. Port(m_axis', owed', Remaining(no, k, from2, to) \o (<<>> \o <<>>))
    BY <1>2, <1>3, <1>5, <1>6, PortMoves
  <1>8. Port(m_axis', owed', Remaining(no, k, from2, to))
    BY <1>4, <1>5, <1>7, ConcatEmptySeq
  <1> QED
    BY <1>3, <1>8 DEF InPort, to

\* After its first fed bytes: within the frame, or done with it.
PortTo(no, k, s, l, d, fed) ==
    IF fed < Frames[k].len THEN InPort(no, k, s, l, d, fed) ELSE IdlePort(<<>>)

\* The gearbox accepts the first beat of a frame, and nothing else is owed.
LEMMA EnterFrame ==
    ASSUME NEW no \in 0 .. MaxFrames, NEW k \in Kinds, NEW s \in Nat, NEW l \in Nat, NEW d \in BOOLEAN,
           NEW X \in Seq(Pieces), NEW Y \in Seq(Pieces), NEW ready \in BOOLEAN, owed \in Seq(Pieces),
           GearTypes, IdlePort(Y), gear_tready(ready),
           Y \o X = Remaining(no, k, s + 1, EndAt(s, l, d, Frames[k].len)),
           GearAccept(BeatAt(no, k, 0), s, l, d, ready), owed' = AfterTake(ready) \o X,
           NEW fed2, fed2 = IF KEEP_W <= Frames[k].len THEN KEEP_W ELSE Frames[k].len
    PROVE  GearTypes' /\ PortTo(no, k, s, l, d, fed2)'
  <1> DEFINE to == EndAt(s, l, d, Frames[k].len)
             s1 == s + 1
  <1>1. PICK no0 \in 0 .. MaxFrames, k0 \in Kinds, from0 \in Nat, to0 \in Nat :
            Idle(no0, k0, from0, to0) /\ Port(m_axis, owed, Remaining(no0, k0, from0, to0) \o Y)
    BY DEF IdlePort
  <1>2. in_frame = FALSE /\ buf_q = <<>> /\ Remaining(no0, k0, from0, to0) = <<>>
    <2>1. /\ in_frame = FALSE /\ buf_q = Bytes(no0, k0, from0, to0) /\ (from0 <= to0 => done_q)
          /\ from0 <= to0 + 1
      BY <1>1 DEF Idle
    <2>2. buf_q = <<>> <=> to0 < from0
      BY <2>1, BytesEmpty
    <2>3. ~(done_q /\ buf_q # <<>>)
      BY DEF gear_tready, residue
    <2> QED
      BY <2>1, <2>2, <2>3 DEF Remaining
  <1>3. Entering(no, k, s, l, d, 0, s1, s, l, d)
    BY <1>2 DEF Entering
  <1>4. fed2 = (IF 0 + KEEP_W <= Frames[k].len THEN 0 + KEEP_W ELSE Frames[k].len)
    BY GearAssumption
  <1>5. s1 \in Nat /\ to \in Nat /\ out_free(ready)
    BY FrameAssumption DEF EndAt, FrameOK, gear_tready
  <1> HIDE DEF s1
  <1>6. GearTypes' /\ \E from2 \in Nat : FedTo(no, k, s, l, d, fed2, from2)' /\ Emitted(no, k, s1, from2, to, m_axis')
    BY <1>3, <1>4, AcceptRight
  <1>7. PICK from2 \in Nat : FedTo(no, k, s, l, d, fed2, from2)' /\ Emitted(no, k, s1, from2, to, m_axis')
    BY <1>6
  <1> HIDE DEF to
  <1>8. owed' = Remaining(no, k, s1, to) \o <<>>
    <2>1. AfterTake(ready) = Remaining(no0, k0, from0, to0) \o Y
      BY <1>1, <1>5, PortFree
    <2>2. AfterTake(ready) = Y
      BY <1>2, <2>1, ConcatEmptySeq
    <2>3. owed' = Remaining(no, k, s1, to)
      BY <2>2 DEF to, s1
    <2> QED
      BY <1>5, <2>3, RemainingType, ConcatEmptySeq
  <1>9. Port(m_axis', owed', Remaining(no, k, from2, to) \o <<>>)
    <2>1. <<>> \in Seq(Pieces)
      OBVIOUS
    <2> QED
      BY <1>5, <1>7, <1>8, <2>1, PortStep
  <1>10. CASE fed2 < Frames[k].len
    <2>1. InFrame(no, k, s, l, d, fed2, from2)'
      BY <1>7, <1>10 DEF FedTo
    <2>2. Port(m_axis', owed', Remaining(no, k, from2, to))
      BY <1>5, <1>9, RemainingType, ConcatEmptySeq
    <2> QED
      BY <1>6, <1>10, <2>1, <2>2 DEF PortTo, InPort, to
  <1>11. CASE ~(fed2 < Frames[k].len)
    <2>1. Idle(no, k, from2, to)'
      BY <1>7, <1>11 DEF FedTo, to
    <2> QED
      BY <1>5, <1>6, <1>9, <1>11, <2>1 DEF PortTo, IdlePort
  <1> QED
    BY <1>10, <1>11

\* The gearbox accepts a later beat of a frame.
LEMMA ContinueFrame ==
    ASSUME NEW no, NEW k, NEW s, NEW l, NEW d, NEW fed, NEW ready \in BOOLEAN, owed \in Seq(Pieces),
           GearTypes, InPort(no, k, s, l, d, fed), gear_tready(ready), NEW skip, NEW keep_len, NEW drop,
           GearAccept(BeatAt(no, k, fed), skip, keep_len, drop, ready), owed' = AfterTake(ready) \o <<>>,
           NEW fed2, fed2 = IF fed + KEEP_W <= Frames[k].len THEN fed + KEEP_W ELSE Frames[k].len
    PROVE  GearTypes' /\ PortTo(no, k, s, l, d, fed2)'
  <1> DEFINE to == EndAt(s, l, d, Frames[k].len)
  <1>1. PICK from \in Nat : InFrame(no, k, s, l, d, fed, from) /\ Port(m_axis, owed, Remaining(no, k, from, to))
    BY DEF InPort
  <1>2. no \in 0 .. MaxFrames /\ k \in Kinds /\ to \in Nat /\ out_free(ready)
    <2>1. no \in 0 .. MaxFrames /\ k \in Kinds /\ s \in Nat /\ l \in Nat
      BY <1>1 DEF InFrame
    <2>2. Frames[k].len \in Nat
      BY <2>1, FrameAssumption DEF FrameOK
    <2>3. to \in Nat
      BY <2>1, <2>2 DEF EndAt
    <2>4. out_free(ready)
      BY DEF gear_tready
    <2> QED
      BY <2>1, <2>3, <2>4
  <1>3. Entering(no, k, s, l, d, fed, from, skip, keep_len, drop)
    BY <1>1 DEF Entering
  <1>4. GearTypes' /\ \E from2 \in Nat : FedTo(no, k, s, l, d, fed2, from2)' /\ Emitted(no, k, from, from2, to, m_axis')
    BY <1>3, AcceptRight
  <1>5. PICK from2 \in Nat : FedTo(no, k, s, l, d, fed2, from2)' /\ Emitted(no, k, from, from2, to, m_axis')
    BY <1>4
  <1> HIDE DEF to
  <1>6. owed' = Remaining(no, k, from, to) \o <<>>
    BY <1>1, <1>2, PortFree
  <1>7. Port(m_axis', owed', Remaining(no, k, from2, to) \o <<>>)
    <2>1. <<>> \in Seq(Pieces)
      OBVIOUS
    <2> QED
      BY <1>2, <1>5, <1>6, <2>1, PortStep
  <1>8. CASE fed2 < Frames[k].len
    <2>1. InFrame(no, k, s, l, d, fed2, from2)'
      BY <1>5, <1>8 DEF FedTo
    <2>2. Port(m_axis', owed', Remaining(no, k, from2, to))
      BY <1>2, <1>7, RemainingType, ConcatEmptySeq
    <2> QED
      BY <1>4, <1>8, <2>1, <2>2 DEF PortTo, InPort, to
  <1>9. CASE ~(fed2 < Frames[k].len)
    <2>1. Idle(no, k, from2, to)'
      BY <1>5, <1>9 DEF FedTo, to
    <2> QED
      BY <1>2, <1>4, <1>7, <1>9, <2>1 DEF PortTo, IdlePort
  <1> QED
    BY <1>8, <1>9

-----------------------------------------------------------------------------
(* The control values of every layer cut out the payload of the reference. *)

\* A stretch of a frame, <<1, 0>> when it is empty or there is a reason to reject.
Cut(cond, from, to) == IF cond /\ from <= to THEN <<from, to>> ELSE <<1, 0>>

\* The reference, layer by layer.
LEMMA GoldenIs ==
    ASSUME NEW f
    PROVE  /\ f.layer = "eth" =>
                Golden(f) = IF f.ethertype = "vlan" THEN Cut(f.len >= 18 /\ f.inner = "ipv4", 19, f.len)
                            ELSE Cut(f.len >= 14 /\ f.ethertype = "ipv4", 15, f.len)
           /\ f.layer = "ipv4" =>
                Golden(f) = Cut(/\ f.len >= 20 /\ f.v4 /\ f.ihl >= 20 /\ f.len >= f.ihl
                                /\ f.udp /\ f.total >= f.ihl /\ f.total <= f.len /\ f.csum, f.ihl + 1, f.total)
           /\ f.layer = "udp" => Golden(f) = Cut(f.len >= 8 /\ f.port /\ f.ulen >= 8 /\ f.ulen <= f.len, 9, f.ulen)
           /\ f.layer = "mold" => Golden(f) = Cut(f.len >= 20 /\ f.count \notin {0, EndSession}, 21, f.len)
           /\ f.layer = "gear" =>
                Golden(f) = Cut(~f.drop, f.skip + 1,
                                IF f.keep_len = 0 THEN f.len ELSE Min({f.len, f.skip + f.keep_len}))
           /\ f.layer = "reg" => Golden(f) = Cut(TRUE, 1, f.len)
  BY DEF Golden, Cut

\* Its two places are natural numbers.
LEMMA GoldenType ==
    ASSUME NEW k \in Kinds
    PROVE  Golden(Frames[k])[1] \in Nat /\ Golden(Frames[k])[2] \in Nat
  <1> DEFINE f == Frames[k]
  <1>0. FrameOK(f)
    BY FrameAssumption
  <1> SUFFICES Golden(f)[1] \in Nat /\ Golden(f)[2] \in Nat
    OBVIOUS
  <1> HIDE DEF f
  <1>1. ASSUME NEW g, NEW a \in Nat, NEW b \in Nat, g = <<1, 0>> \/ g = <<a, b>>
        PROVE  g[1] \in Nat /\ g[2] \in Nat
    BY <1>1
  <1>2. f.len \in Nat
    BY <1>0 DEF FrameOK
  <1>3. CASE f.layer = "eth"
    <2>1. Golden(f) = <<1, 0>> \/ Golden(f) = <<19, f.len>> \/ Golden(f) = <<15, f.len>>
      BY <1>3, GoldenIs DEF Cut
    <2> QED
      BY <1>1, <1>2, <2>1
  <1>4. CASE f.layer = "ipv4"
    <2>1. f.ihl + 1 \in Nat /\ f.total \in Nat
      BY <1>0, <1>4 DEF FrameOK
    <2>2. Golden(f) = <<1, 0>> \/ Golden(f) = <<f.ihl + 1, f.total>>
      BY <1>4, GoldenIs DEF Cut
    <2> QED
      BY <1>1, <2>1, <2>2
  <1>5. CASE f.layer = "udp"
    <2>1. f.ulen \in Nat
      BY <1>0, <1>5 DEF FrameOK
    <2>2. Golden(f) = <<1, 0>> \/ Golden(f) = <<9, f.ulen>>
      BY <1>5, GoldenIs DEF Cut
    <2> QED
      BY <1>1, <2>1, <2>2
  <1>6. CASE f.layer = "mold"
    <2>1. Golden(f) = <<1, 0>> \/ Golden(f) = <<21, f.len>>
      BY <1>6, GoldenIs DEF Cut
    <2> QED
      BY <1>1, <1>2, <2>1
  <1>7. CASE f.layer = "gear"
    <2> DEFINE z == f.skip + f.keep_len
               e == IF f.keep_len = 0 THEN f.len ELSE Min({f.len, z})
    <2>1. f.skip + 1 \in Nat /\ z \in Nat
      BY <1>0, <1>7 DEF FrameOK
    <2> HIDE DEF z
    <2>2. Min({f.len, z}) \in Nat
      BY <1>2, <2>1, MinTwo
    <2>3. e \in Nat
      BY <1>2, <2>2
    <2>4. Golden(f) = Cut(~f.drop, f.skip + 1, e)
      BY <1>7, GoldenIs DEF z
    <2> HIDE DEF e
    <2>5. Golden(f) = <<1, 0>> \/ Golden(f) = <<f.skip + 1, e>>
      BY <2>4 DEF Cut
    <2> QED
      BY <1>1, <2>1, <2>3, <2>5
  <1>8. CASE f.layer = "reg"
    <2>1. Golden(f) = <<1, 0>> \/ Golden(f) = <<1, f.len>>
      BY <1>8, GoldenIs DEF Cut
    <2> QED
      BY <1>1, <1>2, <2>1
  <1> QED
    BY <1>0, <1>3, <1>4, <1>5, <1>6, <1>7, <1>8 DEF FrameOK

\* The payload of frame no, still whole.
PayloadOf(no, k) == Remaining(no, k, Golden(Frames[k])[1], Golden(Frames[k])[2])

\* What a new frame adds to what is owed.
LEMMA WithPayloadIs ==
    ASSUME NEW no \in 0 .. MaxFrames, NEW k \in Kinds, NEW rest \in Seq(Pieces)
    PROVE  PayloadOf(no, k) \in Seq(Pieces) /\ WithPayload(rest, no, k) = rest \o PayloadOf(no, k)
  <1> DEFINE p == Golden(Frames[k])
             q == Piece(no, k, p[1], p[2])
  <1>1. p[1] \in Nat /\ p[2] \in Nat
    BY GoldenType
  <1>2. PayloadOf(no, k) \in Seq(Pieces)
    BY <1>1, RemainingType DEF PayloadOf
  <1>3. q \in Pieces
    BY <1>1 DEF Piece, Pieces
  <1>4. WithPayload(rest, no, k) = IF p[1] > p[2] THEN rest ELSE Append(rest, q)
    BY DEF WithPayload, Piece
  <1>5. PayloadOf(no, k) = IF p[1] <= p[2] THEN <<q>> ELSE <<>>
    BY DEF PayloadOf, Remaining
  <1> HIDE DEF p, q
  <1>6. Append(rest, q) = rest \o <<q>> /\ rest = rest \o <<>>
    BY <1>3
  <1> QED
    BY <1>1, <1>2, <1>4, <1>5, <1>6

\* Where the control values cut the payload out it is what EndAt says.
LEMMA CutsPayload ==
    ASSUME NEW no, NEW k \in Kinds, NEW s \in Nat, NEW l \in Nat, NEW d \in BOOLEAN, Cuts(k, s, l, d)
    PROVE  PayloadOf(no, k) = Remaining(no, k, s + 1, EndAt(s, l, d, Frames[k].len))
  <1> DEFINE p == Golden(Frames[k])
             e == EndAt(s, l, d, Frames[k].len)
  <1>1. p[1] \in Nat /\ p[2] \in Nat
    BY GoldenType
  <1>2. (p[1] > p[2] /\ e = s) \/ (p[1] = s + 1 /\ p[2] = e /\ e > s)
    BY DEF Cuts
  <1>3. PayloadOf(no, k) = Remaining(no, k, p[1], p[2])
    BY DEF PayloadOf
  <1> HIDE DEF p, e
  <1>4. Remaining(no, k, p[1], p[2]) = Remaining(no, k, s + 1, e)
    BY <1>1, <1>2 DEF Remaining
  <1> QED
    BY <1>3, <1>4 DEF e

\* When the frame is dropped, or unbounded behind a header of s bytes, it is enough to know
\* the reference.
LEMMA CutsSimple ==
    ASSUME NEW k \in Kinds, NEW s \in Nat, NEW d \in BOOLEAN,
           LET f == Frames[k] IN
               \/ d /\ Golden(f) = <<1, 0>>
               \/ ~d /\ Golden(f) = Cut(TRUE, s + 1, f.len)
    PROVE  \A l \in Nat : (d \/ l = 0) => Cuts(k, s, l, d)
  <1> DEFINE n == Frames[k].len
             p == Golden(Frames[k])
  <1>1. n \in Nat /\ ((d /\ p = <<1, 0>>) \/ (~d /\ p = Cut(TRUE, s + 1, n)))
    <2>1. n \in Nat
      BY FrameAssumption DEF FrameOK
    <2>2. (d /\ p = <<1, 0>>) \/ (~d /\ p = Cut(TRUE, s + 1, n))
      OBVIOUS
    <2> QED
      BY <2>1, <2>2
  <1> HIDE DEF p
  <1> SUFFICES ASSUME NEW l \in Nat, d \/ l = 0 PROVE Cuts(k, s, l, d)
    OBVIOUS
  <1> DEFINE e == EndAt(s, l, d, n)
  <1>2. e = IF d \/ n <= s THEN s ELSE n
    BY <1>1 DEF EndAt
  <1>3. (p[1] > p[2] /\ e = s) \/ (p[1] = s + 1 /\ p[2] = e /\ e > s)
    <2>1. CASE d
      <3>1. p[1] = 1 /\ p[2] = 0 /\ e = s
        BY <1>1, <1>2, <2>1
      <3> HIDE DEF p, e
      <3> QED
        BY <3>1
    <2>2. CASE ~d
      <3>1. p = IF s + 1 <= n THEN <<s + 1, n>> ELSE <<1, 0>>
        BY <1>1, <2>2 DEF Cut
      <3>2. s + 1 <= n => p[1] = s + 1 /\ p[2] = n
        BY <3>1
      <3>3. ~(s + 1 <= n) => p[1] = 1 /\ p[2] = 0
        BY <3>1
      <3> HIDE DEF p, e, n
      <3> QED
        BY <1>1, <1>2, <2>2, <3>2, <3>3
    <2> QED
      BY <2>1, <2>2
  <1> QED
    BY <1>3 DEF Cuts, p

\* A bounded payload.
LEMMA CutsBounded ==
    ASSUME NEW k \in Kinds, NEW s \in Nat, NEW l \in Nat \ {0}, NEW e,
           e = (IF Frames[k].len <= s + l THEN Frames[k].len ELSE s + l),
           Golden(Frames[k]) = Cut(TRUE, s + 1, e)
    PROVE  Cuts(k, s, l, FALSE)
  <1> DEFINE n == Frames[k].len
             p == Golden(Frames[k])
             x == EndAt(s, l, FALSE, n)
  <1>1. n \in Nat
    BY FrameAssumption DEF FrameOK
  <1>2. p = IF s + 1 <= e THEN <<s + 1, e>> ELSE <<1, 0>>
    BY DEF Cut
  <1>3. x = IF e <= s THEN s ELSE e
    BY <1>1 DEF EndAt
  <1>4. e \in Nat
    BY <1>1
  <1> HIDE DEF p, x
  <1>5. (s + 1 <= e => p[1] = s + 1 /\ p[2] = e) /\ (~(s + 1 <= e) => p[1] = 1 /\ p[2] = 0)
    BY <1>2
  <1>6. (p[1] > p[2] /\ x = s) \/ (p[1] = s + 1 /\ p[2] = x /\ x > s)
    BY <1>3, <1>4, <1>5
  <1> QED
    BY <1>6 DEF Cuts, p, x

\* The gearbox alone.
LEMMA GearCuts ==
    ASSUME NEW k \in Kinds, Frames[k].layer = "gear"
    PROVE  LET f == Frames[k] IN Cuts(k, f.skip, f.keep_len, f.drop)
  <1> DEFINE f == Frames[k]
             z == f.skip + f.keep_len
             e == IF f.keep_len = 0 THEN f.len ELSE Min({f.len, z})
  <1>1. f.skip \in Nat /\ f.keep_len \in Nat /\ f.drop \in BOOLEAN /\ f.len \in Nat
    BY FrameAssumption DEF FrameOK
  <1>2. Golden(f) = Cut(~f.drop, f.skip + 1, e)
    BY GoldenIs
  <1>3. Min({f.len, z}) = IF f.len <= z THEN f.len ELSE z
    <2>1. z \in Int
      BY <1>1
    <2> HIDE DEF z, f
    <2> QED
      BY <1>1, <2>1, MinTwo
  <1>4. CASE f.drop
    <2>1. Golden(f) = <<1, 0>>
      BY <1>2, <1>4 DEF Cut
    <2>2. f.drop /\ Golden(Frames[k]) = <<1, 0>>
      BY <1>4, <2>1
    <2> QED
      BY <1>1, <2>2, CutsSimple
  <1>5. CASE ~f.drop /\ f.keep_len = 0
    <2>1. Golden(f) = Cut(TRUE, f.skip + 1, f.len)
      BY <1>2, <1>5 DEF Cut
    <2>2. ~f.drop /\ Golden(Frames[k]) = Cut(TRUE, f.skip + 1, Frames[k].len)
      BY <1>5, <2>1
    <2> QED
      BY <1>1, <1>5, <2>2, CutsSimple
  <1>6. CASE ~f.drop /\ f.keep_len # 0
    <2>1. e = IF f.len <= z THEN f.len ELSE z
      BY <1>3, <1>6
    <2>2. Golden(f) = Cut(TRUE, f.skip + 1, e)
      BY <1>2, <1>6 DEF Cut
    <2>3. f.drop = FALSE
      BY <1>1, <1>6
    <2> HIDE DEF e
    <2> QED
      BY <1>1, <1>6, <2>1, <2>2, <2>3, CutsBounded
  <1> QED
    BY <1>4, <1>5, <1>6

\* The UDP layer.
LEMMA UdpCuts ==
    ASSUME NEW k \in Kinds, Frames[k].layer = "udp", Intact(Frames[k])
    PROVE  LET f == Frames[k] IN
           Cuts(k, 8, IF f.ulen > 8 THEN f.ulen - 8 ELSE 0, ~f.port \/ f.ulen <= 8 \/ f.len < 8)
  <1> DEFINE f == Frames[k]
             l == IF f.ulen > 8 THEN f.ulen - 8 ELSE 0
             d == ~f.port \/ f.ulen <= 8 \/ f.len < 8
             e == IF f.len <= 8 + l THEN f.len ELSE 8 + l
  <1>1. f.ulen \in Nat /\ f.port \in BOOLEAN /\ f.len \in Nat /\ l \in Nat /\ d \in BOOLEAN
    BY FrameAssumption DEF FrameOK
  <1>2. Golden(f) = Cut(f.len >= 8 /\ f.port /\ f.ulen >= 8 /\ f.ulen <= f.len, 9, f.ulen)
    BY GoldenIs
  <1>3. f.port /\ f.ulen > 8 /\ f.len > 8 => f.ulen <= f.len
    BY DEF Intact
  <1>4. CASE d
    <2>1. Golden(f) = <<1, 0>>
      BY <1>1, <1>2, <1>4 DEF Cut
    <2> HIDE DEF d, l
    <2>2. \A m \in Nat : (d \/ m = 0) => Cuts(k, 8, m, d)
      BY <1>1, <1>4, <2>1, CutsSimple
    <2> QED
      BY <1>1, <1>4, <2>2 DEF d, l
  <1>5. CASE ~d
    <2>1. f.port /\ f.ulen > 8 /\ f.len >= 8 /\ l = f.ulen - 8
      BY <1>1, <1>5
    <2>2. Golden(f) = Cut(TRUE, 8 + 1, e)
      BY <1>1, <1>2, <1>3, <2>1 DEF Cut
    <2>3. l \in Nat \ {0} /\ d = FALSE
      BY <1>1, <1>5, <2>1
    <2> HIDE DEF d, l
    <2>4. Cuts(k, 8, l, FALSE)
      BY <2>2, <2>3, CutsBounded
    <2> QED
      BY <2>3, <2>4 DEF d, l
  <1> QED
    BY <1>4, <1>5

\* The Ethernet layer: a frame that ends in its header, one without and one with a tag.
LEMMA EthCuts ==
    ASSUME NEW k \in Kinds, Frames[k].layer = "eth", Intact(Frames[k])
    PROVE  LET f == Frames[k] IN
           /\ f.len <= 16 \/ (f.ethertype = "vlan" /\ f.len <= 24) => Cuts(k, 14, 0, TRUE)
           /\ f.len > 16 /\ f.ethertype # "vlan" => Cuts(k, 14, 0, f.ethertype # "ipv4")
           /\ f.len > 24 /\ f.ethertype = "vlan" => Cuts(k, 18, 0, f.inner # "ipv4")
  <1> DEFINE f == Frames[k]
  <1>1. f.len \in Nat
    BY FrameAssumption DEF FrameOK
  <1>2. Golden(f) = IF f.ethertype = "vlan" THEN Cut(f.len >= 18 /\ f.inner = "ipv4", 19, f.len)
                    ELSE Cut(f.len >= 14 /\ f.ethertype = "ipv4", 15, f.len)
    BY GoldenIs
  <1>3. /\ f.ethertype = "ipv4" => f.len \notin 15 .. 16
        /\ f.ethertype = "vlan" /\ f.inner = "ipv4" => f.len \notin 19 .. 24
    BY DEF Intact
  <1>4. ASSUME NEW s \in Nat, NEW d \in BOOLEAN,
               (d /\ Golden(f) = <<1, 0>>) \/ (~d /\ Golden(f) = Cut(TRUE, s + 1, f.len))
        PROVE  Cuts(k, s, 0, d)
    <2>1. \A l \in Nat : (d \/ l = 0) => Cuts(k, s, l, d)
      BY <1>4, CutsSimple
    <2> QED
      BY <2>1
  <1>5. ASSUME f.len <= 16 \/ (f.ethertype = "vlan" /\ f.len <= 24)
        PROVE  Cuts(k, 14, 0, TRUE)
    <2>1. Golden(f) = <<1, 0>>
      BY <1>1, <1>2, <1>3, <1>5 DEF Cut
    <2> HIDE DEF f
    <2> QED
      BY <1>4, <2>1
  <1>6. ASSUME f.len > 16, f.ethertype # "vlan"
        PROVE  Cuts(k, 14, 0, f.ethertype # "ipv4")
    <2> DEFINE d == f.ethertype # "ipv4"
    <2>1. d => Golden(f) = <<1, 0>>
      BY <1>2, <1>6 DEF Cut
    <2>2. ~d => Golden(f) = Cut(TRUE, 14 + 1, f.len)
      BY <1>1, <1>2, <1>6 DEF Cut
    <2>3. d \in BOOLEAN
      OBVIOUS
    <2> HIDE DEF d, f
    <2>4. Cuts(k, 14, 0, d)
      BY <1>4, <2>1, <2>2, <2>3
    <2> QED
      BY <2>4 DEF d
  <1>7. ASSUME f.len > 24, f.ethertype = "vlan"
        PROVE  Cuts(k, 18, 0, f.inner # "ipv4")
    <2> DEFINE d == f.inner # "ipv4"
    <2>1. d => Golden(f) = <<1, 0>>
      BY <1>2, <1>7 DEF Cut
    <2>2. ~d => Golden(f) = Cut(TRUE, 18 + 1, f.len)
      BY <1>1, <1>2, <1>7 DEF Cut
    <2>3. d \in BOOLEAN
      OBVIOUS
    <2> HIDE DEF d, f
    <2>4. Cuts(k, 18, 0, d)
      BY <1>4, <2>1, <2>2, <2>3
    <2> QED
      BY <2>4 DEF d
  <1> QED
    BY <1>5, <1>6, <1>7

\* The Mold layer: a frame that ends in its header, and one with a whole third beat.
LEMMA MoldCuts ==
    ASSUME NEW k \in Kinds, Frames[k].layer = "mold"
    PROVE  LET f == Frames[k] IN
           /\ f.len <= 16 => Cuts(k, 20, 0, TRUE)
           /\ Cuts(k, 20, 0, ~(f.len >= 20) \/ f.count \in {0, EndSession})
  <1> DEFINE f == Frames[k]
             d == ~(f.len >= 20) \/ f.count \in {0, EndSession}
  <1>1. f.len \in Nat
    BY FrameAssumption DEF FrameOK
  <1>2. Golden(f) = Cut(f.len >= 20 /\ f.count \notin {0, EndSession}, 21, f.len)
    BY GoldenIs
  <1>4. ASSUME NEW x \in BOOLEAN,
               (x /\ Golden(f) = <<1, 0>>) \/ (~x /\ Golden(f) = Cut(TRUE, 20 + 1, f.len))
        PROVE  Cuts(k, 20, 0, x)
    <2>1. \A l \in Nat : (x \/ l = 0) => Cuts(k, 20, l, x)
      BY <1>4, CutsSimple
    <2> QED
      BY <2>1
  <1>5. ASSUME f.len <= 16
        PROVE  Cuts(k, 20, 0, TRUE)
    <2>1. Golden(f) = <<1, 0>>
      BY <1>1, <1>2, <1>5 DEF Cut
    <2> HIDE DEF f
    <2> QED
      BY <1>4, <2>1
  <1>6. Cuts(k, 20, 0, d)
    <2>1. d => Golden(f) = <<1, 0>>
      BY <1>1, <1>2 DEF Cut
    <2>2. ~d => Golden(f) = Cut(TRUE, 20 + 1, f.len)
      BY <1>1, <1>2 DEF Cut
    <2>3. d \in BOOLEAN
      OBVIOUS
    <2> HIDE DEF d, f
    <2> QED
      BY <1>4, <2>1, <2>2, <2>3
  <1> QED
    BY <1>5, <1>6

\* The IPv4 layer, at held beat n: a frame that ends in its header, and a whole header.
LEMMA IPv4Cuts ==
    ASSUME NEW k \in Kinds, Frames[k].layer = "ipv4", Intact(Frames[k]), NEW n \in Nat,
           n > 0 => Frames[k].ihl > 8 * n
    PROVE  LET f == Frames[k]
               bad == ~f.v4 \/ f.ihl < 20 \/ (n > 1 /\ ~f.udp)
           IN  /\ f.len <= 8 * (n + 1) => Cuts(k, 20, 0, TRUE)
               /\ \A keep \in Nat : n = 0 /\ f.ihl <= 8 => Cuts(k, f.ihl, keep, TRUE)
               /\ f.ihl <= 8 * (n + 1) /\ f.len > 8 * (n + 1) /\ n > 0 =>
                    Cuts(k, f.ihl, IF f.total > f.ihl THEN f.total - f.ihl ELSE 0,
                         bad \/ ~f.csum \/ f.total < f.ihl)
  <1> DEFINE f == Frames[k]
             bad == ~f.v4 \/ f.ihl < 20 \/ (n > 1 /\ ~f.udp)
             keep == IF f.total > f.ihl THEN f.total - f.ihl ELSE 0
             d == bad \/ ~f.csum \/ f.total < f.ihl
             good == /\ f.len >= 20 /\ f.v4 /\ f.ihl >= 20 /\ f.len >= f.ihl
                     /\ f.udp /\ f.total >= f.ihl /\ f.total <= f.len /\ f.csum
  <1>1. f.len \in Nat /\ f.ihl \in Nat /\ f.total \in Nat
    <2>1. FrameOK(f)
      BY FrameAssumption
    <2>2. f.len \in Nat \ {0} /\ f.ihl \in 0 .. 60 /\ f.total \in Nat
      BY <2>1 DEF FrameOK
    <2> HIDE DEF f
    <2> QED
      BY <2>2
  <1>2. Golden(f) = Cut(good, f.ihl + 1, f.total)
    BY GoldenIs
  <1>3. /\ f.ihl <= 8 => ~f.csum
        /\ good => f.total >= f.ihl + 8
        /\ (f.v4 /\ f.udp /\ f.csum /\ f.ihl >= 20 /\ f.len >= f.ihl /\ f.total >= f.ihl) => f.total <= f.len
    <2>1. f.ihl <= 8 => ~f.csum
      BY DEF Intact
    <2>2. (f.v4 /\ f.udp /\ f.csum /\ f.ihl >= 20 /\ f.len >= f.ihl /\ f.total >= f.ihl)
             => f.total \in f.ihl + 8 .. f.len
      BY DEF Intact
    <2> HIDE DEF f
    <2> QED
      BY <1>1, <2>1, <2>2
  <1>4. ASSUME NEW s \in Nat, NEW l \in Nat, Golden(f) = <<1, 0>>
        PROVE  Cuts(k, s, l, TRUE)
    BY <1>4, CutsSimple
  <1>5. ASSUME f.len <= 8 * (n + 1)
        PROVE  Cuts(k, 20, 0, TRUE)
    <2>1. ~good
      <3> HIDE DEF f, good
      <3>1. good => f.total <= f.len /\ f.ihl >= 20
        BY DEF good
      <3> QED
        BY <1>1, <1>3, <1>5, <3>1 DEF f
    <2>2. Golden(f) = <<1, 0>>
      BY <1>2, <2>1 DEF Cut
    <2> HIDE DEF f
    <2> QED
      BY <1>4, <2>2
  <1>6. ASSUME NEW l \in Nat, f.ihl <= 8
        PROVE  Cuts(k, f.ihl, l, TRUE)
    <2>1. Golden(f) = <<1, 0>>
      BY <1>2, <1>3, <1>6 DEF Cut
    <2> HIDE DEF f
    <2> QED
      BY <1>1, <1>4, <1>6, <2>1
  <1>7. ASSUME f.ihl <= 8 * (n + 1), f.len > 8 * (n + 1), n > 0
        PROVE  Cuts(k, f.ihl, keep, d)
    <2>0. keep \in Nat /\ d \in BOOLEAN
      BY <1>1
    <2>1. CASE d
      <3>1. ~good
        BY <2>1, <1>1
      <3>2. Golden(f) = <<1, 0>>
        BY <1>2, <3>1 DEF Cut
      <3>3. d = TRUE
        BY <2>0, <2>1
      <3> HIDE DEF f, d, keep
      <3> QED
        BY <1>1, <1>4, <2>0, <3>2, <3>3
    <2>2. CASE ~d
      <3>1. f.v4 /\ f.ihl >= 20 /\ f.csum /\ f.total >= f.ihl /\ f.len >= f.ihl /\ f.len >= 20
        BY <1>1, <1>7, <2>2
      <3>2. n > 1
        BY <1>1, <1>7, <3>1
      <3>3. f.udp
        BY <2>2, <3>2
      <3>4. good /\ f.total >= f.ihl + 8
        BY <1>3, <3>1, <3>3
      <3>5. keep = f.total - f.ihl /\ keep \in Nat \ {0} /\ f.total <= f.len
        BY <1>1, <3>4
      <3>6. Golden(f) = Cut(TRUE, f.ihl + 1, f.total)
        BY <1>2, <3>4 DEF Cut
      <3>7. f.total = IF f.len <= f.ihl + keep THEN f.len ELSE f.ihl + keep
        BY <1>1, <3>5
      <3>8. d = FALSE
        BY <2>0, <2>2
      <3> HIDE DEF keep, d
      <3>9. Cuts(k, f.ihl, keep, FALSE)
        BY <1>1, <3>5, <3>6, <3>7, CutsBounded
      <3> QED
        BY <3>8, <3>9
    <2> QED
      BY <2>1, <2>2
  <1> QED
    BY <1>5, <1>6, <1>7

-----------------------------------------------------------------------------
(* The source.                                                             *)

\* The sink takes a beat, and what is owed are pieces again.
LEMMA AfterTakeType ==
    ASSUME NEW ready, owed \in Seq(Pieces)
    PROVE  AfterTake(ready) \in Seq(Pieces)
  <1>1. CASE owed = <<>> \/ m_axis = NULL \/ ~ready
    BY <1>1 DEF AfterTake
  <1>2. CASE owed # <<>> /\ m_axis # NULL /\ ready
    <2> DEFINE q == owed[1]
               q2 == [q EXCEPT !.from = @ + KEEP_W]
    <2>1. q \in Pieces /\ Tail(owed) \in Seq(Pieces) /\ 1 \in DOMAIN owed
      BY <1>2
    <2>2. q2 \in Pieces
      <3> HIDE DEF q
      <3>1. q.no \in 0 .. MaxFrames /\ q.kind \in Kinds /\ q.from \in Nat /\ q.to \in Nat
        BY <2>1 DEF Pieces
      <3>2. q.from + KEEP_W \in Nat
        BY <3>1, GearAssumption
      <3>3. q = Piece(q.no, q.kind, q.from, q.to)
        BY <2>1 DEF Pieces, Piece
      <3>4. q2 = Piece(q.no, q.kind, q.from + KEEP_W, q.to)
        BY <3>3 DEF Piece
      <3> QED
        BY <3>1, <3>2, <3>4 DEF Pieces, Piece
    <2>3. [owed EXCEPT ![1].from = @ + KEEP_W] = [owed EXCEPT ![1] = q2]
      OBVIOUS
    <2> HIDE DEF q2
    <2>4. [owed EXCEPT ![1] = q2] \in Seq(Pieces)
      BY <2>1, <2>2
    <2> QED
      BY <1>2, <2>1, <2>3, <2>4 DEF AfterTake
  <1> QED
    BY <1>1, <1>2

\* The bytes of frame kind k that are out after the beat at sent.
TakenTo(k, sent) == IF sent + KEEP_W <= Frames[k].len THEN sent + KEEP_W ELSE Frames[k].len

\* They are one more at least, and all of them with the last beat.
LEMMA TakenFacts ==
    ASSUME NEW no, NEW k \in Kinds, NEW sent \in Nat, sent < Frames[k].len
    PROVE  /\ TakenTo(k, sent) \in Nat \ {0} /\ TakenTo(k, sent) <= Frames[k].len
           /\ TakenTo(k, sent) > sent
           /\ BeatAt(no, k, sent).last <=> TakenTo(k, sent) = Frames[k].len
           /\ BeatAt(no, k, sent).last = (sent + KEEP_W >= Frames[k].len)
           /\ sent + Len(BeatAt(no, k, sent).bytes) = TakenTo(k, sent)
           /\ BeatAt(no, k, sent).bytes = Bytes(no, k, sent + 1, TakenTo(k, sent))
  <1> DEFINE to == TakenTo(k, sent)
             s1 == sent + 1
  <1>1. Frames[k].len \in Nat /\ KEEP_W \in Nat \ {0}
    BY GearAssumption, FrameAssumption DEF FrameOK
  <1>2. to \in Nat \ {0} /\ to <= Frames[k].len /\ to > sent /\ s1 \in Int
    BY <1>1 DEF TakenTo
  <1>3. BeatTo(no, k, sent, to)
    BY BeatIs DEF TakenTo
  <1>4. sent + KEEP_W >= Frames[k].len <=> to = Frames[k].len
    BY <1>1 DEF TakenTo
  <1>5. BeatAt(no, k, sent).bytes = Bytes(no, k, s1, to) /\ BeatAt(no, k, sent).last = (sent + KEEP_W >= Frames[k].len)
    BY <1>3 DEF BeatTo
  <1> HIDE DEF to, s1
  <1>6. Len(Bytes(no, k, s1, to)) = IF to < s1 THEN 0 ELSE to - s1 + 1
    BY <1>2, BytesAre
  <1>7. Len(Bytes(no, k, s1, to)) = to - sent
    BY <1>2, <1>6 DEF s1
  <1>8. sent + Len(BeatAt(no, k, sent).bytes) = to
    BY <1>2, <1>5, <1>7
  <1> QED
    BY <1>2, <1>4, <1>5, <1>8 DEF to, s1

\* The layer accepts the beat at sent of frame no, and X is newly owed.
Arrives(no, k, sent, X, ready) ==
    /\ s_axis_tready(ready) /\ layer' = layer
    /\ no \in 1 .. MaxFrames /\ k \in Kinds /\ Frames[k].layer = layer
    /\ sent \in Nat /\ sent < Frames[k].len
    /\ frame' = [no |-> no, kind |-> k, sent |-> TakenTo(k, sent)]
    /\ Stage(TRUE, Frames[k], BeatAt(no, k, sent), ready)
    /\ X \in Seq(Pieces) /\ owed' = AfterTake(ready) \o X
    /\ \/ ~Sending /\ sent = 0 /\ X = PayloadOf(no, k)
       \/ Sending /\ sent = frame.sent /\ no = frame.no /\ k = frame.kind /\ X = <<>>

\* It accepts none.
Stalls(valid, ready) ==
    /\ valid \in BOOLEAN /\ ~(valid /\ s_axis_tready(ready)) /\ layer' = layer
    /\ frame' = frame /\ Stage(valid, Frames[frame.kind], NULL, ready)
    /\ owed' = AfterTake(ready) \o <<>>

\* Every edge is one or the other, and the source keeps its invariant.
LEMMA EdgeIs ==
    ASSUME SourceInv, NEW ready \in BOOLEAN, Edge(ready)
    PROVE  /\ SourceInv'
           /\ \/ \E no, k, sent, X : Arrives(no, k, sent, X, ready)
              \/ \E valid : Stalls(valid, ready)
  <1>0. /\ layer \in Layers /\ s_axis_tvalid \in BOOLEAN
        /\ frame \in [no : 0 .. MaxFrames, kind : Kinds, sent : Nat \ {0}]
        /\ frame.sent <= Frames[frame.kind].len
        /\ Sending => Frames[frame.kind].layer = layer /\ frame.no > 0
        /\ s_axis_tvalid => Sending \/ frame.no < MaxFrames
        /\ owed \in Seq(Pieces) /\ AfterTake(ready) \in Seq(Pieces) /\ MaxFrames \in Nat
    BY AfterTakeType, FrameAssumption DEF SourceInv
  <1>1. AfterTake(ready) \o <<>> = AfterTake(ready) /\ <<>> \in Seq(Pieces)
    BY <1>0, ConcatEmptySeq
  <1>2. ASSUME NEW k \in Kinds, FirstBeat(k, ready)
        PROVE  SourceInv' /\ Arrives(frame.no + 1, k, 0, PayloadOf(frame.no + 1, k), ready)
    <2> DEFINE no == frame.no + 1
               to == TakenTo(k, 0)
    <2>1. /\ ~Sending /\ Frames[k].layer = layer /\ s_axis_tvalid /\ s_axis_tready(ready)
          /\ frame' = [no |-> no, kind |-> k, sent |-> 0 + Len(BeatAt(no, k, 0).bytes)]
          /\ Stage(TRUE, Frames[k], BeatAt(no, k, 0), ready)
          /\ Offer /\ layer' = layer /\ owed' = WithPayload(AfterTake(ready), no, k)
      BY <1>2 DEF FirstBeat, Accept
    <2>2. no \in 1 .. MaxFrames /\ no \in 0 .. MaxFrames
      BY <1>0, <2>1
    <2>3. 0 < Frames[k].len
      BY FrameAssumption DEF FrameOK
    <2> HIDE DEF no, to
    <2>4. to \in Nat \ {0} /\ to <= Frames[k].len /\ 0 + Len(BeatAt(no, k, 0).bytes) = to
      BY <2>3, TakenFacts DEF to
    <2>5. PayloadOf(no, k) \in Seq(Pieces) /\ owed' = AfterTake(ready) \o PayloadOf(no, k)
      BY <1>0, <2>1, <2>2, WithPayloadIs
    <2>6. owed' \in Seq(Pieces)
      BY <1>0, <2>5, ConcatProperties
    <2>7. frame' = [no |-> no, kind |-> k, sent |-> to]
      BY <2>1, <2>4
    <2>8. SourceInv'
      <3>1. s_axis_tvalid' \in BOOLEAN /\ (s_axis_tvalid' => Sending' \/ frame'.no < MaxFrames)
        BY <2>1 DEF Offer, Sending
      <3>2. frame' \in [no : 0 .. MaxFrames, kind : Kinds, sent : Nat \ {0}] /\ frame'.sent <= Frames[frame'.kind].len
        BY <2>2, <2>4, <2>7
      <3>3. Frames[frame'.kind].layer = layer' /\ frame'.no > 0
        BY <2>1, <2>2, <2>7
      <3> QED
        BY <1>0, <2>1, <2>6, <3>1, <3>2, <3>3 DEF SourceInv
    <2>9. Arrives(no, k, 0, PayloadOf(no, k), ready)
      BY <2>1, <2>2, <2>3, <2>5, <2>7 DEF Arrives, to
    <2> QED
      BY <2>8, <2>9 DEF no
  <1>3. ASSUME LaterBeat(ready)
        PROVE  SourceInv' /\ Arrives(frame.no, frame.kind, frame.sent, <<>>, ready)
    <2> DEFINE no == frame.no
               k == frame.kind
               sent == frame.sent
               to == TakenTo(k, sent)
    <2>1. /\ Sending /\ s_axis_tvalid /\ s_axis_tready(ready)
          /\ frame' = [no |-> no, kind |-> k, sent |-> sent + Len(BeatAt(no, k, sent).bytes)]
          /\ Stage(TRUE, Frames[k], BeatAt(no, k, sent), ready)
          /\ Offer /\ layer' = layer /\ owed' = AfterTake(ready)
      BY <1>3 DEF LaterBeat, Accept
    <2>2. no \in 1 .. MaxFrames /\ no \in 0 .. MaxFrames /\ k \in Kinds /\ sent \in Nat /\ sent < Frames[k].len
      BY <1>0, <2>1 DEF Sending
    <2>3. Sending /\ sent = frame.sent /\ no = frame.no /\ k = frame.kind /\ Frames[k].layer = layer
      BY <1>0, <2>1
    <2> HIDE DEF no, to, k, sent
    <2>4. to \in Nat \ {0} /\ to <= Frames[k].len /\ sent + Len(BeatAt(no, k, sent).bytes) = to
      BY <2>2, TakenFacts DEF to
    <2>7. frame' = [no |-> no, kind |-> k, sent |-> to]
      BY <2>1, <2>4
    <2>8. SourceInv'
      <3>1. s_axis_tvalid' \in BOOLEAN /\ (s_axis_tvalid' => Sending' \/ frame'.no < MaxFrames)
        BY <2>1 DEF Offer, Sending
      <3>2. frame' \in [no : 0 .. MaxFrames, kind : Kinds, sent : Nat \ {0}] /\ frame'.sent <= Frames[frame'.kind].len
        BY <2>2, <2>4, <2>7
      <3>3. Frames[frame'.kind].layer = layer' /\ frame'.no > 0
        BY <2>1, <2>2, <2>3, <2>7
      <3> QED
        BY <1>0, <2>1, <3>1, <3>2, <3>3 DEF SourceInv
    <2>9. Arrives(no, k, sent, <<>>, ready)
      BY <1>1, <2>1, <2>2, <2>3, <2>7 DEF Arrives, to
    <2> QED
      BY <2>8, <2>9 DEF no, k, sent
  <1>4. ASSUME NoBeat(ready)
        PROVE  SourceInv' /\ Stalls(s_axis_tvalid, ready)
    <2>1. /\ ~(s_axis_tvalid /\ s_axis_tready(ready))
          /\ Stage(s_axis_tvalid, Frames[frame.kind], NULL, ready)
          /\ owed' = AfterTake(ready) /\ layer' = layer /\ frame' = frame
          /\ IF s_axis_tvalid THEN s_axis_tvalid' = s_axis_tvalid ELSE Offer
      BY <1>4 DEF NoBeat
    <2>2. s_axis_tvalid' \in BOOLEAN /\ (s_axis_tvalid' => Sending' \/ frame'.no < MaxFrames)
      <3>1. Sending' <=> Sending
        BY <2>1 DEF Sending
      <3>2. CASE s_axis_tvalid
        BY <1>0, <2>1, <3>1, <3>2
      <3>3. CASE ~s_axis_tvalid
        BY <2>1, <3>3 DEF Offer, Sending
      <3> QED
        BY <3>2, <3>3
    <2>3. Sending' => Frames[frame'.kind].layer = layer' /\ frame'.no > 0
      BY <1>0, <2>1 DEF Sending
    <2>4. SourceInv'
      BY <1>0, <2>1, <2>2, <2>3 DEF SourceInv
    <2> QED
      BY <1>0, <1>1, <2>1, <2>4 DEF Stalls
  <1> QED
    BY <1>2, <1>3, <1>4 DEF Edge

-----------------------------------------------------------------------------
(* The layers that decide on the spot.                                     *)

\* None are held.
LEMMA HeldNone == \A no, k : HeldBeats(no, k, 0) = <<>>
  BY DEF HeldBeats

\* One more is held.
LEMMA HeldOneMore ==
    ASSUME NEW no, NEW k, NEW n \in Nat
    PROVE  /\ HeldBeats(no, k, n + 1) = Append(HeldBeats(no, k, n), BeatAt(no, k, KEEP_W * n))
           /\ Len(HeldBeats(no, k, n)) = n
           /\ \A i \in 1 .. n : HeldBeats(no, k, n)[i] = BeatAt(no, k, KEEP_W * (i - 1))
  <1> DEFINE b(i) == BeatAt(no, k, KEEP_W * (i - 1))
             S == {b(i) : i \in 1 .. n + 1}
             h == HeldBeats(no, k, n)
             g == HeldBeats(no, k, n + 1)
  <1>1. h = [i \in 1 .. n |-> b(i)] /\ g = [i \in 1 .. n + 1 |-> b(i)]
    BY DEF HeldBeats
  <1>2. b(n + 1) = BeatAt(no, k, KEEP_W * n) /\ b(n + 1) \in S
    <2>1. n + 1 - 1 = n /\ n + 1 \in 1 .. n + 1
      OBVIOUS
    <2> QED
      BY <2>1
  <1>3. \A i \in 1 .. n : b(i) \in S
    OBVIOUS
  <1> HIDE DEF b, S, h, g
  <1>4. h \in Seq(S) /\ Len(h) = n
    BY <1>1, <1>3
  <1>5. g = Append(h, b(n + 1))
    BY <1>1, <1>2, <1>4
  <1> QED
    BY <1>1, <1>2, <1>4, <1>5 DEF h, g, b

\* Without hold and replay its registers stay as they are after reset.
LEMMA HoldDirect ==
    ASSUME HoldInv, ~Sniffs(layer), layer' = layer, FsmStays
    PROVE  HoldInv'
  <1>1. /\ state = "SNIFF" /\ nheld = 0 /\ drain_idx \in 0 .. nheld
        /\ skip_r \in Nat /\ keep_r \in Nat /\ drop_r \in BOOLEAN
        /\ ihl_r \in Nat /\ total_r \in Nat /\ bad_r \in BOOLEAN /\ hb = <<>>
    BY HeldNone DEF HoldInv
  <1>2. /\ state' = state /\ nheld' = nheld /\ drain_idx' = drain_idx /\ hb' = hb
        /\ skip_r' = skip_r /\ keep_r' = keep_r /\ drop_r' = drop_r
        /\ ihl_r' = ihl_r /\ total_r' = total_r /\ bad_r' = bad_r
    BY DEF FsmStays, fsmVars
  <1>3. ~Sniffs(layer') /\ drain_idx = 0
    BY <1>1
  <1>4. hb' = HeldBeats(frame'.no, frame'.kind, nheld')
    BY <1>1, <1>2, HeldNone
  <1> QED
    BY <1>1, <1>2, <1>3, <1>4 DEF HoldInv

\* The invariant of the gearbox after an edge, from the bytes that it has of a frame.
LEMMA DirectInv ==
    ASSUME NEW no, NEW k \in Kinds, NEW to \in Nat \ {0}, NEW s, NEW l, NEW d, ~Sniffs(layer'),
           frame' = [no |-> no, kind |-> k, sent |-> to], to <= Frames[k].len,
           Ctrl' = [s |-> s, l |-> l, d |-> d], PortTo(no, k, s, l, d, to)'
    PROVE  GearInv'
  <1>0. Frames[k].len \in Nat
    BY FrameAssumption DEF FrameOK
  <1>1. Waiting' = <<>> /\ Fed' = to /\ (Within' <=> to < Frames[k].len)
    BY <1>0 DEF Waiting, Fed, Within
  <1>2. frame'.no = no /\ frame'.kind = k /\ Ctrl'.s = s /\ Ctrl'.l = l /\ Ctrl'.d = d
    OBVIOUS
  <1>3. CASE to < Frames[k].len
    <2>1. InPort(no, k, s, l, d, to)'
      BY <1>3 DEF PortTo
    <2>2. InPort(frame.no, frame.kind, Ctrl.s, Ctrl.l, Ctrl.d, Fed)'
      BY <1>1, <1>2, <2>1 DEF InPort, InFrame
    <2> QED
      BY <1>1, <1>3, <2>2 DEF GearInv
  <1>4. CASE ~(to < Frames[k].len)
    <2>1. IdlePort(<<>>)'
      BY <1>4 DEF PortTo
    <2>2. IdlePort(Waiting)'
      BY <1>1, <2>1 DEF IdlePort
    <2> QED
      BY <1>1, <1>4, <2>2 DEF GearInv
  <1> QED
    BY <1>3, <1>4

\* The control values of a frame of these layers, for all its beats.
DirectCtrl(k) ==
    LET f == Frames[k] IN
    IF f.layer = "udp"
    THEN [s |-> 8, l |-> IF f.ulen > 8 THEN f.ulen - 8 ELSE 0, d |-> ~f.port \/ f.ulen <= 8 \/ f.len < 8]
    ELSE [s |-> f.skip, l |-> f.keep_len, d |-> f.drop]

\* They are of the right type and cut the payload out.
LEMMA DirectCuts ==
    ASSUME NEW k \in Kinds, Intact(Frames[k]), Frames[k].layer \in {"gear", "udp"}
    PROVE  LET c == DirectCtrl(k) IN
           c.s \in Nat /\ c.l \in Nat /\ c.d \in BOOLEAN /\ Cuts(k, c.s, c.l, c.d)
  <1> DEFINE f == Frames[k]
             c == DirectCtrl(k)
  <1>1. CASE f.layer = "udp"
    <2> DEFINE l == IF f.ulen > 8 THEN f.ulen - 8 ELSE 0
               d == ~f.port \/ f.ulen <= 8 \/ f.len < 8
    <2>1. f.ulen \in Nat
      BY <1>1, FrameAssumption DEF FrameOK
    <2>2. l \in Nat /\ d \in BOOLEAN
      BY <2>1
    <2>3. Cuts(k, 8, l, d)
      BY <1>1, UdpCuts
    <2>4. c = [s |-> 8, l |-> l, d |-> d]
      BY <1>1 DEF DirectCtrl
    <2> HIDE DEF l, d, c
    <2>5. c.s = 8 /\ c.l = l /\ c.d = d
      BY <2>4
    <2> QED
      BY <2>2, <2>3, <2>5 DEF c
  <1>2. CASE f.layer = "gear"
    <2>1. f.skip \in Nat /\ f.keep_len \in Nat /\ f.drop \in BOOLEAN
      BY <1>2, FrameAssumption DEF FrameOK
    <2>2. Cuts(k, f.skip, f.keep_len, f.drop)
      BY <1>2, GearCuts
    <2>3. c.s = f.skip /\ c.l = f.keep_len /\ c.d = f.drop
      BY <1>2 DEF DirectCtrl
    <2> HIDE DEF c
    <2> QED
      BY <2>1, <2>2, <2>3 DEF c
  <1> QED
    BY <1>1, <1>2

\* An edge at which neither the gearbox nor the registers in front of it move.
LEMMA QuietEdge ==
    ASSUME NEW ready \in BOOLEAN, SourceInv, GearTypes, GearInv, NoAccept(ready), layer' = layer,
           frame' = frame, UNCHANGED fsmVars, owed' = AfterTake(ready) \o <<>>
    PROVE  GearTypes' /\ GearInv'
  <1>1. /\ state' = state /\ nheld' = nheld /\ drain_idx' = drain_idx
        /\ skip_r' = skip_r /\ keep_r' = keep_r /\ drop_r' = drop_r
    BY DEF fsmVars
  <1>2. Within' = Within /\ Fed' = Fed /\ Waiting' = Waiting /\ Ctrl' = Ctrl
    BY <1>1 DEF Within, Fed, Waiting, Ctrl
  <1>3. GearTypes'
    BY DEF NoAccept, GearTypes
  <1>4. owed \in Seq(Pieces)
    BY DEF SourceInv
  <1>5. CASE Within
    <2>1. PICK no, k, s, l, d, fed : /\ no = frame.no /\ k = frame.kind /\ fed = Fed
                                     /\ s = Ctrl.s /\ l = Ctrl.l /\ d = Ctrl.d
      OBVIOUS
    <2>2. InPort(no, k, s, l, d, fed)
      BY <1>5, <2>1 DEF GearInv
    <2>3. InPort(no, k, s, l, d, fed)'
      BY <1>4, <2>2, KeepIn
    <2>4. InPort(frame.no, frame.kind, Ctrl.s, Ctrl.l, Ctrl.d, Fed)'
      BY <1>2, <2>1, <2>3 DEF InPort, InFrame
    <2> QED
      BY <1>2, <1>3, <1>5, <2>4 DEF GearInv
  <1>6. CASE ~Within
    <2>1. PICK Y : Y = Waiting
      OBVIOUS
    <2>2. IdlePort(Y)
      BY <1>6, <2>1 DEF GearInv, IdlePort
    <2>3. Y \in Seq(Pieces) /\ <<>> \in Seq(Pieces)
      <3>1. frame.no \in 0 .. MaxFrames /\ frame.kind \in Kinds
        BY DEF SourceInv
      <3>2. <<>> \in Seq(Pieces) /\ PayloadOf(frame.no, frame.kind) \in Seq(Pieces)
        <4>1. <<>> \in Seq(Pieces)
          OBVIOUS
        <4> QED
          BY <3>1, <4>1, WithPayloadIs
      <3>3. Waiting = PayloadOf(frame.no, frame.kind) \/ Waiting = <<>>
        BY DEF Waiting, PayloadOf
      <3> QED
        BY <2>1, <3>2, <3>3
    <2>4. IdlePort(Y \o <<>>)'
      BY <1>4, <2>2, <2>3, KeepIdle
    <2>5. Y \o <<>> = Waiting'
      BY <1>2, <2>1, <2>3, ConcatEmptySeq
    <2>6. IdlePort(Waiting)'
      BY <2>4, <2>5 DEF IdlePort
    <2> QED
      BY <1>2, <1>3, <1>6, <2>6 DEF GearInv
  <1> QED
    BY <1>5, <1>6

\* What the layer hands to the gearbox; with the first beat, the control values above.
LEMMA DirectStage ==
    ASSUME layer \in {"gear", "udp"}, NEW valid, NEW f, NEW beat, NEW ready, Stage(valid, f, beat, ready)
    PROVE  /\ FsmStays
           /\ \E s, l, d : GearEdge(valid, beat, s, l, d, ready)
           /\ \A no, k : k \in Kinds /\ layer \in Layers /\ Frames[k].layer = layer /\ f = Frames[k]
                         /\ beat = BeatAt(no, k, 0) =>
                 LET c == DirectCtrl(k) IN GearEdge(valid, beat, c.s, c.l, c.d, ready)
  <1>0. ~Sniffs(layer) /\ layer # "reg"
    BY DEF Sniffs, HB_DEPTH
  <1>1. CASE layer = "gear"
    <2>1. FsmStays /\ GearEdge(valid, beat, f.skip, f.keep_len, f.drop, ready)
      BY <1>0, <1>1 DEF Stage
    <2>2. ASSUME NEW k, Frames[k].layer = layer
          PROVE  LET c == DirectCtrl(k) IN
                 c.s = Frames[k].skip /\ c.l = Frames[k].keep_len /\ c.d = Frames[k].drop
      BY <1>1, <2>2 DEF DirectCtrl
    <2> QED
      BY <2>1, <2>2
  <1>2. CASE layer = "udp"
    <2> DEFINE d0 == ~f.port \/ f.ulen <= 8 \/ (beat.last /\ Len(beat.bytes) < KEEP_W)
               l0 == IF f.ulen > 8 THEN f.ulen - 8 ELSE 0
    <2>1. FsmStays /\ GearEdge(valid, beat, 8, l0, d0, ready)
      BY <1>0, <1>2 DEF Stage, UdpEdge
    <2>2. ASSUME NEW no, NEW k \in Kinds, layer \in Layers, Frames[k].layer = layer, f = Frames[k], beat = BeatAt(no, k, 0)
          PROVE  LET c == DirectCtrl(k) IN c.s = 8 /\ c.l = l0 /\ c.d = d0
      <3>1. KEEP_W = 8 /\ f.len \in Nat /\ 0 < f.len
        BY <1>2, <2>2, FrameAssumption DEF FrameOK
      <3>2. /\ beat.last <=> TakenTo(k, 0) = Frames[k].len
            /\ 0 + Len(beat.bytes) = TakenTo(k, 0) /\ TakenTo(k, 0) \in Nat
        BY <2>2, <3>1, TakenFacts
      <3>3. TakenTo(k, 0) = IF 8 <= f.len THEN 8 ELSE f.len
        BY <2>2, <3>1 DEF TakenTo
      <3>4. Len(beat.bytes) = TakenTo(k, 0)
        <4>1. Len(beat.bytes) \in Nat
          <5>1. beat.bytes = Bytes(no, k, 0 + 1, TakenTo(k, 0))
            BY <2>2, <3>1, TakenFacts
          <5>2. 0 + 1 \in Int /\ TakenTo(k, 0) \in Int
            BY <3>2
          <5>3. Bytes(no, k, 0 + 1, TakenTo(k, 0)) \in Seq(ByteSet(no, k))
            BY <5>2, BytesAre
          <5> QED
            BY <5>1, <5>3
        <4> QED
          BY <3>2, <4>1
      <3>5. (beat.last /\ Len(beat.bytes) < KEEP_W) <=> f.len < 8
        BY <2>2, <3>1, <3>2, <3>3, <3>4
      <3>6. d0 = (~f.port \/ f.ulen <= 8 \/ f.len < 8)
        BY <3>5
      <3>7. DirectCtrl(k) = [s |-> 8, l |-> l0, d |-> ~f.port \/ f.ulen <= 8 \/ f.len < 8]
        BY <1>2, <2>2 DEF DirectCtrl
      <3> HIDE DEF l0, d0
      <3> QED
        BY <3>6, <3>7
    <2> HIDE DEF l0, d0
    <2> QED
      BY <2>1, <2>2
  <1> QED
    BY <1>1, <1>2

\* A frame that the reference and the hardware treat alike, and no other.
AllIntact == \A k \in Kinds : Intact(Frames[k])

\* An edge of the gearbox alone or of the UDP layer.
LEMMA DirectEdge ==
    ASSUME AllIntact, FeedInv, layer \in {"gear", "udp"}, NEW ready \in BOOLEAN, SourceInv',
           \/ \E no, k, sent, X : Arrives(no, k, sent, X, ready)
           \/ \E valid : Stalls(valid, ready)
    PROVE  FeedInv'
  <1>0. ~Sniffs(layer) /\ layer # "reg"
    BY DEF Sniffs, HB_DEPTH
  <1>1. SourceInv /\ HoldInv /\ GearTypes /\ GearInv /\ owed \in Seq(Pieces)
    BY <1>0 DEF FeedInv, SourceInv
  <1>2. ~draining /\ (s_axis_tready(ready) <=> gear_tready(ready))
    BY <1>0, <1>1 DEF HoldInv, draining, s_axis_tready
  <1>3. ASSUME NEW no, NEW k, NEW sent, NEW X, Arrives(no, k, sent, X, ready)
        PROVE  FeedInv'
    <2> DEFINE c == DirectCtrl(k)
               beat == BeatAt(no, k, sent)
               to == TakenTo(k, sent)
    <2>1. /\ layer' = layer /\ no \in 0 .. MaxFrames /\ k \in Kinds /\ Frames[k].layer = layer
          /\ sent \in Nat /\ sent < Frames[k].len /\ frame' = [no |-> no, kind |-> k, sent |-> to]
          /\ Stage(TRUE, Frames[k], beat, ready) /\ gear_tready(ready)
          /\ X \in Seq(Pieces) /\ owed' = AfterTake(ready) \o X
      <3>1. no \in 1 .. MaxFrames /\ MaxFrames \in Nat
        BY <1>3, FrameAssumption DEF Arrives
      <3>2. no \in 0 .. MaxFrames
        BY <3>1
      <3> HIDE DEF beat, to
      <3> QED
        BY <1>2, <1>3, <3>2 DEF Arrives, beat, to
    <2>2. \/ ~Sending /\ sent = 0 /\ X = PayloadOf(no, k)
          \/ Sending /\ sent = frame.sent /\ no = frame.no /\ k = frame.kind /\ X = <<>>
      BY <1>3 DEF Arrives
    <2>3. c.s \in Nat /\ c.l \in Nat /\ c.d \in BOOLEAN /\ Cuts(k, c.s, c.l, c.d)
      BY <2>1, DirectCuts DEF AllIntact
    <2>4. to \in Nat \ {0} /\ to <= Frames[k].len
      BY <2>1, TakenFacts
    <2>5. FsmStays /\ HoldInv'
      BY <1>0, <1>1, <2>1, DirectStage, HoldDirect
    <2>6. Ctrl' = [s |-> c.s, l |-> c.l, d |-> c.d]
      BY <2>1 DEF Ctrl, DirectCtrl
    <2>7. CASE ~Sending
      <3>1. sent = 0 /\ X = PayloadOf(no, k) /\ ~Within /\ Waiting = <<>>
        BY <1>0, <2>2, <2>7 DEF Within, Fed, Sending, Waiting
      <3>2. GearEdge(TRUE, BeatAt(no, k, 0), c.s, c.l, c.d, ready)
        BY <1>1, <2>1, <3>1, DirectStage DEF SourceInv
      <3>3. GearAccept(BeatAt(no, k, 0), c.s, c.l, c.d, ready)
        BY <2>1, <3>2 DEF GearEdge
      <3>4. PICK Y \in Seq(Pieces) : Y = <<>>
        <4>1. <<>> \in Seq(Pieces)
          OBVIOUS
        <4> QED
          BY <4>1
      <3> HIDE DEF c
      <3>5. IdlePort(Y) /\ Y \o X = X
        BY <1>1, <2>1, <3>1, <3>4, ConcatEmptySeq DEF GearInv, IdlePort
      <3>6. PICK s \in Nat, l \in Nat, d \in BOOLEAN : s = c.s /\ l = c.l /\ d = c.d /\ Cuts(k, s, l, d)
        BY <2>3
      <3>7. Y \o X = Remaining(no, k, s + 1, EndAt(s, l, d, Frames[k].len))
        BY <2>1, <3>1, <3>5, <3>6, CutsPayload
      <3>8. GearAccept(BeatAt(no, k, 0), s, l, d, ready)
        BY <3>3, <3>6
      <3>9. to = IF KEEP_W <= Frames[k].len THEN KEEP_W ELSE Frames[k].len
        BY <3>1, GearAssumption DEF TakenTo
      <3> HIDE DEF to, beat
      <3>10. GearTypes' /\ PortTo(no, k, s, l, d, to)'
        <4>1. /\ no \in 0 .. MaxFrames /\ k \in Kinds /\ gear_tready(ready) /\ X \in Seq(Pieces)
              /\ owed' = AfterTake(ready) \o X
          BY <2>1
        <4>2. IdlePort(Y)
          BY <3>5
        <4>3. owed \in Seq(Pieces) /\ GearTypes
          BY <1>1
        <4> QED
          BY <3>7, <3>8, <3>9, <4>1, <4>2, <4>3, EnterFrame
      <3>11. Ctrl' = [s |-> s, l |-> l, d |-> d]
        BY <2>6, <3>6
      <3>12. GearInv'
        BY <1>0, <2>1, <2>4, <3>10, <3>11, DirectInv
      <3> QED
        BY <1>0, <2>1, <2>5, <3>10, <3>12 DEF FeedInv
    <2>8. CASE Sending
      <3>1. sent = frame.sent /\ no = frame.no /\ k = frame.kind /\ X = <<>>
        BY <2>2, <2>8
      <3>2. Within /\ Fed = sent /\ Ctrl = [s |-> c.s, l |-> c.l, d |-> c.d]
        <4>1. Fed = sent /\ sent > 0 /\ sent < Frames[frame.kind].len
          BY <1>0, <1>1, <2>1, <3>1 DEF Fed, SourceInv
        <4>2. Ctrl = [s |-> c.s, l |-> c.l, d |-> c.d]
          BY <2>1, <3>1 DEF Ctrl, DirectCtrl
        <4> QED
          BY <4>1, <4>2 DEF Within
      <3>3. PICK s, l, d : GearEdge(TRUE, beat, s, l, d, ready)
        BY <2>1, DirectStage
      <3>4. GearAccept(BeatAt(no, k, sent), s, l, d, ready)
        BY <2>1, <3>3 DEF GearEdge
      <3> HIDE DEF c
      <3>5. InPort(no, k, c.s, c.l, c.d, sent)
        BY <1>1, <3>1, <3>2 DEF GearInv
      <3>6. to = IF sent + KEEP_W <= Frames[k].len THEN sent + KEEP_W ELSE Frames[k].len
        BY DEF TakenTo
      <3> HIDE DEF to
      <3>7. GearTypes' /\ PortTo(no, k, c.s, c.l, c.d, to)'
        BY <1>1, <2>1, <3>1, <3>4, <3>5, <3>6, ContinueFrame
      <3>8. GearInv'
        BY <1>0, <2>1, <2>4, <2>6, <3>7, DirectInv
      <3> QED
        BY <1>0, <2>1, <2>5, <3>7, <3>8 DEF FeedInv
    <2> QED
      BY <2>7, <2>8
  <1>4. ASSUME NEW valid, Stalls(valid, ready)
        PROVE  FeedInv'
    <2>1. /\ valid \in BOOLEAN /\ ~(valid /\ gear_tready(ready)) /\ layer' = layer /\ frame' = frame
          /\ Stage(valid, Frames[frame.kind], NULL, ready) /\ owed' = AfterTake(ready) \o <<>>
      BY <1>2, <1>4 DEF Stalls
    <2>2. FsmStays /\ HoldInv'
      BY <1>0, <1>1, <2>1, DirectStage, HoldDirect
    <2>3. PICK s, l, d : GearEdge(valid, NULL, s, l, d, ready)
      BY <2>1, DirectStage
    <2>4. NoAccept(ready)
      BY <1>1, <2>1, <2>3, GearIdleIs
    <2>5. GearTypes' /\ GearInv'
      BY <1>1, <2>1, <2>2, <2>4, QuietEdge DEF FsmStays
    <2> QED
      BY <1>0, <2>1, <2>2, <2>5 DEF FeedInv
  <1> QED
    BY <1>3, <1>4

-----------------------------------------------------------------------------
(* The register slice.                                                     *)

\* A beat of the source is the next one of the rest of its frame.
LEMMA BeatIsDue ==
    ASSUME NEW no \in 0 .. MaxFrames, NEW k \in Kinds, NEW sent \in Nat, sent < Frames[k].len
    PROVE  /\ BeatAt(no, k, sent) # NULL
           /\ Emitted(no, k, sent + 1, TakenTo(k, sent) + 1, Frames[k].len, BeatAt(no, k, sent))
           /\ Min({sent + KEEP_W, Frames[k].len}) = TakenTo(k, sent)
  <1> DEFINE len == Frames[k].len
             from == sent + 1
             z == sent + KEEP_W
             p == Piece(no, k, from, len)
  <1>1. KEEP_W \in Nat \ {0} /\ len \in Nat \ {0} /\ z \in Nat /\ from \in Nat \ {0} /\ from <= len
    BY GearAssumption, FrameAssumption DEF FrameOK
  <1>2. from + KEEP_W - 1 = z /\ (from + KEEP_W > len <=> z >= len)
    BY <1>1
  <1>3. (from + KEEP_W > len) = (z >= len)
    BY <1>2
  <1>4. DueOf(p) = [bytes |-> Bytes(no, k, from, Min({z, len})), last |-> z >= len]
    BY <1>2, <1>3 DEF DueOf, Piece
  <1>5. BeatAt(no, k, sent) = DueOf(p)
    BY <1>4 DEF BeatAt
  <1>6. Min({z, len}) = IF z <= len THEN z ELSE len
    <2> HIDE DEF z, len
    <2> QED
      BY <1>1, MinTwo
  <1>7. DueOf(p) # NULL
    <2> HIDE DEF from, len
    <2>1. len <= Frames[k].len
      BY <1>1 DEF len
    <2> QED
      BY <1>1, <2>1, DueIsBeat
  <1>8. TakenTo(k, sent) + 1 = IF from + KEEP_W > len THEN len + 1 ELSE from + KEEP_W
    BY <1>1 DEF TakenTo
  <1> HIDE DEF z, len, from, p
  <1>9. Emitted(no, k, from, TakenTo(k, sent) + 1, len, BeatAt(no, k, sent))
    BY <1>1, <1>5, <1>7, <1>8 DEF Emitted, p
  <1>10. Min({z, len}) = TakenTo(k, sent)
    BY <1>6 DEF TakenTo, z, len
  <1> QED
    BY <1>5, <1>7, <1>9, <1>10 DEF z, len, from

\* The beat at sent goes to a free port, and the rest of its frame is owed after it.
LEMMA RegPort ==
    ASSUME NEW no \in 0 .. MaxFrames, NEW k \in Kinds, NEW sent \in Nat, sent < Frames[k].len
    PROVE  LET to == TakenTo(k, sent)
               len == Frames[k].len
           IN  Port(BeatAt(no, k, sent), Remaining(no, k, sent + 1, len), Remaining(no, k, to + 1, len))
  <1> DEFINE to1 == TakenTo(k, sent) + 1
             len == Frames[k].len
             s1 == sent + 1
  <1>1. len \in Nat /\ s1 \in Nat /\ to1 \in Nat /\ Emitted(no, k, s1, to1, len, BeatAt(no, k, sent))
    <2>1. len \in Nat /\ s1 \in Nat
      BY FrameAssumption DEF FrameOK
    <2>2. TakenTo(k, sent) \in Nat
      BY TakenFacts
    <2>3. to1 \in Nat
      BY <2>2
    <2> QED
      BY <2>1, <2>3, BeatIsDue
  <1> HIDE DEF to1, len, s1
  <1>2. Port(BeatAt(no, k, sent), Remaining(no, k, s1, len) \o <<>>, Remaining(no, k, to1, len) \o <<>>)
    <2>1. <<>> \in Seq(Pieces)
      OBVIOUS
    <2> QED
      BY <1>1, <2>1, PortStep
  <1>3. /\ Remaining(no, k, s1, len) \o <<>> = Remaining(no, k, s1, len)
        /\ Remaining(no, k, to1, len) \o <<>> = Remaining(no, k, to1, len)
    BY <1>1, RemainingType, ConcatEmptySeq
  <1> QED
    BY <1>2, <1>3 DEF to1, len, s1

\* An edge of the register slice at which it accepts a beat.
LEMMA RegArrives ==
    ASSUME FeedInv, layer = "reg", NEW ready \in BOOLEAN, SourceInv',
           NEW no, NEW k, NEW sent, NEW X, Arrives(no, k, sent, X, ready)
    PROVE  FeedInv'
  <1> DEFINE beat == BeatAt(no, k, sent)
             to == TakenTo(k, sent)
             len == Frames[k].len
             R == Remaining(frame.no, frame.kind, frame.sent + 1, Frames[frame.kind].len)
             Z == Remaining(no, k, sent + 1, len)
  <1>0. ~Sniffs(layer)
    BY DEF Sniffs, HB_DEPTH
  <1>1. SourceInv /\ HoldInv /\ GearTypes /\ RegInv /\ owed \in Seq(Pieces)
    BY DEF FeedInv, SourceInv
  <1>2. /\ layer' = layer /\ k \in Kinds /\ Frames[k].layer = layer
        /\ sent \in Nat /\ sent < Frames[k].len /\ frame' = [no |-> no, kind |-> k, sent |-> to]
        /\ Stage(TRUE, Frames[k], beat, ready) /\ skid = NULL
        /\ X \in Seq(Pieces) /\ owed' = AfterTake(ready) \o X
    BY DEF Arrives, s_axis_tready
  <1>3. no \in 0 .. MaxFrames
    <2>1. no \in 1 .. MaxFrames /\ MaxFrames \in Nat
      BY FrameAssumption DEF Arrives
    <2> QED
      BY <2>1
  <1>4. RegEdge(TRUE, beat, ready) /\ FsmStays
    BY <1>0, <1>2 DEF Stage
  <1>5. HoldInv' /\ GearTypes' /\ buf_q' = <<>>
    <2>1. HoldInv'
      BY <1>0, <1>1, <1>2, <1>4, HoldDirect
    <2>2. GearTypes' /\ buf_q' = <<>>
      BY <1>1, <1>4 DEF RegEdge, GearTypes, RegInv
    <2> QED
      BY <2>1, <2>2
  <1>6. len \in Nat \ {0}
    BY <1>2, FrameAssumption DEF FrameOK
  <1>7. Port(m_axis, owed, R)
    BY <1>1, <1>2 DEF RegInv
  <1>8. R \o X = Z /\ R \in Seq(Pieces) /\ Z \in Seq(Pieces)
    <2>1. frame.no \in 0 .. MaxFrames /\ frame.kind \in Kinds /\ frame.sent + 1 \in Nat /\ sent + 1 \in Nat
      BY <1>1, <1>2 DEF SourceInv
    <2>2. Frames[frame.kind].len \in Nat
      BY <2>1, FrameAssumption DEF FrameOK
    <2>3. R \in Seq(Pieces) /\ Z \in Seq(Pieces)
      BY <1>2, <1>3, <1>6, <2>1, <2>2, RemainingType
    <2>4. CASE Sending
      <3>1. X = <<>> /\ R = Z
        BY <2>4 DEF Arrives
      <3> QED
        BY <2>3, <3>1, ConcatEmptySeq
    <2>5. CASE ~Sending
      <3>1. X = PayloadOf(no, k) /\ sent = 0
        BY <2>5 DEF Arrives
      <3>2. R = <<>>
        <4>1. frame.sent + 1 > Frames[frame.kind].len
          BY <1>1, <2>2, <2>5 DEF Sending, SourceInv
        <4>2. frame.sent + 1 \in Nat
          BY <2>1
        <4> QED
          BY <2>2, <4>1, <4>2 DEF Remaining
      <3>3. Golden(Frames[k]) = <<1, len>>
        <4>1. Golden(Frames[k]) = Cut(TRUE, 1, len)
          BY <1>2, GoldenIs
        <4> HIDE DEF len
        <4> QED
          BY <1>6, <4>1 DEF Cut
      <3>4. X = Z
        BY <3>1, <3>3 DEF PayloadOf
      <3> QED
        BY <2>3, <3>2, <3>4, ConcatEmptySeq
    <2> QED
      BY <2>3, <2>4, <2>5
  <1>9. frame'.no = no /\ frame'.kind = k /\ frame'.sent = to
    BY <1>2
  <1> HIDE DEF R
  <1>10. CASE out_free(ready)
    <2>1. m_axis' = beat /\ skid' = NULL /\ beat # NULL
      BY <1>2, <1>3, <1>4, <1>10, BeatIsDue DEF RegEdge
    <2>2. owed' = Z
      BY <1>2, <1>7, <1>8, <1>10, PortFree
    <2>3. Port(m_axis', owed', Remaining(no, k, to + 1, len))
      BY <1>2, <1>3, <2>1, <2>2, RegPort
    <2>4. RegInv'
      BY <1>5, <1>9, <2>1, <2>3 DEF RegInv
    <2> QED
      BY <1>2, <1>5, <2>4 DEF FeedInv
  <1>11. CASE ~out_free(ready)
    <2>1. m_axis' = m_axis /\ skid' = beat /\ beat # NULL /\ m_axis # NULL
      BY <1>2, <1>3, <1>4, <1>11, BeatIsDue DEF RegEdge, out_free
    <2>2. Port(m_axis, owed \o X, R \o X) /\ AfterTake(ready) = owed
      BY <1>1, <1>2, <1>7, <1>11, PortHeld
    <2>3. Port(m_axis', owed', Z)
      BY <1>2, <1>8, <2>1, <2>2
    <2>4. sent \in 0 .. len - 1 /\ to = Min({sent + KEEP_W, len})
      BY <1>2, <1>3, <1>6, BeatIsDue
    <2>5. RegInv'
      BY <1>5, <1>9, <2>1, <2>3, <2>4 DEF RegInv
    <2> QED
      BY <1>2, <1>5, <2>5 DEF FeedInv
  <1> QED
    BY <1>10, <1>11

\* An edge of the register slice at which it accepts none.
LEMMA RegStalls ==
    ASSUME FeedInv, layer = "reg", NEW ready \in BOOLEAN, SourceInv', NEW valid, Stalls(valid, ready)
    PROVE  FeedInv'
  <1> DEFINE no == frame.no
             k == frame.kind
             len == Frames[k].len
  <1>0. ~Sniffs(layer)
    BY DEF Sniffs, HB_DEPTH
  <1>1. SourceInv /\ HoldInv /\ GearTypes /\ RegInv /\ owed \in Seq(Pieces)
    BY DEF FeedInv, SourceInv
  <1>2. /\ valid \in BOOLEAN /\ ~(valid /\ skid = NULL) /\ layer' = layer /\ frame' = frame
        /\ Stage(valid, Frames[frame.kind], NULL, ready) /\ owed' = AfterTake(ready) \o <<>>
    BY DEF Stalls, s_axis_tready
  <1>3. RegEdge(valid, NULL, ready) /\ FsmStays
    BY <1>0, <1>2 DEF Stage
  <1>4. HoldInv' /\ GearTypes' /\ buf_q' = <<>>
    <2>1. HoldInv'
      BY <1>0, <1>1, <1>2, <1>3, HoldDirect
    <2>2. GearTypes' /\ buf_q' = <<>>
      BY <1>1, <1>3 DEF RegEdge, GearTypes, RegInv
    <2> QED
      BY <2>1, <2>2
  <1>5. no \in 0 .. MaxFrames /\ k \in Kinds /\ len \in Nat \ {0}
    BY <1>1, FrameAssumption DEF SourceInv, FrameOK
  <1>6. owed' = AfterTake(ready)
    BY <1>1, <1>2, AfterTakeType, ConcatEmptySeq
  <1>7. ASSUME NEW R, Port(m_axis, owed, R), ~out_free(ready)
        PROVE  owed' = owed /\ m_axis' = m_axis /\ skid' = skid
    <2>1. owed' = owed
      BY <1>6, <1>7 DEF AfterTake, out_free
    <2>2. m_axis' = m_axis /\ skid' = skid
      BY <1>2, <1>3, <1>7 DEF RegEdge
    <2> QED
      BY <2>1, <2>2
  <1>8. ASSUME NEW R, Port(m_axis, owed, R), out_free(ready)
        PROVE  owed' = R /\ skid' = NULL /\ m_axis' = skid
    <2>1. owed' = R
      BY <1>6, <1>8, PortFree
    <2>2. skid' = NULL /\ m_axis' = skid
      BY <1>2, <1>3, <1>8 DEF RegEdge
    <2> QED
      BY <2>1, <2>2
  <1>9. RegInv'
    <2>1. CASE skid = NULL
      <3> DEFINE R == Remaining(no, k, frame.sent + 1, len)
      <3>1. Port(m_axis, owed, R)
        BY <1>1, <2>1 DEF RegInv
      <3>2. skid' = NULL /\ Port(m_axis', owed', R)
        <4> HIDE DEF R
        <4>1. CASE out_free(ready)
          BY <1>8, <2>1, <3>1, <4>1 DEF Port
        <4>2. CASE ~out_free(ready)
          BY <1>7, <2>1, <3>1, <4>2
        <4> QED
          BY <4>1, <4>2
      <3> QED
        BY <1>2, <1>4, <3>2 DEF RegInv
    <2>2. CASE skid # NULL
      <3>1. PICK sent \in 0 .. len - 1 :
                /\ skid = BeatAt(no, k, sent)
                /\ frame.sent = Min({sent + KEEP_W, len})
                /\ Port(m_axis, owed, Remaining(no, k, sent + 1, len))
        BY <1>1, <2>2 DEF RegInv
      <3>2. sent \in Nat /\ sent < len
        BY <1>5, <3>1
      <3>3. CASE out_free(ready)
        <4>1. owed' = Remaining(no, k, sent + 1, len) /\ skid' = NULL /\ m_axis' = skid
          BY <1>8, <3>1, <3>3
        <4>2. frame.sent = TakenTo(k, sent)
          BY <1>5, <3>1, <3>2, BeatIsDue
        <4>3. Port(m_axis', owed', Remaining(no, k, frame.sent + 1, len))
          BY <1>5, <3>1, <3>2, <4>1, <4>2, RegPort
        <4> QED
          BY <1>2, <1>4, <4>1, <4>3 DEF RegInv
      <3>4. CASE ~out_free(ready)
        <4>1. owed' = owed /\ m_axis' = m_axis /\ skid' = skid
          BY <1>7, <3>1, <3>4
        <4> QED
          BY <1>1, <1>2, <1>4, <4>1 DEF RegInv
      <3> QED
        BY <3>3, <3>4
    <2> QED
      BY <2>1, <2>2
  <1> QED
    BY <1>2, <1>4, <1>9 DEF FeedInv

-----------------------------------------------------------------------------
(* Sniffing: the header is decided on with the beat that completes it.     *)

\* The registers that hold and replay sets.
RegTypes ==
    /\ skip_r \in Nat /\ keep_r \in Nat /\ drop_r \in BOOLEAN
    /\ ihl_r \in Nat /\ total_r \in Nat /\ bad_r \in BOOLEAN

\* A beat of a frame of kind k is held, with more to come of the header or with it decided.
Sniffed(k, last) ==
    /\ RegTypes' /\ drain_idx' = 0 /\ nheld' <= HB_DEPTH[layer]
    /\ \/ state' = "SNIFF" /\ ~last /\ SniffInv(k)'
       \/ state' = "EMIT" /\ Cuts(k, skip_r', keep_r', drop_r')

\* Before that beat.
Sniffing(k, last) ==
    /\ k \in Kinds /\ Frames[k].layer = layer /\ Intact(Frames[k])
    /\ state = "SNIFF" /\ drain_idx = 0 /\ nheld \in Nat /\ nheld' = nheld + 1 /\ layer' = layer
    /\ nheld > 0 => SniffInv(k)
    /\ last \in BOOLEAN /\ (last <=> Frames[k].len <= 8 * (nheld + 1))
    /\ RegTypes

\* The Ethernet layer.
LEMMA SniffEthRight ==
    ASSUME NEW k, NEW last, layer = "eth", Sniffing(k, last), SniffEth(Frames[k], last)
    PROVE  Sniffed(k, last)
  <1> DEFINE f == Frames[k]
  <1>1. /\ k \in Kinds /\ f.layer = "eth" /\ f.len \in Nat /\ Intact(f) /\ nheld \in Nat /\ nheld' = nheld + 1
        /\ (last <=> f.len <= 8 * (nheld + 1)) /\ layer' = "eth" /\ drain_idx = 0 /\ state = "SNIFF"
        /\ RegTypes
    BY FrameAssumption DEF Sniffing, FrameOK
  <1>2. nheld <= 2 /\ (nheld = 2 => f.ethertype = "vlan")
    BY <1>1 DEF Sniffing, SniffInv
  <1>3. /\ f.len <= 16 \/ (f.ethertype = "vlan" /\ f.len <= 24) => Cuts(k, 14, 0, TRUE)
        /\ f.len > 16 /\ f.ethertype # "vlan" => Cuts(k, 14, 0, f.ethertype # "ipv4")
        /\ f.len > 24 /\ f.ethertype = "vlan" => Cuts(k, 18, 0, f.inner # "ipv4")
    BY <1>1, EthCuts
  <1>4. ihl_r' = ihl_r /\ total_r' = total_r /\ bad_r' = bad_r
    BY DEF SniffEth
  <1>5. nheld' <= HB_DEPTH[layer]
    BY <1>1, <1>2 DEF HB_DEPTH
  <1> HIDE DEF f
  <1>6. ASSUME NEW s \in Nat, NEW d \in BOOLEAN, Resolve(s, 0, d), Cuts(k, s, 0, d)
        PROVE  Sniffed(k, last)
    BY <1>1, <1>4, <1>5, <1>6 DEF Resolve, Sniffed, RegTypes
  <1>7. CASE last
    <2>1. Resolve(14, 0, TRUE)
      BY <1>7 DEF SniffEth
    <2>2. f.len <= 16 \/ (f.ethertype = "vlan" /\ f.len <= 24)
      BY <1>1, <1>2, <1>7
    <2> QED
      BY <1>3, <1>6, <2>1, <2>2
  <1>8. CASE ~last /\ nheld = 1 /\ f.ethertype # "vlan"
    <2> DEFINE d == f.ethertype # "ipv4"
    <2>1. Resolve(14, 0, d)
      BY <1>8 DEF SniffEth, f
    <2>2. f.len > 16
      BY <1>1, <1>8
    <2>3. Cuts(k, 14, 0, d) /\ d \in BOOLEAN
      BY <1>3, <1>8, <2>2
    <2> HIDE DEF d
    <2> QED
      BY <1>6, <2>1, <2>3
  <1>9. CASE ~last /\ nheld = 2
    <2> DEFINE d == f.inner # "ipv4"
    <2>1. Resolve(18, 0, d)
      BY <1>9 DEF SniffEth, f
    <2>2. f.len > 24 /\ f.ethertype = "vlan"
      BY <1>1, <1>2, <1>9
    <2>3. Cuts(k, 18, 0, d) /\ d \in BOOLEAN
      BY <1>3, <2>2
    <2> HIDE DEF d
    <2> QED
      BY <1>6, <2>1, <2>3
  <1>10. CASE ~last /\ nheld # 2 /\ ~(nheld = 1 /\ f.ethertype # "vlan")
    <2>1. SniffOn
      BY <1>10 DEF SniffEth, f
    <2>2. nheld' <= 2 /\ (nheld' = 2 => f.ethertype = "vlan")
      BY <1>1, <1>2, <1>10
    <2>3. SniffInv(k)'
      BY <1>1, <2>2 DEF SniffInv, f
    <2> QED
      BY <1>1, <1>4, <1>5, <1>10, <2>1, <2>3 DEF SniffOn, Sniffed, RegTypes
  <1> QED
    BY <1>1, <1>7, <1>8, <1>9, <1>10

\* The Mold layer.
LEMMA SniffMoldRight ==
    ASSUME NEW k, NEW last, layer = "mold", Sniffing(k, last), SniffMold(Frames[k], last)
    PROVE  Sniffed(k, last)
  <1> DEFINE f == Frames[k]
             d == ~(f.len >= 20) \/ f.count \in {0, EndSession}
  <1>1. /\ k \in Kinds /\ f.layer = "mold" /\ f.len \in Nat /\ nheld \in Nat /\ nheld' = nheld + 1
        /\ (last <=> f.len <= 8 * (nheld + 1)) /\ layer' = "mold" /\ drain_idx = 0 /\ state = "SNIFF"
        /\ RegTypes
    BY FrameAssumption DEF Sniffing, FrameOK
  <1>2. nheld <= 2
    BY <1>1 DEF Sniffing, SniffInv
  <1>3. (f.len <= 16 => Cuts(k, 20, 0, TRUE)) /\ Cuts(k, 20, 0, d) /\ d \in BOOLEAN
    BY <1>1, MoldCuts
  <1>4. ihl_r' = ihl_r /\ total_r' = total_r /\ bad_r' = bad_r
    BY DEF SniffMold
  <1>5. nheld' <= HB_DEPTH[layer]
    BY <1>1, <1>2 DEF HB_DEPTH
  <1>6. ASSUME NEW x \in BOOLEAN, Resolve(20, 0, x), Cuts(k, 20, 0, x)
        PROVE  Sniffed(k, last)
    <2> HIDE DEF f, d
    <2> QED
      BY <1>1, <1>4, <1>5, <1>6 DEF Resolve, Sniffed, RegTypes
  <1>7. CASE nheld = 2
    <2>1. Resolve(20, 0, d)
      BY <1>7 DEF SniffMold
    <2> HIDE DEF d, f
    <2> QED
      BY <1>3, <1>6, <2>1
  <1>8. CASE nheld # 2 /\ last
    <2>1. Resolve(20, 0, TRUE)
      BY <1>8 DEF SniffMold
    <2> HIDE DEF d, f
    <2>2. f.len <= 16
      BY <1>1, <1>2, <1>8
    <2> QED
      BY <1>3, <1>6, <2>1, <2>2
  <1>9. CASE nheld # 2 /\ ~last
    <2>1. SniffOn
      BY <1>9 DEF SniffMold
    <2> HIDE DEF d, f
    <2>2. nheld' <= 2
      BY <1>1, <1>2, <1>9
    <2>3. SniffInv(k)'
      BY <1>1, <2>2 DEF SniffInv
    <2> QED
      BY <1>1, <1>4, <1>5, <1>9, <2>1, <2>3 DEF SniffOn, Sniffed, RegTypes
  <1> QED
    BY <1>7, <1>8, <1>9

\* The IPv4 layer.
LEMMA SniffIPv4Right ==
    ASSUME NEW k, NEW last, layer = "ipv4", layer \in Layers, Sniffing(k, last), SniffIPv4(Frames[k], last)
    PROVE  Sniffed(k, last)
  <1> DEFINE f == Frames[k]
             bad == ~f.v4 \/ f.ihl < 20 \/ (nheld > 1 /\ ~f.udp)
             keep == IF f.total > f.ihl THEN f.total - f.ihl ELSE 0
             keep_c == IF total_r > ihl_r THEN total_r - ihl_r ELSE 0
             done == f.ihl - 8 * nheld <= 8
  <1>0. KEEP_W = 8
    BY FrameAssumption
  <1>1. /\ k \in Kinds /\ f.layer = "ipv4" /\ Intact(f) /\ nheld \in Nat /\ nheld' = nheld + 1
        /\ (last <=> f.len <= 8 * (nheld + 1)) /\ layer' = "ipv4" /\ drain_idx = 0 /\ state = "SNIFF"
        /\ RegTypes
    BY DEF Sniffing
  <1>2. f.len \in Nat /\ f.ihl \in 0 .. 60 /\ f.total \in Nat
        /\ f.v4 \in BOOLEAN /\ f.udp \in BOOLEAN /\ f.csum \in BOOLEAN
    <2>1. FrameOK(f)
      BY <1>1, FrameAssumption
    <2> QED
      BY <1>1, <2>1 DEF FrameOK
  <1>3. f.ihl \in Nat
    <2> HIDE DEF f
    <2> QED
      BY <1>2
  <1>4. nheld > 0 => /\ ihl_r = f.ihl /\ total_r = f.total /\ f.ihl > 8 * nheld
                     /\ bad_r = bad
    BY <1>0, <1>1 DEF Sniffing, SniffInv
  <1>5. /\ f.len <= 8 * (nheld + 1) => Cuts(k, 20, 0, TRUE)
        /\ \A l \in Nat : nheld = 0 /\ f.ihl <= 8 => Cuts(k, f.ihl, l, TRUE)
        /\ f.ihl <= 8 * (nheld + 1) /\ f.len > 8 * (nheld + 1) /\ nheld > 0 =>
              Cuts(k, f.ihl, keep, bad \/ ~f.csum \/ f.total < f.ihl)
    BY <1>1, <1>4, IPv4Cuts
  <1>6. /\ ihl_r' = f.ihl /\ total_r' = f.total
    <2>1. /\ ihl_r' = (IF nheld = 0 THEN f.ihl ELSE ihl_r)
          /\ total_r' = (IF nheld = 0 THEN f.total ELSE total_r)
      BY DEF SniffIPv4
    <2> HIDE DEF f, bad
    <2> QED
      BY <1>1, <1>4, <2>1
  <1>7. bad_r' \in BOOLEAN /\ bad_r' = (~f.v4 \/ f.ihl < 20 \/ (nheld' > 1 /\ ~f.udp))
    <2>0. bad_r' = CASE nheld = 0 -> ~f.v4 \/ f.ihl < 20 [] nheld = 1 -> bad_r \/ ~f.udp [] OTHER -> bad_r
      BY DEF SniffIPv4
    <2>1. CASE nheld = 0
      <3>1. bad_r' = (~f.v4 \/ f.ihl < 20)
        BY <2>0, <2>1
      <3>2. ~(nheld' > 1)
        BY <1>1, <2>1
      <3> QED
        BY <3>1, <3>2
    <2>2. CASE nheld = 1
      <3>1. bad_r' = (bad_r \/ ~f.udp)
        BY <2>0, <2>2
      <3>2. nheld' > 1 /\ ~(nheld > 1)
        BY <1>1, <2>2
      <3>3. bad_r = bad
        BY <1>4, <2>2
      <3> QED
        BY <3>1, <3>2, <3>3
    <2>3. CASE nheld > 1
      <3>1. bad_r' = bad_r
        BY <2>0, <2>3
      <3>2. nheld' > 1 /\ nheld > 1
        BY <1>1, <2>3
      <3>3. bad_r = bad
        BY <1>1, <1>4, <2>3
      <3> QED
        BY <3>1, <3>2, <3>3
    <2> QED
      BY <1>1, <2>1, <2>2, <2>3
  <1>8. nheld' <= HB_DEPTH[layer]
    <2> HIDE DEF f, bad
    <2>1. nheld <= 7
      BY <1>1, <1>2, <1>4
    <2> QED
      BY <1>1, <2>1 DEF HB_DEPTH
  <1>9. ASSUME NEW s \in Nat, NEW l \in Nat, NEW x \in BOOLEAN, Resolve(s, l, x), Cuts(k, s, l, x)
        PROVE  Sniffed(k, last)
    <2>1. RegTypes'
      BY <1>2, <1>3, <1>6, <1>7, <1>9 DEF Resolve, RegTypes
    <2> HIDE DEF f, bad
    <2> QED
      BY <1>8, <1>9, <2>1 DEF Resolve, Sniffed
  <1>10. CASE last
    <2>1. Resolve(20, 0, TRUE)
      BY <1>10 DEF SniffIPv4
    <2> HIDE DEF f, bad, keep
    <2> QED
      BY <1>1, <1>5, <1>9, <1>10, <2>1
  <1>11. ihl_r' = IF nheld = 0 THEN f.ihl ELSE ihl_r
    BY DEF SniffIPv4
  <1>12. keep_c \in Nat
    BY <1>1 DEF RegTypes
  <1>13. IF last THEN Resolve(20, 0, TRUE)
         ELSE IF done THEN Resolve(f.ihl, keep_c, bad_r \/ ~f.csum \/ total_r < f.ihl)
         ELSE SniffOn
    BY <1>0, <1>6, <1>11 DEF SniffIPv4
  <1>14. CASE ~last /\ done /\ nheld = 0
    <2> DEFINE x == bad_r \/ ~f.csum \/ total_r < f.ihl
    <2>1. f.ihl <= 8
      BY <1>2, <1>3, <1>14
    <2>2. x = TRUE
      BY <1>1, <2>1 DEF Intact
    <2>3. Resolve(f.ihl, keep_c, x)
      BY <1>13, <1>14
    <2> HIDE DEF x, keep_c, f, bad
    <2>4. Cuts(k, f.ihl, keep_c, TRUE)
      BY <1>5, <1>12, <1>14, <2>1
    <2> QED
      BY <1>3, <1>9, <1>12, <2>2, <2>3, <2>4
  <1>15. CASE ~last /\ done /\ nheld # 0
    <2> DEFINE x == bad_r \/ ~f.csum \/ total_r < f.ihl
               y == bad \/ ~f.csum \/ f.total < f.ihl
    <2>1. nheld > 0 /\ f.ihl <= 8 * (nheld + 1) /\ f.len > 8 * (nheld + 1)
      <3> HIDE DEF f
      <3> QED
        BY <1>1, <1>2, <1>3, <1>15
    <2>2. x = y /\ y \in BOOLEAN /\ keep_c = keep
      BY <1>4, <2>1
    <2>3. Resolve(f.ihl, keep_c, x)
      BY <1>13, <1>15
    <2>4. Cuts(k, f.ihl, keep, y)
      BY <1>5, <2>1
    <2> HIDE DEF x, y, keep_c, keep, f, bad
    <2> QED
      BY <1>3, <1>9, <1>12, <2>2, <2>3, <2>4
  <1>16. CASE ~last /\ ~done
    <2>1. SniffOn
      BY <1>13, <1>16
    <2>2. f.ihl > 8 * nheld'
      <3> HIDE DEF f
      <3> QED
        BY <1>1, <1>3, <1>16
    <2>3. SniffInv(k)'
      BY <1>0, <1>1, <1>6, <1>7, <2>2 DEF SniffInv
    <2>4. RegTypes'
      BY <1>1, <1>2, <1>3, <1>6, <1>7, <2>1 DEF SniffOn, RegTypes
    <2> HIDE DEF f, bad, done
    <2> QED
      BY <1>1, <1>8, <1>16, <2>1, <2>3, <2>4 DEF SniffOn, Sniffed
  <1> QED
    BY <1>10, <1>14, <1>15, <1>16

\* A beat that is sniffed joins those held of its frame.
LEMMA SniffHold ==
    ASSUME AllIntact, FeedInv, Sniffs(layer), state = "SNIFF", NEW ready \in BOOLEAN, SourceInv',
           NEW no, NEW k, NEW sent, NEW X, Arrives(no, k, sent, X, ready)
    PROVE  /\ HoldInv' /\ nheld' > 0 /\ drain_idx' = 0
           /\ nheld = 0 <=> ~Sending
           /\ GearEdge(FALSE, NULL, skip_r, keep_r, drop_r, ready)
  <1> DEFINE f == Frames[k]
             beat == BeatAt(no, k, sent)
             n == nheld
  <1>0. KEEP_W = 8 /\ layer \in {"eth", "ipv4", "mold"}
    BY FrameAssumption DEF FeedInv, SourceInv, Sniffs, HB_DEPTH
  <1>1. SourceInv /\ HoldInv /\ draining = FALSE
    BY DEF FeedInv, draining
  <1>2. /\ k \in Kinds /\ f.layer = layer /\ sent \in Nat /\ sent < f.len /\ layer' = layer
        /\ frame' = [no |-> no, kind |-> k, sent |-> TakenTo(k, sent)]
        /\ Stage(TRUE, f, beat, ready)
    BY DEF Arrives
  <1>3. /\ Sniff(f, beat) /\ GearEdge(FALSE, NULL, skip_r, keep_r, drop_r, ready)
    BY <1>0, <1>1, <1>2 DEF Stage, HoldAndReplay
  <1>4. /\ nheld \in Nat /\ drain_idx = 0 /\ RegTypes
        /\ hb = HeldBeats(frame.no, frame.kind, nheld)
        /\ nheld = 0 => ~Sending
        /\ nheld > 0 => Sending /\ frame.sent = KEEP_W * nheld /\ SniffInv(frame.kind)
    BY <1>1 DEF HoldInv, RegTypes
  <1>5. sent = 8 * nheld /\ (nheld > 0 => no = frame.no /\ k = frame.kind)
    <2>1. CASE nheld = 0
      BY <1>4, <2>1 DEF Arrives
    <2>2. CASE nheld > 0
      BY <1>0, <1>4, <2>2 DEF Arrives
    <2> QED
      BY <1>4, <2>1, <2>2
  <1>6. f.len \in Nat
    BY <1>2, FrameAssumption DEF FrameOK
  <1>7. /\ hb' = Append(hb, beat) /\ nheld' = nheld + 1
        /\ layer = "eth" => SniffEth(f, beat.last)
        /\ layer = "ipv4" => SniffIPv4(f, beat.last)
        /\ layer = "mold" => SniffMold(f, beat.last)
    BY <1>0, <1>3 DEF Sniff
  <1>8. beat.last \in BOOLEAN /\ (beat.last <=> f.len <= 8 * (nheld + 1))
    <2>1. beat.last = (sent + 8 >= f.len)
      BY <1>0, <1>2, TakenFacts
    <2> HIDE DEF beat, f
    <2>2. (sent + 8 >= f.len) \in BOOLEAN /\ (sent + 8 >= f.len <=> f.len <= 8 * (nheld + 1))
      BY <1>2, <1>4, <1>5, <1>6
    <2> QED
      BY <2>1, <2>2
  <1>9. Sniffed(k, beat.last)
    <2>1. Sniffing(k, beat.last)
      BY <1>2, <1>4, <1>5, <1>7, <1>8 DEF Sniffing, AllIntact
    <2>2. layer \in Layers
      BY <1>1 DEF SourceInv
    <2> HIDE DEF beat
    <2> QED
      BY <1>0, <1>7, <2>1, <2>2, SniffEthRight, SniffIPv4Right, SniffMoldRight
  <1>10. hb' = HeldBeats(no, k, nheld')
    <2>1. hb = HeldBeats(no, k, nheld)
      BY <1>4, <1>5, HeldNone
    <2>2. beat = BeatAt(no, k, KEEP_W * nheld)
      BY <1>0, <1>5
    <2> HIDE DEF beat
    <2>3. HeldBeats(no, k, nheld + 1) = Append(HeldBeats(no, k, nheld), BeatAt(no, k, KEEP_W * nheld))
      BY <1>4, HeldOneMore
    <2> QED
      BY <1>7, <2>1, <2>2, <2>3
  <1>11. nheld' \in Nat /\ nheld' > 0 /\ KEEP_W * (nheld' - 1) < f.len
    BY <1>0, <1>2, <1>4, <1>5, <1>6, <1>7
  <1>12. frame'.no = no /\ frame'.kind = k /\ frame'.sent = TakenTo(k, sent)
    BY <1>2
  <1>13. TakenTo(k, sent) = Min({KEEP_W * nheld', f.len}) /\ (~beat.last => TakenTo(k, sent) = KEEP_W * nheld' /\ TakenTo(k, sent) < f.len)
    <2> DEFINE z == KEEP_W * nheld'
    <2>1. z = sent + KEEP_W /\ z \in Int
      BY <1>0, <1>4, <1>5, <1>7
    <2> HIDE DEF z, beat
    <2>2. Min({z, f.len}) = IF z <= f.len THEN z ELSE f.len
      BY <1>6, <2>1, MinTwo
    <2>3. TakenTo(k, sent) = IF z <= f.len THEN z ELSE f.len
      BY <2>1 DEF TakenTo
    <2>4. ~beat.last => z < f.len
      BY <1>0, <1>4, <1>5, <1>6, <1>8, <2>1
    <2> QED
      BY <1>6, <2>1, <2>2, <2>3, <2>4 DEF z
  <1>14. HoldInv'
    <2> HIDE DEF beat
    <2>1. RegTypes' /\ drain_idx' = 0 /\ nheld' <= HB_DEPTH[layer']
      BY <1>2, <1>9 DEF Sniffed
    <2>2. CASE state' = "SNIFF" /\ ~beat.last /\ SniffInv(k)'
      <3>1. Sending' /\ frame'.sent = KEEP_W * nheld'
        BY <1>12, <1>13, <2>2 DEF Sending
      <3>2. SniffInv(frame.kind)'
        BY <1>12, <2>2 DEF SniffInv
      <3> QED
        BY <1>2, <1>10, <1>11, <1>12, <2>1, <2>2, <3>1, <3>2 DEF HoldInv, RegTypes
    <2>3. CASE state' = "EMIT" /\ Cuts(k, skip_r', keep_r', drop_r')
      <3>1. draining' /\ frame'.sent = Min({KEEP_W * nheld', Frames[frame'.kind].len})
        BY <1>11, <1>12, <1>13, <2>1, <2>3 DEF draining
      <3>2. Cuts(frame'.kind, skip_r', keep_r', drop_r')
        BY <1>12, <2>3
      <3> QED
        BY <1>2, <1>10, <1>11, <1>12, <2>1, <2>3, <3>1, <3>2 DEF HoldInv, RegTypes
    <2> QED
      BY <1>9, <2>2, <2>3 DEF Sniffed
  <1>15. drain_idx' = 0
    BY <1>9 DEF Sniffed
  <1>16. nheld = 0 <=> ~Sending
    BY <1>4
  <1> QED
    BY <1>3, <1>11, <1>14, <1>15, <1>16

\* A beat is sniffed, and its frame waits in front of the gearbox.
LEMMA SniffArrives ==
    ASSUME AllIntact, FeedInv, Sniffs(layer), state = "SNIFF", NEW ready \in BOOLEAN, SourceInv',
           NEW no, NEW k, NEW sent, NEW X, Arrives(no, k, sent, X, ready)
    PROVE  FeedInv'
  <1>0. layer # "reg"
    BY DEF Sniffs, HB_DEPTH
  <1>1. SourceInv /\ HoldInv /\ GearTypes /\ GearInv /\ owed \in Seq(Pieces)
    BY <1>0 DEF FeedInv, SourceInv
  <1>2. /\ HoldInv' /\ nheld' > 0 /\ drain_idx' = 0
        /\ nheld = 0 <=> ~Sending
        /\ GearEdge(FALSE, NULL, skip_r, keep_r, drop_r, ready)
    BY SniffHold
  <1>3. NoAccept(ready) /\ GearTypes'
    <2>1. NoAccept(ready)
      BY <1>1, <1>2, GearIdleIs
    <2> QED
      BY <1>1, <2>1 DEF NoAccept, GearTypes
  <1>4. /\ k \in Kinds /\ layer' = layer /\ frame'.no = no /\ frame'.kind = k
        /\ X \in Seq(Pieces) /\ owed' = AfterTake(ready) \o X
        /\ \/ ~Sending /\ X = PayloadOf(no, k)
           \/ Sending /\ no = frame.no /\ k = frame.kind /\ X = <<>>
    BY DEF Arrives
  <1>5. no \in 0 .. MaxFrames
    <2>1. no \in 1 .. MaxFrames /\ MaxFrames \in Nat
      BY FrameAssumption DEF Arrives
    <2> QED
      BY <2>1
  <1>6. PayloadOf(no, k) \in Seq(Pieces) /\ <<>> \in Seq(Pieces)
    <2>1. <<>> \in Seq(Pieces)
      OBVIOUS
    <2> QED
      BY <1>4, <1>5, <2>1, WithPayloadIs
  <1>7. nheld \in Nat /\ drain_idx = 0 /\ nheld' \in Nat /\ state' \in {"SNIFF", "EMIT"}
    BY <1>1, <1>2 DEF HoldInv
  <1>8. ~Within /\ ~Within'
    <2>1. Fed = 0
      BY DEF Fed
    <2>2. Fed' = 0
      <3>1. KEEP_W * 0 = 0
        BY GearAssumption
      <3> QED
        BY <1>2, <1>4, <1>7, <3>1 DEF Fed
    <2> QED
      BY <2>1, <2>2 DEF Within
  <1>9. Waiting' = PayloadOf(no, k)
    BY <1>2, <1>4 DEF Waiting, PayloadOf
  <1>10. PICK Y \in Seq(Pieces) : Y = Waiting /\ Y \o X = PayloadOf(no, k)
    <2>1. CASE Sending
      <3>1. Waiting = PayloadOf(no, k) /\ X = <<>>
        BY <1>2, <1>4, <1>7, <2>1 DEF Waiting, PayloadOf
      <3>2. PayloadOf(no, k) \o <<>> = PayloadOf(no, k)
        BY <1>6, ConcatEmptySeq
      <3> QED
        BY <1>6, <3>1, <3>2
    <2>2. CASE ~Sending
      <3>1. Waiting = <<>> /\ X = PayloadOf(no, k)
        BY <1>2, <1>4, <1>7, <2>2 DEF Waiting
      <3>2. <<>> \o PayloadOf(no, k) = PayloadOf(no, k)
        BY <1>6, ConcatEmptySeq
      <3> QED
        BY <1>6, <3>1, <3>2
    <2> QED
      BY <2>1, <2>2
  <1>11. IdlePort(Y)
    BY <1>1, <1>8, <1>10 DEF GearInv, IdlePort
  <1>12. IdlePort(Y \o X)'
    BY <1>1, <1>3, <1>4, <1>11, KeepIdle
  <1>13. IdlePort(Waiting)'
    BY <1>9, <1>10, <1>12 DEF IdlePort
  <1> QED
    BY <1>0, <1>2, <1>3, <1>4, <1>8, <1>13 DEF FeedInv, GearInv

\* Nothing moves in front of the gearbox.
LEMMA HoldQuiet ==
    ASSUME AllIntact, FeedInv, Sniffs(layer), NEW ready \in BOOLEAN, SourceInv', layer' = layer,
           frame' = frame, owed' = AfterTake(ready) \o <<>>, FsmStays,
           NEW valid \in BOOLEAN, ~(valid /\ gear_tready(ready)), NEW beat,
           GearEdge(valid, beat, skip_r, keep_r, drop_r, ready)
    PROVE  FeedInv'
  <1>0. layer # "reg"
    BY DEF Sniffs, HB_DEPTH
  <1>1. SourceInv /\ HoldInv /\ GearTypes /\ GearInv
    BY <1>0 DEF FeedInv
  <1>2. UNCHANGED fsmVars
    BY DEF FsmStays
  <1>3. NoAccept(ready)
    BY <1>1, GearIdleIs
  <1>4. GearTypes' /\ GearInv'
    BY <1>1, <1>2, <1>3, QuietEdge
  <1>5. HoldInv'
    BY <1>1, <1>2 DEF HoldInv, fsmVars, SniffInv, Sending, draining
  <1> QED
    BY <1>0, <1>4, <1>5 DEF FeedInv

\* After an edge at which the gearbox has accepted bytes of the source's frame.
LEMMA FedInv ==
    ASSUME NEW no, NEW k \in Kinds, NEW s, NEW l, NEW d, NEW fed \in Nat, Sniffs(layer'),
           frame'.no = no, frame'.kind = k, skip_r' = s, keep_r' = l, drop_r' = d,
           layer' # "udp" /\ layer' # "gear", PortTo(no, k, s, l, d, fed)', fed > 0, fed <= Frames[k].len,
           fed < Frames[k].len => Fed' = fed /\ drain_idx' # 0,
           fed = Frames[k].len => Fed' = 0 /\ nheld' = 0
    PROVE  GearInv'
  <1>0. Frames[k].len \in Nat
    BY FrameAssumption DEF FrameOK
  <1>1. Ctrl'.s = s /\ Ctrl'.l = l /\ Ctrl'.d = d
    BY DEF Ctrl
  <1>2. Waiting' = <<>>
    BY <1>0 DEF Waiting
  <1>3. CASE fed < Frames[k].len
    <2>1. Fed' = fed /\ Within'
      BY <1>0, <1>3 DEF Within
    <2>2. InPort(no, k, s, l, d, fed)'
      BY <1>3 DEF PortTo
    <2>3. InPort(frame.no, frame.kind, Ctrl.s, Ctrl.l, Ctrl.d, Fed)'
      BY <1>1, <2>1, <2>2 DEF InPort, InFrame
    <2> QED
      BY <2>1, <2>3 DEF GearInv
  <1>4. CASE fed = Frames[k].len
    <2>1. ~Within'
      BY <1>4 DEF Within
    <2>2. IdlePort(<<>>)'
      BY <1>0, <1>4 DEF PortTo
    <2>3. IdlePort(Waiting)'
      BY <1>2, <2>2 DEF IdlePort
    <2> QED
      BY <2>1, <2>3 DEF GearInv
  <1> QED
    BY <1>0, <1>3, <1>4

\* A held beat leaves for the gearbox.
LEMMA DrainStep ==
    ASSUME AllIntact, FeedInv, Sniffs(layer), NEW ready \in BOOLEAN, SourceInv', layer' = layer,
           frame' = frame, owed' = AfterTake(ready) \o <<>>, draining, gear_tready(ready), Drained,
           GearEdge(TRUE, hb[drain_idx + 1], skip_r, keep_r, drop_r, ready)
    PROVE  FeedInv'
  <1> DEFINE i == drain_idx
  <1>0. layer # "reg" /\ layer # "udp" /\ layer # "gear" /\ KEEP_W = 8
    BY FrameAssumption DEF Sniffs, HB_DEPTH, FeedInv, SourceInv
  <1>1. SourceInv /\ HoldInv /\ GearTypes /\ GearInv /\ owed \in Seq(Pieces)
    BY <1>0 DEF FeedInv, SourceInv
  <1>2. PICK no \in 0 .. MaxFrames, k \in Kinds : no = frame.no /\ k = frame.kind
    BY <1>1 DEF SourceInv
  <1>3. PICK s \in Nat, l \in Nat, d \in BOOLEAN : s = skip_r /\ l = keep_r /\ d = drop_r
    BY <1>1 DEF HoldInv
  <1>4. /\ state = "EMIT" /\ nheld \in Nat /\ i \in Nat /\ i < nheld
        /\ hb = HeldBeats(no, k, nheld) /\ Frames[k].layer = layer /\ nheld <= HB_DEPTH[layer]
        /\ 8 * (nheld - 1) < Frames[k].len
        /\ Cuts(k, s, l, d) /\ frame.sent = Min({8 * nheld, Frames[k].len})
        /\ ihl_r \in Nat /\ total_r \in Nat /\ bad_r \in BOOLEAN
    BY <1>0, <1>1, <1>2, <1>3 DEF HoldInv, draining
  <1>5. Frames[k].len \in Nat \ {0}
    BY FrameAssumption DEF FrameOK
  <1>6. frame.sent = IF 8 * nheld <= Frames[k].len THEN 8 * nheld ELSE Frames[k].len
    <2>1. 8 * nheld \in Int /\ Frames[k].len \in Int
      BY <1>4, <1>5
    <2> QED
      BY <1>4, <2>1, MinTwo
  <1>7. 8 * i \in Nat /\ 8 * i < Frames[k].len
    BY <1>4, <1>5
  <1>8. hb[i + 1] = BeatAt(no, k, 8 * i)
    <2>1. i + 1 \in 1 .. nheld /\ i + 1 - 1 = i
      BY <1>4
    <2>2. \A j \in 1 .. nheld : HeldBeats(no, k, nheld)[j] = BeatAt(no, k, KEEP_W * (j - 1))
      BY <1>4, HeldOneMore
    <2>3. PICK j \in 1 .. nheld : j = i + 1
      BY <2>1
    <2>4. hb[j] = BeatAt(no, k, KEEP_W * (j - 1))
      BY <1>4, <2>2
    <2>5. KEEP_W * (j - 1) = 8 * i
      BY <1>0, <1>4, <2>3
    <2> QED
      BY <2>3, <2>4, <2>5
  <1>9. PICK to : to = TakenTo(k, 8 * i)
    OBVIOUS
  <1>10. to \in Nat /\ to > 0 /\ to <= Frames[k].len
    <2>1. PICK sent \in Nat : sent = 8 * i
      BY <1>7
    <2>2. sent < Frames[k].len /\ to = TakenTo(k, sent)
      BY <1>7, <1>9, <2>1
    <2>3. to \in Nat \ {0} /\ to <= Frames[k].len
      BY <2>2, TakenFacts
    <2> QED
      BY <2>3
  <1>11. hb[i + 1].last <=> to = Frames[k].len
    BY <1>7, <1>8, <1>9, TakenFacts
  <1>12. to = IF 8 * i + 8 <= Frames[k].len THEN 8 * i + 8 ELSE Frames[k].len
    BY <1>0, <1>9 DEF TakenTo
  <1>13. GearAccept(BeatAt(no, k, 8 * i), s, l, d, ready)
    BY <1>3, <1>8 DEF GearEdge
  <1>14. Fed = 8 * i
    BY <1>0, <1>4 DEF Fed
  <1>15. GearTypes' /\ PortTo(no, k, s, l, d, to)'
    <2>1. CASE i = 0
      <3>1. PICK Y \in Seq(Pieces) : Y = PayloadOf(no, k)
        BY WithPayloadIs, EmptySeq
      <3>2. Waiting = Y /\ ~Within
        BY <1>2, <1>4, <1>14, <2>1, <3>1 DEF Waiting, PayloadOf, Within
      <3>3. IdlePort(Y)
        BY <1>1, <3>2 DEF GearInv, IdlePort
      <3>4. Y \o <<>> = Remaining(no, k, s + 1, EndAt(s, l, d, Frames[k].len))
        BY <1>4, <3>1, CutsPayload, ConcatEmptySeq
      <3>5. GearAccept(BeatAt(no, k, 0), s, l, d, ready) /\ <<>> \in Seq(Pieces)
        BY <1>13, <2>1
      <3>6. to = IF KEEP_W <= Frames[k].len THEN KEEP_W ELSE Frames[k].len
        BY <1>0, <1>12, <2>1
      <3> QED
        BY <1>1, <3>3, <3>4, <3>5, <3>6, EnterFrame
    <2>2. CASE i # 0
      <3>1. PICK fed \in Nat : fed = 8 * i
        BY <1>7
      <3>2. Within
        BY <1>2, <1>4, <1>7, <1>14, <2>2 DEF Within
      <3>3. InPort(no, k, s, l, d, fed)
        <4>1. Ctrl.s = s /\ Ctrl.l = l /\ Ctrl.d = d
          BY <1>0, <1>3 DEF Ctrl
        <4> QED
          BY <1>1, <1>2, <1>14, <3>1, <3>2, <4>1 DEF GearInv
      <3>4. GearAccept(BeatAt(no, k, fed), s, l, d, ready)
        BY <1>13, <3>1
      <3>5. to = IF fed + KEEP_W <= Frames[k].len THEN fed + KEEP_W ELSE Frames[k].len
        BY <1>0, <1>12, <3>1
      <3> QED
        BY <1>1, <3>3, <3>4, <3>5, ContinueFrame
    <2> QED
      BY <2>1, <2>2
  <1>16. CASE to = Frames[k].len
    <2>1. BackToSniff
      BY <1>16, <1>11 DEF Drained
    <2>2. /\ state' = "SNIFF" /\ nheld' = 0 /\ drain_idx' = 0 /\ hb' = <<>>
          /\ skip_r' = s /\ keep_r' = l /\ drop_r' = d
          /\ ihl_r' = ihl_r /\ total_r' = total_r /\ bad_r' = bad_r
      BY <1>3, <2>1 DEF BackToSniff
    <2>3. ~Sending'
      <3>1. frame.sent = Frames[k].len
        BY <1>4, <1>5, <1>6, <1>12, <1>16
      <3> QED
        BY <1>2, <1>5, <3>1 DEF Sending
    <2>4. HoldInv'
      <3>1. hb' = HeldBeats(frame'.no, frame'.kind, nheld')
        BY <2>2, HeldNone
      <3> QED
        BY <1>4, <2>2, <2>3, <3>1 DEF HoldInv
    <2>5. Fed' = 0
      BY <2>2 DEF Fed
    <2>6. GearInv'
      BY <1>0, <1>2, <1>5, <1>10, <1>15, <1>16, <2>2, <2>5, FedInv
    <2> QED
      BY <1>0, <1>15, <2>4, <2>6 DEF FeedInv
  <1>17. CASE to < Frames[k].len
    <2>0. ~hb[i + 1].last
      BY <1>5, <1>10, <1>17, <1>11
    <2>1. /\ drain_idx' = i + 1 /\ state' = state /\ nheld' = nheld /\ hb' = hb
          /\ skip_r' = s /\ keep_r' = l /\ drop_r' = d
          /\ ihl_r' = ihl_r /\ total_r' = total_r /\ bad_r' = bad_r
      BY <1>3, <2>0 DEF Drained
    <2>2. to = 8 * (i + 1) /\ 8 * (i + 1) < Frames[k].len
      BY <1>4, <1>5, <1>12, <1>17
    <2>3. draining' <=> i + 1 < nheld
      BY <1>4, <2>1 DEF draining
    <2>4. ~(i + 1 < nheld) => nheld = i + 1 /\ frame.sent = to
      BY <1>4, <1>5, <1>6, <2>2
    <2>5. HoldInv'
      <3>1. ~draining' => Sending' /\ frame'.sent >= 8 * nheld'
        BY <1>2, <1>4, <1>5, <2>1, <2>2, <2>3, <2>4 DEF Sending
      <3>2. drain_idx' \in 0 .. nheld'
        BY <1>4, <2>1
      <3>3. hb' = HeldBeats(frame'.no, frame'.kind, nheld')
        BY <1>2, <1>4, <2>1
      <3>4. Cuts(frame'.kind, skip_r', keep_r', drop_r')
        BY <1>2, <1>4, <2>1
      <3>5. frame'.kind = k /\ frame'.sent = Min({8 * nheld', Frames[k].len})
        BY <1>2, <1>4, <2>1
      <3>6. /\ nheld' \in Nat /\ nheld' > 0 /\ state' = "EMIT" /\ 8 * (nheld' - 1) < Frames[k].len
            /\ nheld' <= HB_DEPTH[layer']
        BY <1>4, <2>1
      <3> QED
        BY <1>0, <1>2, <1>4, <2>1, <3>1, <3>2, <3>3, <3>4, <3>5, <3>6 DEF HoldInv
    <2>6. Fed' = to /\ drain_idx' # 0
      <3>1. drain_idx' # 0
        BY <1>4, <2>1
      <3>2. CASE i + 1 < nheld
        BY <1>0, <1>4, <2>1, <2>2, <3>2 DEF Fed
      <3>3. CASE ~(i + 1 < nheld)
        BY <1>4, <2>1, <2>4, <3>3 DEF Fed
      <3> QED
        BY <3>1, <3>2, <3>3
    <2>7. GearInv'
      BY <1>0, <1>2, <1>5, <1>10, <1>15, <1>17, <2>1, <2>6, FedInv
    <2> QED
      BY <1>0, <1>15, <2>5, <2>7 DEF FeedInv
  <1> QED
    BY <1>5, <1>10, <1>16, <1>17

\* A later beat of a frame passes on to the gearbox.
LEMMA PassStep ==
    ASSUME AllIntact, FeedInv, Sniffs(layer), NEW ready \in BOOLEAN, SourceInv', state = "EMIT", ~draining,
           NEW no, NEW k, NEW sent, NEW X, Arrives(no, k, sent, X, ready)
    PROVE  FeedInv'
  <1> DEFINE to == TakenTo(k, sent)
             beat == BeatAt(no, k, sent)
  <1>0. layer # "reg" /\ layer # "udp" /\ layer # "gear" /\ KEEP_W = 8
    BY FrameAssumption DEF Sniffs, HB_DEPTH, FeedInv, SourceInv
  <1>1. SourceInv /\ HoldInv /\ GearTypes /\ GearInv /\ owed \in Seq(Pieces)
    BY <1>0 DEF FeedInv, SourceInv
  <1>2. Sending /\ gear_tready(ready)
    BY <1>0, <1>1 DEF HoldInv, Arrives, s_axis_tready
  <1>3. /\ layer' = layer /\ k \in Kinds /\ Frames[k].layer = layer
        /\ sent \in Nat /\ sent < Frames[k].len /\ frame' = [no |-> no, kind |-> k, sent |-> to]
        /\ Stage(TRUE, Frames[k], beat, ready) /\ X = <<>> /\ owed' = AfterTake(ready) \o <<>>
        /\ sent = frame.sent /\ no = frame.no /\ k = frame.kind
    BY <1>2 DEF Arrives
  <1>4. PICK s \in Nat, l \in Nat, d \in BOOLEAN : s = skip_r /\ l = keep_r /\ d = drop_r
    BY <1>1 DEF HoldInv
  <1>5. /\ nheld \in Nat /\ nheld > 0 /\ drain_idx = nheld
        /\ hb = HeldBeats(no, k, nheld) /\ nheld <= HB_DEPTH[layer]
        /\ 8 * (nheld - 1) < Frames[k].len /\ sent >= 8 * nheld
        /\ Cuts(k, s, l, d) /\ ihl_r \in Nat /\ total_r \in Nat /\ bad_r \in BOOLEAN
    <2>1. nheld \in Nat /\ drain_idx \in 0 .. nheld /\ ~(drain_idx < nheld)
      BY <1>1 DEF HoldInv, draining
    <2>2. drain_idx = nheld
      BY <2>1
    <2> QED
      BY <1>0, <1>1, <1>3, <1>4, <2>1, <2>2 DEF HoldInv
  <1>6. /\ GearEdge(TRUE, beat, skip_r, keep_r, drop_r, ready)
        /\ IF beat.last THEN BackToSniff ELSE FsmStays
    BY <1>0, <1>2, <1>3 DEF Stage, HoldAndReplay
  <1>7. GearAccept(BeatAt(no, k, sent), s, l, d, ready)
    BY <1>2, <1>4, <1>6 DEF GearEdge
  <1>8. Frames[k].len \in Nat \ {0} /\ sent > 0
    BY <1>3, <1>5, FrameAssumption DEF FrameOK
  <1>9. /\ to \in Nat \ {0} /\ to <= Frames[k].len /\ to > sent
        /\ beat.last <=> to = Frames[k].len
    BY <1>3, TakenFacts
  <1>10. GearTypes' /\ PortTo(no, k, s, l, d, to)'
    <2>1. Fed = sent /\ Within
      BY <1>3, <1>5, <1>8 DEF Fed, Within
    <2>2. InPort(no, k, s, l, d, sent)
      <3>1. Ctrl.s = s /\ Ctrl.l = l /\ Ctrl.d = d
        BY <1>0, <1>4 DEF Ctrl
      <3> QED
        BY <1>1, <1>3, <2>1, <3>1 DEF GearInv
    <2>3. to = IF sent + KEEP_W <= Frames[k].len THEN sent + KEEP_W ELSE Frames[k].len
      BY DEF TakenTo
    <2> HIDE DEF to, beat
    <2> QED
      BY <1>1, <1>2, <1>3, <1>7, <2>2, <2>3, ContinueFrame
  <1>11. frame'.no = no /\ frame'.kind = k /\ frame'.sent = to
    BY <1>3
  <1> HIDE DEF to, beat
  <1>12. CASE to = Frames[k].len
    <2>1. BackToSniff
      BY <1>6, <1>9, <1>12
    <2>2. /\ state' = "SNIFF" /\ nheld' = 0 /\ drain_idx' = 0 /\ hb' = <<>>
          /\ skip_r' = s /\ keep_r' = l /\ drop_r' = d
          /\ ihl_r' = ihl_r /\ total_r' = total_r /\ bad_r' = bad_r
      BY <1>4, <2>1 DEF BackToSniff
    <2>3. ~Sending'
      BY <1>8, <1>11, <1>12 DEF Sending
    <2>4. HoldInv'
      <3>1. hb' = HeldBeats(frame'.no, frame'.kind, nheld')
        BY <2>2, HeldNone
      <3> QED
        BY <1>5, <2>2, <2>3, <3>1 DEF HoldInv
    <2>5. Fed' = 0
      BY <1>3, <2>2 DEF Fed
    <2>6. GearInv'
      BY <1>0, <1>3, <1>8, <1>9, <1>10, <1>11, <1>12, <2>2, <2>5, FedInv
    <2> QED
      BY <1>0, <1>3, <1>10, <2>4, <2>6 DEF FeedInv
  <1>13. CASE to < Frames[k].len
    <2>1. FsmStays
      BY <1>6, <1>8, <1>9, <1>13
    <2>2. /\ drain_idx' = drain_idx /\ state' = state /\ nheld' = nheld /\ hb' = hb
          /\ skip_r' = s /\ keep_r' = l /\ drop_r' = d
          /\ ihl_r' = ihl_r /\ total_r' = total_r /\ bad_r' = bad_r
      BY <1>4, <2>1 DEF FsmStays, fsmVars
    <2>3. HoldInv'
      <3>1. ~draining' /\ Sending' /\ frame'.sent >= 8 * nheld'
        BY <1>3, <1>5, <1>9, <1>11, <1>13, <2>2 DEF Sending, draining
      <3>2. drain_idx' \in 0 .. nheld' /\ nheld' \in Nat /\ nheld' > 0 /\ state' = "EMIT"
        BY <1>5, <2>2
      <3>3. hb' = HeldBeats(frame'.no, frame'.kind, nheld')
        BY <1>5, <1>11, <2>2
      <3>4. Cuts(frame'.kind, skip_r', keep_r', drop_r')
        BY <1>5, <1>11, <2>2
      <3> QED
        BY <1>0, <1>3, <1>5, <1>11, <2>2, <3>1, <3>2, <3>3, <3>4 DEF HoldInv
    <2>4. Fed' = to /\ drain_idx' # 0
      BY <1>3, <1>5, <1>11, <2>2 DEF Fed
    <2>5. GearInv'
      BY <1>0, <1>3, <1>8, <1>9, <1>10, <1>11, <1>13, <2>2, <2>4, FedInv
    <2> QED
      BY <1>0, <1>3, <1>10, <2>3, <2>5 DEF FeedInv
  <1> QED
    BY <1>8, <1>9, <1>12, <1>13

\* An edge of a layer that holds and replays.
LEMMA SniffEdge ==
    ASSUME AllIntact, FeedInv, Sniffs(layer), NEW ready \in BOOLEAN, SourceInv',
           \/ \E no, k, sent, X : Arrives(no, k, sent, X, ready)
           \/ \E valid : Stalls(valid, ready)
    PROVE  FeedInv'
  <1>0. layer # "reg" /\ layer # "udp" /\ layer # "gear"
    BY DEF Sniffs, HB_DEPTH
  <1>1. state \in {"SNIFF", "EMIT"} /\ (draining => state = "EMIT")
    BY DEF FeedInv, HoldInv, draining
  <1>2. ASSUME NEW no, NEW k, NEW sent, NEW X, Arrives(no, k, sent, X, ready)
        PROVE  FeedInv'
    <2>1. s_axis_tready(ready)
      BY <1>2 DEF Arrives
    <2>2. CASE state = "SNIFF"
      BY <1>2, <2>2, SniffArrives
    <2>3. CASE state = "EMIT"
      <3>1. ~draining
        BY <1>0, <2>1, <2>3 DEF s_axis_tready
      <3> QED
        BY <1>2, <2>3, <3>1, PassStep
    <2> QED
      BY <1>1, <2>2, <2>3
  <1>3. ASSUME NEW valid, Stalls(valid, ready)
        PROVE  FeedInv'
    <2>1. /\ valid \in BOOLEAN /\ ~(valid /\ s_axis_tready(ready)) /\ layer' = layer
          /\ frame' = frame /\ owed' = AfterTake(ready) \o <<>>
          /\ HoldAndReplay(valid, Frames[frame.kind], NULL, ready)
      BY <1>0, <1>3 DEF Stalls, Stage
    <2>2. CASE state = "SNIFF"
      <3>1. ~valid
        BY <1>0, <2>1, <2>2 DEF s_axis_tready
      <3>2. FsmStays /\ GearEdge(FALSE, NULL, skip_r, keep_r, drop_r, ready)
        BY <1>1, <2>1, <2>2, <3>1 DEF HoldAndReplay
      <3> QED
        BY <2>1, <3>2, HoldQuiet
    <2>3. CASE draining /\ gear_tready(ready)
      <3>1. Drained /\ GearEdge(TRUE, hb[drain_idx + 1], skip_r, keep_r, drop_r, ready)
        BY <1>1, <2>1, <2>3 DEF HoldAndReplay
      <3> QED
        BY <2>1, <2>3, <3>1, DrainStep
    <2>4. CASE draining /\ ~gear_tready(ready)
      <3>1. FsmStays /\ GearEdge(TRUE, hb[drain_idx + 1], skip_r, keep_r, drop_r, ready)
        BY <1>1, <2>1, <2>4 DEF HoldAndReplay
      <3> QED
        BY <2>1, <2>4, <3>1, HoldQuiet
    <2>5. CASE state = "EMIT" /\ ~draining
      <3>1. ~(valid /\ gear_tready(ready))
        BY <1>0, <2>1, <2>5 DEF s_axis_tready
      <3>2. FsmStays /\ GearEdge(valid, NULL, skip_r, keep_r, drop_r, ready)
        BY <2>1, <2>5, <3>1 DEF HoldAndReplay
      <3> QED
        BY <2>1, <3>1, <3>2, HoldQuiet
    <2> QED
      BY <1>1, <2>2, <2>3, <2>4, <2>5
  <1> QED
    BY <1>2, <1>3

-----------------------------------------------------------------------------
(* The theorems.                                                           *)

\* After reset nothing is held, staged or owed.
LEMMA FeedInit ==
    ASSUME Init
    PROVE  FeedInv
  <1> DEFINE n == Frames[1].len
  <1>0. 1 \in Kinds /\ n \in Nat \ {0} /\ MaxFrames \in Nat /\ KEEP_W \in Nat \ {0}
    BY FrameAssumption, GearAssumption DEF FrameOK
  <1>1. /\ frame = [no |-> 0, kind |-> 1, sent |-> n] /\ owed = <<>> /\ s_axis_tvalid = FALSE
        /\ layer \in Layers /\ skid = NULL /\ state = "SNIFF" /\ nheld = 0 /\ drain_idx = 0 /\ hb = <<>>
        /\ skip_r = 0 /\ keep_r = 0 /\ drop_r = FALSE /\ ihl_r = 0 /\ total_r = 0 /\ bad_r = FALSE
        /\ buf_q = <<>> /\ m_axis = NULL /\ in_frame = FALSE /\ drop_q = FALSE /\ bounded_q = FALSE
        /\ done_q = FALSE /\ skip_q = 0 /\ left_q = 0
    BY DEF Init, GearInit
  <1> HIDE DEF n
  <1>2. ~Sending
    BY <1>0, <1>1 DEF Sending, n
  <1>3. SourceInv
    <2>1. frame \in [no : 0 .. MaxFrames, kind : Kinds, sent : Nat \ {0}]
      BY <1>0, <1>1
    <2>2. frame.sent <= Frames[frame.kind].len
      BY <1>0, <1>1 DEF n
    <2>3. owed \in Seq(Pieces)
      BY <1>1
    <2> QED
      BY <1>1, <1>2, <2>1, <2>2, <2>3 DEF SourceInv
  <1>4. HoldInv
    <2>1. hb = HeldBeats(frame.no, frame.kind, nheld)
      BY <1>1, HeldNone
    <2>2. nheld \in Nat /\ drain_idx \in 0 .. nheld /\ ~(nheld > 0)
      BY <1>1
    <2> QED
      BY <1>1, <1>2, <2>1, <2>2 DEF HoldInv
  <1>5. GearTypes
    BY <1>1 DEF GearTypes
  <1>6. GearInv
    <2>1. ~Within /\ Waiting = <<>>
      BY <1>0, <1>1 DEF Within, Fed, Waiting, n
    <2>2. Bytes(0, 1, 1, 0) = <<>>
      BY BytesEmpty
    <2>3. Idle(0, 1, 1, 0)
      BY <1>0, <1>1, <2>2 DEF Idle
    <2>4. Port(m_axis, owed, Remaining(0, 1, 1, 0) \o <<>>)
      BY <1>1 DEF Port, Remaining
    <2>5. 0 \in 0 .. MaxFrames /\ 0 \in Nat /\ 1 \in Nat
      BY <1>0
    <2> QED
      BY <1>0, <2>1, <2>3, <2>4, <2>5 DEF GearInv, IdlePort
  <1>7. RegInv
    <2>1. Remaining(frame.no, frame.kind, frame.sent + 1, Frames[frame.kind].len) = <<>>
      BY <1>0, <1>1 DEF Remaining, n
    <2> QED
      BY <1>1, <2>1 DEF RegInv, Port
  <1> QED
    BY <1>3, <1>4, <1>5, <1>6, <1>7 DEF FeedInv

\* Every edge of every layer keeps the invariant.
LEMMA FeedStep ==
    ASSUME AllIntact, FeedInv, [Next]_vars
    PROVE  FeedInv'
  <1>1. ASSUME NEW ready \in Ready, Edge(ready)
        PROVE  FeedInv'
    <2>1. ready \in BOOLEAN
      BY DEF Ready
    <2>2. /\ SourceInv'
          /\ \/ \E no, k, sent, X : Arrives(no, k, sent, X, ready)
             \/ \E valid : Stalls(valid, ready)
      BY <1>1, <2>1, EdgeIs DEF FeedInv
    <2>3. CASE Sniffs(layer)
      BY <2>1, <2>2, <2>3, SniffEdge
    <2>4. CASE layer \in {"gear", "udp"}
      BY <2>1, <2>2, <2>4, DirectEdge
    <2>5. CASE layer = "reg"
      BY <2>1, <2>2, <2>5, RegArrives, RegStalls
    <2>6. layer \in {"eth", "ipv4", "udp", "mold", "gear", "reg"}
      BY FrameAssumption DEF FeedInv, SourceInv, Layers, FrameOK
    <2> QED
      BY <2>3, <2>4, <2>5, <2>6 DEF Sniffs, HB_DEPTH
  <1>2. CASE UNCHANGED vars
    <2>1. UNCHANGED <<buf_q, in_frame, drop_q, bounded_q, done_q, skip_q, left_q, m_axis>>
      BY <1>2 DEF vars, gearVars
    <2>2. UNCHANGED <<layer, s_axis_tvalid, frame, skid, owed>>
      BY <1>2 DEF vars, sourceVars
    <2>3. UNCHANGED <<state, nheld, drain_idx, hb, skip_r, keep_r, drop_r, ihl_r, total_r, bad_r>>
      BY <1>2 DEF vars, fsmVars
    <2>4. SourceInv'
      BY <2>2 DEF FeedInv, SourceInv, Sending
    <2>5. HoldInv'
      BY <2>2, <2>3 DEF FeedInv, HoldInv, SniffInv, Sending, draining
    <2>6. GearTypes'
      BY <2>1 DEF FeedInv, GearTypes
    <2>7. layer' # "reg" => GearInv'
      <3>1. Within' = Within /\ Fed' = Fed /\ Waiting' = Waiting /\ Ctrl' = Ctrl
        BY <2>2, <2>3 DEF Within, Fed, Waiting, Ctrl
      <3> QED
        BY <2>1, <2>2, <3>1 DEF FeedInv, GearInv, InPort, IdlePort, InFrame, Idle
    <2>8. layer' = "reg" => RegInv'
      BY <2>1, <2>2 DEF FeedInv, RegInv
    <2> QED
      BY <2>4, <2>5, <2>6, <2>7, <2>8 DEF FeedInv
  <1> QED
    BY <1>1, <1>2 DEF Next

\* The invariant says it of the beat on the port.
LEMMA FeedOutput ==
    ASSUME FeedInv
    PROVE  OutputRight
  <1>1. \E R : Port(m_axis, owed, R)
    BY DEF FeedInv, GearInv, InPort, IdlePort, RegInv
  <1> QED
    BY <1>1 DEF Port, OutputRight, DueBeat, DueOf

\* For every set of frames that the reference and the hardware treat alike, every stall on
\* both sides and every layer: the beat on the port is the next one of the payloads that
\* the reference finds, with its exact bytes and tlast on a payload's last beat only.
THEOREM FeedOutputRight ==
    ASSUME AllIntact
    PROVE  Spec => []OutputRight
  <1>1. Init => FeedInv
    BY FeedInit
  <1>2. FeedInv /\ [Next]_vars => FeedInv'
    BY FeedStep
  <1>3. FeedInv => OutputRight
    BY FeedOutput
  <1> QED
    BY <1>1, <1>2, <1>3, PTL DEF Spec

\* The bytes of a beat that is due fill one to KEEP_W lanes.
LEMMA DueSize ==
    ASSUME NEW p \in Pieces, p.from <= p.to
    PROVE  Len(DueOf(p).bytes) \in 1 .. KEEP_W
  <1> DEFINE z == p.from + KEEP_W - 1
             e == Min({z, p.to})
  <1>1. p.from \in Nat /\ p.to \in Nat /\ KEEP_W \in Nat \ {0} /\ z \in Int
    BY GearAssumption DEF Pieces
  <1>2. DueOf(p).bytes = Bytes(p.no, p.kind, p.from, e)
    BY DEF DueOf
  <1>3. e = IF z <= p.to THEN z ELSE p.to
    <2> HIDE DEF z
    <2> QED
      BY <1>1, MinTwo
  <1>4. e \in Int /\ p.from <= e /\ e - p.from + 1 <= KEEP_W
    BY <1>1, <1>3
  <1> HIDE DEF e, z
  <1>5. Len(Bytes(p.no, p.kind, p.from, e)) = IF e < p.from THEN 0 ELSE e - p.from + 1
    BY <1>1, <1>4, BytesAre
  <1> QED
    BY <1>1, <1>2, <1>4, <1>5

\* What is staged and held fits.
LEMMA FeedTypes ==
    ASSUME FeedInv
    PROVE  TypeOK
  <1>0. KEEP_W \in Nat \ {0}
    BY GearAssumption
  <1>1. ASSUME NEW no, NEW k, NEW from \in Int, NEW to \in Int, buf_q = Bytes(no, k, from, to),
               from <= to + 1, to + 1 - from < KEEP_W
        PROVE  Len(buf_q) < KEEP_W
    <2>1. Len(buf_q) = IF to < from THEN 0 ELSE to - from + 1
      BY <1>1, BytesAre
    <2> QED
      BY <1>0, <1>1, <2>1
  <1>2. Len(buf_q) < KEEP_W
    <2>1. CASE layer = "reg"
      BY <1>0, <2>1 DEF FeedInv, RegInv
    <2>2. CASE layer # "reg" /\ Within
      <3>1. PICK no, k, s, l, d, fed, from : InFrame(no, k, s, l, d, fed, from)
        BY <2>2 DEF FeedInv, GearInv, InPort
      <3> DEFINE at == EndAt(s, l, d, fed)
      <3>2. /\ s \in Nat /\ l \in Nat /\ fed \in 1 .. Frames[k].len - 1 /\ k \in Kinds
            /\ from \in s + 1 .. at + 1 /\ at + 1 - from < KEEP_W /\ buf_q = Bytes(no, k, from, at)
        BY <3>1 DEF InFrame
      <3>3. Frames[k].len \in Nat
        BY <3>2, FrameAssumption DEF FrameOK
      <3>4. at \in Int
        BY <3>2, <3>3 DEF EndAt
      <3> HIDE DEF at
      <3>5. from \in Int /\ from <= at + 1
        BY <3>2, <3>4
      <3> QED
        BY <1>1, <3>2, <3>4, <3>5
    <2>3. CASE layer # "reg" /\ ~Within
      <3>1. PICK no, k, from, to : Idle(no, k, from, to)
        BY <2>3 DEF FeedInv, GearInv, IdlePort
      <3> QED
        BY <1>1, <3>1 DEF Idle
    <2> QED
      BY <2>1, <2>2, <2>3
  <1>3. m_axis # NULL => Len(m_axis.bytes) \in 1 .. KEEP_W
    <2>1. \E R : Port(m_axis, owed, R)
      BY DEF FeedInv, GearInv, InPort, IdlePort, RegInv
    <2>2. owed \in Seq(Pieces)
      BY DEF FeedInv, SourceInv
    <2>3. ASSUME m_axis # NULL
          PROVE  Len(m_axis.bytes) \in 1 .. KEEP_W
      <3>1. owed # <<>> /\ Head(owed).from <= Head(owed).to /\ m_axis = DueOf(Head(owed))
        BY <2>1, <2>3 DEF Port
      <3>2. Head(owed) \in Pieces
        BY <2>2, <3>1
      <3> QED
        BY <3>1, <3>2, DueSize
    <2> QED
      BY <2>3
  <1>4. /\ state \in {"SNIFF", "EMIT"} /\ drain_idx \in 0 .. nheld /\ nheld = Len(hb)
        /\ Sniffs(layer) => nheld <= HB_DEPTH[layer]
    <2>1. /\ state \in {"SNIFF", "EMIT"} /\ nheld \in Nat /\ drain_idx \in 0 .. nheld
          /\ hb = HeldBeats(frame.no, frame.kind, nheld)
          /\ nheld > 0 => nheld <= HB_DEPTH[layer]
      BY DEF FeedInv, HoldInv
    <2>2. nheld = Len(hb)
      BY <2>1, HeldOneMore
    <2>3. Sniffs(layer) => 0 <= HB_DEPTH[layer]
      BY DEF Sniffs, HB_DEPTH
    <2> QED
      BY <2>1, <2>2, <2>3
  <1>5. skip_q \in Nat /\ left_q \in Nat
    BY DEF FeedInv, GearTypes
  <1> QED
    BY <1>2, <1>3, <1>4, <1>5 DEF TypeOK

\* For the same frames: less than a beat is staged after every edge, so that a whole beat
\* always fits into buf_q, a beat on the port has 1 to KEEP_W bytes, and no header needs
\* more beats than there is room to hold.
THEOREM FeedTypeOK ==
    ASSUME AllIntact
    PROVE  Spec => []TypeOK
  <1>1. Init => FeedInv
    BY FeedInit
  <1>2. FeedInv /\ [Next]_vars => FeedInv'
    BY FeedStep
  <1>3. FeedInv => TypeOK
    BY FeedTypes
  <1> QED
    BY <1>1, <1>2, <1>3, PTL DEF Spec

-----------------------------------------------------------------------------
(* The gap strobe: what holds of the headers read so far, whatever the     *)
(* order in which datagrams arrive.                                        *)

HeaderSet == [seq : Nat, count : Nat, gap : BOOLEAN]

\* Of the first n of the frames s those with a whole header, and how many.
WholeOf(s, n) == {a \in 1 .. n : Frames[s[a]].len >= 20}
Nth(s, n) == Cardinality(WholeOf(s, n))

\* The headers hs are those of the whole frames in s, in order; the last one of them is
\* still to be read if u.
Counted(s, hs, u) ==
    /\ Nth(s, Len(s)) = Len(hs) + (IF u THEN 1 ELSE 0)
    /\ \A a \in WholeOf(s, Len(s)) :
          Nth(s, a) <= Len(hs) => /\ hs[Nth(s, a)].seq = Frames[s[a]].seq
                                  /\ hs[Nth(s, a)].count = Frames[s[a]].count

\* The number that follows on from a header.
NextSeq(h) == h.seq + eff_count_c(h.count)

\* A gap is flagged exactly where the number is not the one that follows on.
Flagged(hs) ==
    \A j \in 1 .. Len(hs) :
        /\ hs[j].gap => j > 1
        /\ j > 1 => (hs[j].gap <=> hs[j].seq # NextSeq(hs[j - 1]))

\* The register holds the number that follows on from the last header.
Expects(hs, e, have) == (have <=> hs # <<>>) /\ (have => e = NextSeq(hs[Len(hs)]))

\* The headers strobed, with the one that is on the port.
Strobed == IF header = NULL THEN headers ELSE Append(headers, header)

\* The frame that is held has a header that is still to be read.
Unread == state = "SNIFF" /\ nheld > 0 /\ Frames[frame.kind].len >= 20

GapInv ==
    /\ layer # "mold" => arrived = <<>> /\ headers = <<>>
    /\ layer = "mold" =>
         /\ arrived \in Seq(Kinds) /\ headers \in Seq(HeaderSet) /\ header \in HeaderSet \cup {NULL}
         /\ Counted(arrived, Strobed, Unread)
         /\ Flagged(Strobed)
         /\ Expects(Strobed, expected_seq, have_expect) /\ have_expect \in BOOLEAN
         /\ state = "SNIFF" /\ nheld > 0 => arrived # <<>> /\ arrived[Len(arrived)] = frame.kind

\* The whole frames among the first n are finitely many, and one of them is the n-th.
LEMMA WholeFinite ==
    ASSUME NEW s, NEW n \in Nat
    PROVE  /\ IsFiniteSet(WholeOf(s, n)) /\ Nth(s, n) \in Nat
           /\ n \in WholeOf(s, n) => Nth(s, n) >= 1
  <1>1. IsFiniteSet(1 .. n)
    BY FS_Interval
  <1>2. IsFiniteSet(WholeOf(s, n)) /\ WholeOf(s, n) \subseteq 1 .. n
    BY <1>1, FS_Subset DEF WholeOf
  <1>3. Nth(s, n) \in Nat
    BY <1>2, FS_CardinalityType DEF Nth
  <1>4. n \in WholeOf(s, n) => Nth(s, n) # 0
    BY <1>2, FS_EmptySet DEF Nth
  <1> QED
    BY <1>2, <1>3, <1>4

\* Earlier frames count for less than a later whole one.
LEMMA WholeEarlier ==
    ASSUME NEW s, NEW n \in Nat, NEW a \in 1 .. n - 1, n \in WholeOf(s, n)
    PROVE  Nth(s, a) < Nth(s, n)
  <1>1. a \in Nat /\ IsFiniteSet(WholeOf(s, n)) /\ IsFiniteSet(WholeOf(s, a))
        /\ Nth(s, n) \in Nat /\ Nth(s, a) \in Nat
    BY WholeFinite
  <1>2. WholeOf(s, a) \subseteq WholeOf(s, n) /\ n \notin WholeOf(s, a)
    BY DEF WholeOf
  <1>3. /\ Cardinality(WholeOf(s, a)) <= Cardinality(WholeOf(s, n))
        /\ Cardinality(WholeOf(s, a)) # Cardinality(WholeOf(s, n))
    BY <1>1, <1>2, FS_Subset
  <1>4. Nth(s, a) <= Nth(s, n) /\ Nth(s, a) # Nth(s, n)
    BY <1>3 DEF Nth
  <1> QED
    BY <1>1, <1>4

\* A further frame arrives when the headers of the earlier ones have been read.
LEMMA CountArrival ==
    ASSUME NEW s \in Seq(Kinds), NEW k \in Kinds, NEW hs \in Seq(HeaderSet), Counted(s, hs, FALSE)
    PROVE  Counted(Append(s, k), hs, Frames[k].len >= 20)
  <1> DEFINE t == Append(s, k)
             n == Len(s)
  <1>1. n \in Nat /\ Len(t) = n + 1 /\ t[n + 1] = k /\ Len(hs) \in Nat
        /\ \A a \in 1 .. n : t[a] = s[a]
    OBVIOUS
  <1> HIDE DEF t
  <1>2. ASSUME NEW a \in 0 .. n
        PROVE  WholeOf(t, a) = WholeOf(s, a) /\ Nth(t, a) = Nth(s, a)
    <2>1. \A b \in 1 .. a : b \in 1 .. n
      BY <1>1
    <2>2. WholeOf(t, a) = WholeOf(s, a)
      BY <1>1, <2>1 DEF WholeOf
    <2> QED
      BY <2>2 DEF Nth
  <1>3. WholeOf(t, n + 1) = IF Frames[k].len >= 20 THEN WholeOf(s, n) \cup {n + 1} ELSE WholeOf(s, n)
    <2>1. 1 .. n + 1 = (1 .. n) \cup {n + 1}
      BY <1>1
    <2> QED
      BY <1>1, <2>1 DEF WholeOf
  <1>4. IsFiniteSet(WholeOf(s, n)) /\ Nth(s, n) \in Nat /\ n + 1 \notin WholeOf(s, n)
    <2>1. IsFiniteSet(WholeOf(s, n)) /\ Nth(s, n) \in Nat
      BY <1>1, WholeFinite
    <2> QED
      BY <1>1, <2>1 DEF WholeOf
  <1>5. Nth(t, n + 1) = Nth(s, n) + (IF Frames[k].len >= 20 THEN 1 ELSE 0)
    <2>1. CASE Frames[k].len >= 20
      BY <1>3, <1>4, <2>1, FS_AddElement DEF Nth
    <2>2. CASE ~(Frames[k].len >= 20)
      <3>1. Nth(t, n + 1) = Nth(s, n)
        BY <1>3, <2>2 DEF Nth
      <3> QED
        BY <1>4, <2>2, <3>1
    <2> QED
      BY <2>1, <2>2
  <1>6. /\ Nth(s, n) = Len(hs)
        /\ \A a \in WholeOf(s, n) :
             Nth(s, a) <= Len(hs) => hs[Nth(s, a)].seq = Frames[s[a]].seq /\ hs[Nth(s, a)].count = Frames[s[a]].count
    BY <1>1, <1>4 DEF Counted
  <1>7. ASSUME NEW a \in WholeOf(t, n + 1), Nth(t, a) <= Len(hs)
        PROVE  hs[Nth(t, a)].seq = Frames[t[a]].seq /\ hs[Nth(t, a)].count = Frames[t[a]].count
    <2>1. CASE a = n + 1
      <3>1. Frames[k].len >= 20
        BY <1>1, <1>7, <2>1 DEF WholeOf
      <3> QED
        BY <1>1, <1>4, <1>5, <1>6, <1>7, <2>1, <3>1
    <2>2. CASE a # n + 1
      <3>1. a \in WholeOf(s, n)
        BY <1>3, <2>2
      <3>2. a \in 0 .. n /\ a \in 1 .. n
        BY <1>1, <3>1 DEF WholeOf
      <3>3. Nth(t, a) = Nth(s, a) /\ t[a] = s[a]
        BY <1>1, <1>2, <3>2
      <3> QED
        BY <1>6, <1>7, <3>1, <3>3
    <2> QED
      BY <2>1, <2>2
  <1>8. Nth(t, Len(t)) = Len(hs) + (IF Frames[k].len >= 20 THEN 1 ELSE 0)
    BY <1>1, <1>5, <1>6
  <1>9. Counted(t, hs, Frames[k].len >= 20)
    BY <1>1, <1>7, <1>8 DEF Counted
  <1> QED
    BY <1>9 DEF t

\* The header of the last frame is read.
LEMMA CountHeader ==
    ASSUME NEW s \in Seq(Kinds), s # <<>>, NEW hs \in Seq(HeaderSet), Counted(s, hs, TRUE),
           Frames[s[Len(s)]].len >= 20, NEW h \in HeaderSet,
           h.seq = Frames[s[Len(s)]].seq, h.count = Frames[s[Len(s)]].count
    PROVE  Counted(s, Append(hs, h), FALSE)
  <1> DEFINE gs == Append(hs, h)
             n == Len(s)
  <1>1. /\ n \in Nat /\ n >= 1 /\ Len(hs) \in Nat /\ Len(gs) = Len(hs) + 1 /\ gs[Len(hs) + 1] = h
        /\ \A j \in 1 .. Len(hs) : gs[j] = hs[j]
    OBVIOUS
  <1> HIDE DEF gs
  <1>2. n \in WholeOf(s, n) /\ Nth(s, n) = Len(hs) + 1
    BY <1>1 DEF Counted, WholeOf
  <1>3. ASSUME NEW a \in WholeOf(s, n)
        PROVE  gs[Nth(s, a)].seq = Frames[s[a]].seq /\ gs[Nth(s, a)].count = Frames[s[a]].count
    <2>1. CASE a = n
      BY <1>1, <1>2, <2>1
    <2>2. CASE a # n
      <3>1. a \in 1 .. n - 1 /\ a \in Nat /\ a \in WholeOf(s, a)
        BY <1>1, <2>2 DEF WholeOf
      <3>2. Nth(s, a) < Nth(s, n) /\ Nth(s, a) \in Nat /\ Nth(s, a) >= 1
        BY <1>1, <1>2, <3>1, WholeEarlier, WholeFinite
      <3>3. Nth(s, a) \in 1 .. Len(hs)
        BY <1>1, <1>2, <3>2
      <3> QED
        BY <1>1, <1>3, <3>3 DEF Counted
    <2> QED
      BY <2>1, <2>2
  <1>4. Nth(s, n) = Len(gs) + 0
    BY <1>1, <1>2
  <1>5. Counted(s, gs, FALSE)
    BY <1>3, <1>4 DEF Counted
  <1> QED
    BY <1>5 DEF gs

\* What follows on from a header is a number.
LEMMA NextSeqType ==
    ASSUME NEW h \in HeaderSet
    PROVE  NextSeq(h) \in Nat
  <1>1. h.seq \in Nat /\ h.count \in Nat
    BY DEF HeaderSet
  <1> QED
    BY <1>1 DEF NextSeq, eff_count_c

\* The strobe flags the new header by what was expected, and expects what follows on from it.
LEMMA FlagHeader ==
    ASSUME NEW hs \in Seq(HeaderSet), NEW e, NEW have \in BOOLEAN, Flagged(hs), Expects(hs, e, have),
           NEW h \in HeaderSet, h.gap <=> have /\ h.seq # e
    PROVE  Flagged(Append(hs, h)) /\ Expects(Append(hs, h), NextSeq(h), TRUE)
  <1> DEFINE gs == Append(hs, h)
             n == Len(hs)
  <1>1. /\ n \in Nat /\ Len(gs) = n + 1 /\ gs[n + 1] = h /\ gs # <<>> /\ (hs = <<>> <=> n = 0)
        /\ \A j \in 1 .. n : gs[j] = hs[j]
    OBVIOUS
  <1> HIDE DEF gs
  <1>2. ASSUME NEW j \in 1 .. n + 1
        PROVE  (gs[j].gap => j > 1) /\ (j > 1 => (gs[j].gap <=> gs[j].seq # NextSeq(gs[j - 1])))
    <2>1. CASE j = n + 1
      <3>1. CASE n = 0
        BY <1>1, <2>1, <3>1 DEF Expects
      <3>2. CASE n > 0
        <4>1. have /\ e = NextSeq(hs[n])
          BY <1>1, <3>2 DEF Expects
        <4>2. gs[j - 1] = hs[n] /\ j > 1
          BY <1>1, <2>1, <3>2
        <4> QED
          BY <1>1, <2>1, <4>1, <4>2
      <3> QED
        BY <1>1, <3>1, <3>2
    <2>2. CASE j # n + 1
      <3>1. j \in 1 .. n /\ (j > 1 => j - 1 \in 1 .. n)
        BY <1>1, <2>2
      <3> QED
        BY <1>1, <3>1 DEF Flagged
    <2> QED
      BY <2>1, <2>2
  <1>3. Flagged(gs)
    BY <1>1, <1>2 DEF Flagged
  <1>4. Expects(gs, NextSeq(h), TRUE)
    BY <1>1 DEF Expects
  <1> QED
    BY <1>3, <1>4 DEF gs

\* What is flagged of a sequence is flagged of the sequence without its last header.
LEMMA FlaggedPrefix ==
    ASSUME NEW hs \in Seq(HeaderSet), NEW h \in HeaderSet, Flagged(Append(hs, h))
    PROVE  Flagged(hs)
  <1>1. /\ Len(hs) \in Nat /\ Len(Append(hs, h)) = Len(hs) + 1
        /\ \A j \in 1 .. Len(hs) : Append(hs, h)[j] = hs[j]
    OBVIOUS
  <1>2. \A j \in 1 .. Len(hs) : j \in 1 .. Len(hs) + 1 /\ (j > 1 => j - 1 \in 1 .. Len(hs))
    BY <1>1
  <1> QED
    BY <1>1, <1>2 DEF Flagged

\* The number of messages that each header announces.
Announced(hs) == [j \in DOMAIN hs |-> IF hs[j].count = EndSession THEN 0 ELSE hs[j].count]

\* Header j has the number that follows on from header i and all that lie between.
FollowsOn(hs, i, j) == hs[j].seq = hs[i].seq + SumFunctionOnSet(Announced(hs), i .. j - 1)

\* One more header announces so many more messages.
LEMMA SumAnnounced ==
    ASSUME NEW hs \in Seq(HeaderSet), NEW i \in 1 .. Len(hs), NEW j \in i .. Len(hs)
    PROVE  /\ SumFunctionOnSet(Announced(hs), i .. j - 1) \in Nat
           /\ SumFunctionOnSet(Announced(hs), i .. i - 1) = 0
           /\ SumFunctionOnSet(Announced(hs), i .. j)
                = SumFunctionOnSet(Announced(hs), i .. j - 1) + Announced(hs)[j]
           /\ Announced(hs)[j] \in Nat /\ NextSeq(hs[j]) = hs[j].seq + Announced(hs)[j]
  <1> DEFINE f == Announced(hs)
  <1>1. \A S : SumFunctionOnSet(f, S) = SumOver(f, S)
    BY DEF SumFunctionOnSet, FoldFunctionOnSet, SumOver, MapThenSumSet
  <1>2. i \in Int /\ j \in Int /\ Len(hs) \in Nat /\ DOMAIN hs = 1 .. Len(hs)
    OBVIOUS
  <1>3. \A m \in 1 .. Len(hs) : f[m] = (IF hs[m].count = EndSession THEN 0 ELSE hs[m].count) /\ f[m] \in Nat
    <2> SUFFICES ASSUME NEW m \in 1 .. Len(hs)
                 PROVE  f[m] = (IF hs[m].count = EndSession THEN 0 ELSE hs[m].count) /\ f[m] \in Nat
      OBVIOUS
    <2>1. hs[m] \in HeaderSet
      OBVIOUS
    <2>2. hs[m].count \in Nat
      BY <2>1 DEF HeaderSet
    <2> QED
      BY <1>2, <2>2 DEF Announced
  <1>4. IsFiniteSet(i .. j - 1) /\ j \notin i .. j - 1 /\ i .. j = (i .. j - 1) \cup {j}
        /\ i .. j - 1 \subseteq 1 .. Len(hs) /\ j \in 1 .. Len(hs) /\ i .. i - 1 = {}
    <2>1. IsFiniteSet(i .. j - 1)
      BY <1>2, FS_Interval
    <2> QED
      BY <1>2, <2>1
  <1> HIDE DEF f
  <1>5. (\A m \in i .. j - 1 : f[m] \in Nat /\ f[m] \in Int) /\ f[j] \in Int /\ f[j] \in Nat
    BY <1>3, <1>4
  <1>6. SumOver(f, i .. j - 1) \in Nat
    BY <1>4, <1>5, SumType
  <1>7. SumOver(f, (i .. j - 1) \cup {j}) = f[j] + SumOver(f, i .. j - 1)
    BY <1>4, <1>5, SumAdd
  <1>8. SumOver(f, i .. i - 1) = 0
    BY <1>4, SumEmpty
  <1>9. SumOver(f, i .. j) = SumOver(f, i .. j - 1) + f[j]
    <2>1. i .. j = (i .. j - 1) \cup {j}
      BY <1>4
    <2>2. SumOver(f, i .. j) = f[j] + SumOver(f, i .. j - 1)
      BY <1>7, <2>1
    <2>3. \A a, b \in Nat : a + b = b + a
      OBVIOUS
    <2> QED
      BY <1>5, <1>6, <2>2, <2>3
  <1>10. NextSeq(hs[j]) = hs[j].seq + f[j]
    BY <1>3, <1>4 DEF NextSeq, eff_count_c
  <1> QED
    BY <1>1, <1>5, <1>6, <1>8, <1>9, <1>10 DEF f

\* Over any stretch without a flag no message is missing or repeated.
LEMMA StretchFollows ==
    ASSUME NEW hs \in Seq(HeaderSet), Flagged(hs), NEW i \in 1 .. Len(hs)
    PROVE  \A j \in i .. Len(hs) : (\A m \in i + 1 .. j : ~hs[m].gap) => FollowsOn(hs, i, j)
  <1> DEFINE Bad == {j \in i .. Len(hs) : (\A m \in i + 1 .. j : ~hs[m].gap) /\ ~FollowsOn(hs, i, j)}
  <1> SUFFICES ASSUME Bad # {} PROVE FALSE
    OBVIOUS
  <1>1. Len(hs) \in Nat /\ i \in Nat
    OBVIOUS
  <1>2. Bad \in SUBSET Nat
    BY <1>1
  <1> HIDE DEF Bad
  <1>3. PICK j \in Bad : \A k \in Bad : j <= k
    BY <1>2, LeastNumber
  <1>4. j \in i .. Len(hs) /\ (\A m \in i + 1 .. j : ~hs[m].gap) /\ ~FollowsOn(hs, i, j)
    BY <1>3 DEF Bad
  <1>5. hs[i].seq \in Nat /\ hs[j].seq \in Nat
    <2>1. hs[i] \in HeaderSet /\ hs[j] \in HeaderSet
      BY <1>1, <1>4
    <2> QED
      BY <2>1 DEF HeaderSet
  <1>6. CASE j = i
    <2>1. SumFunctionOnSet(Announced(hs), i .. i - 1) = 0
      BY <1>1, <1>4, SumAnnounced
    <2>2. hs[i].seq = hs[i].seq + 0
      BY <1>5
    <2> QED
      BY <1>4, <1>6, <2>1, <2>2 DEF FollowsOn
  <1>7. CASE j # i
    <2> DEFINE p == j - 1
    <2>1. p \in i .. Len(hs) /\ p \in Nat /\ p < j /\ p + 1 = j /\ j \in 1 .. Len(hs) /\ j > 1 /\ j \in i + 1 .. j
      BY <1>1, <1>4, <1>7
    <2> HIDE DEF p
    <2>2. \A m \in i + 1 .. p : ~hs[m].gap
      BY <1>1, <1>4, <2>1
    <2>3. p \notin Bad
      BY <1>1, <1>3, <1>4, <2>1
    <2>4. FollowsOn(hs, i, p)
      BY <2>1, <2>2, <2>3 DEF Bad
    <2>5. hs[j].seq = NextSeq(hs[p])
      BY <1>4, <2>1 DEF Flagged, p
    <2>6. /\ SumFunctionOnSet(Announced(hs), i .. p)
               = SumFunctionOnSet(Announced(hs), i .. p - 1) + Announced(hs)[p]
          /\ SumFunctionOnSet(Announced(hs), i .. p - 1) \in Nat /\ Announced(hs)[p] \in Nat
          /\ NextSeq(hs[p]) = hs[p].seq + Announced(hs)[p]
      BY <2>1, SumAnnounced
    <2>7. hs[p].seq = hs[i].seq + SumFunctionOnSet(Announced(hs), i .. p - 1)
      BY <2>4 DEF FollowsOn
    <2>8. hs[j].seq = hs[i].seq + SumFunctionOnSet(Announced(hs), i .. p)
      BY <1>5, <2>5, <2>6, <2>7
    <2>9. p = j - 1
      BY DEF p
    <2> QED
      BY <1>4, <2>8, <2>9 DEF FollowsOn
  <1> QED
    BY <1>6, <1>7

\* The invariant implies the property.
LEMMA GapsRight ==
    ASSUME GapInv
    PROVE  GapsReported
  <1>1. PICK hs : hs = headers
    OBVIOUS
  <1>2. PICK s : s = arrived
    OBVIOUS
  <1>3. hs \in Seq(HeaderSet)
    <2>1. <<>> \in Seq(HeaderSet)
      OBVIOUS
    <2> QED
      BY <1>1, <2>1 DEF GapInv
  <1>4. Flagged(hs)
    <2>1. CASE layer = "mold" /\ header # NULL
      BY <1>1, <2>1, FlaggedPrefix DEF GapInv, Strobed
    <2>2. CASE layer = "mold" /\ header = NULL
      BY <1>1, <2>2 DEF GapInv, Strobed
    <2>3. CASE layer # "mold"
      BY <1>1, <2>3 DEF GapInv, Flagged
    <2> QED
      BY <2>1, <2>2, <2>3
  <1>5. /\ Len(hs) <= Nth(s, Len(s))
        /\ \A a \in WholeOf(s, Len(s)) : Nth(s, a) <= Len(hs) =>
              hs[Nth(s, a)].seq = Frames[s[a]].seq /\ hs[Nth(s, a)].count = Frames[s[a]].count
    <2>1. CASE layer # "mold"
      <3>1. hs = <<>> /\ s = <<>> /\ Len(s) = 0 /\ Len(hs) = 0
        BY <1>1, <1>2, <2>1 DEF GapInv
      <3>2. WholeOf(s, 0) = {}
        BY DEF WholeOf
      <3>3. Nth(s, 0) = 0
        BY <3>2, FS_EmptySet DEF Nth
      <3> QED
        BY <3>1, <3>2, <3>3
    <2>2. CASE layer = "mold"
      <3>1. PICK gs : gs = Strobed
        OBVIOUS
      <3>2. PICK u : u = Unread
        OBVIOUS
      <3>3. /\ s \in Seq(Kinds) /\ gs \in Seq(HeaderSet) /\ Counted(s, gs, u)
            /\ Len(gs) >= Len(hs) /\ \A j \in 1 .. Len(hs) : gs[j] = hs[j]
        <4>1. s \in Seq(Kinds) /\ Counted(s, gs, u) /\ header \in HeaderSet \cup {NULL}
          BY <1>1, <1>2, <2>2, <3>1, <3>2 DEF GapInv
        <4>2. gs = hs \/ \E h \in HeaderSet : gs = Append(hs, h)
          BY <1>1, <3>1, <4>1 DEF Strobed
        <4>3. gs \in Seq(HeaderSet) /\ Len(gs) >= Len(hs) /\ \A j \in 1 .. Len(hs) : gs[j] = hs[j]
          BY <1>3, <4>2
        <4> QED
          BY <4>1, <4>3
      <3>4. Len(s) \in Nat /\ Len(hs) \in Nat /\ Len(gs) \in Nat
        BY <1>3, <3>3
      <3>5. Len(hs) <= Nth(s, Len(s))
        <4>1. Nth(s, Len(s)) = Len(gs) + (IF u THEN 1 ELSE 0)
          BY <3>3 DEF Counted
        <4> QED
          BY <3>3, <3>4, <4>1
      <3>6. ASSUME NEW a \in WholeOf(s, Len(s)), Nth(s, a) <= Len(hs)
            PROVE  hs[Nth(s, a)].seq = Frames[s[a]].seq /\ hs[Nth(s, a)].count = Frames[s[a]].count
        <4>1. a \in Nat /\ a \in WholeOf(s, a)
          BY <3>4 DEF WholeOf
        <4>2. Nth(s, a) \in Nat /\ Nth(s, a) >= 1
          BY <4>1, WholeFinite
        <4>3. Nth(s, a) \in 1 .. Len(hs) /\ Nth(s, a) <= Len(gs)
          BY <3>3, <3>4, <3>6, <4>2
        <4> QED
          BY <3>3, <3>6, <4>3 DEF Counted
      <3> QED
        BY <3>5, <3>6
    <2> QED
      BY <2>1, <2>2
  <1>6. \A n : Whole(n) = WholeOf(s, n)
    BY <1>2 DEF Whole, WholeOf
  <1>7. ASSUME NEW j \in DOMAIN hs
        PROVE  /\ hs[j].gap => j > 1 /\ ~FollowsOn(hs, j - 1, j)
               /\ \A i \in 1 .. j - 1 : (\A m \in i + 1 .. j : ~hs[m].gap) => FollowsOn(hs, i, j)
    <2>1. j \in 1 .. Len(hs) /\ Len(hs) \in Nat
      BY <1>3
    <2>2. ASSUME hs[j].gap
          PROVE  j > 1 /\ ~FollowsOn(hs, j - 1, j)
      <3> DEFINE p == j - 1
      <3>1. j > 1 /\ hs[j].seq # NextSeq(hs[j - 1])
        BY <1>4, <2>1, <2>2 DEF Flagged
      <3>2. p \in 1 .. Len(hs) /\ p \in p .. Len(hs)
        BY <2>1, <3>1
      <3> HIDE DEF p
      <3>3. /\ SumFunctionOnSet(Announced(hs), p .. p - 1) = 0
            /\ SumFunctionOnSet(Announced(hs), p .. p)
                 = SumFunctionOnSet(Announced(hs), p .. p - 1) + Announced(hs)[p]
            /\ Announced(hs)[p] \in Nat /\ NextSeq(hs[p]) = hs[p].seq + Announced(hs)[p]
        BY <1>3, <3>2, SumAnnounced
      <3>4. SumFunctionOnSet(Announced(hs), p .. p) = Announced(hs)[p]
        BY <3>3
      <3>5. p = j - 1
        BY DEF p
      <3> QED
        BY <3>1, <3>3, <3>4, <3>5 DEF FollowsOn
    <2>3. ASSUME NEW i \in 1 .. j - 1, \A m \in i + 1 .. j : ~hs[m].gap
          PROVE  FollowsOn(hs, i, j)
      <3>1. i \in 1 .. Len(hs) /\ j \in i .. Len(hs)
        BY <2>1
      <3> QED
        BY <1>3, <1>4, <2>3, <3>1, StretchFollows
    <2> QED
      BY <2>2, <2>3
  <1>8. /\ Len(headers) <= Cardinality(Whole(Len(arrived)))
        /\ \A a \in Whole(Len(arrived)) : Cardinality(Whole(a)) <= Len(headers) =>
              /\ headers[Cardinality(Whole(a))].seq = Frames[arrived[a]].seq
              /\ headers[Cardinality(Whole(a))].count = Frames[arrived[a]].count
    BY <1>1, <1>2, <1>5, <1>6 DEF Nth
  <1>9. \A j \in DOMAIN headers :
          /\ headers[j].gap => j > 1 /\ ~FollowsOn(headers, j - 1, j)
          /\ \A i \in 1 .. j - 1 : (\A m \in i + 1 .. j : ~headers[m].gap) => FollowsOn(headers, i, j)
    BY <1>1, <1>7
  <1> QED
    BY <1>8, <1>9, Zenon DEF GapsReported, FollowsOn, Announced

-----------------------------------------------------------------------------
(* An edge of mold_parser, for its headers: nothing happens, a frame       *)
(* begins, or its header is read.                                          *)

NoHeader == header' = NULL /\ expected_seq' = expected_seq /\ have_expect' = have_expect

Quiet ==
    /\ NoHeader /\ arrived' = arrived /\ Unread' = Unread
    /\ state' = "SNIFF" /\ nheld' > 0 => state = "SNIFF" /\ nheld > 0 /\ frame'.kind = frame.kind

Begins(k) ==
    /\ NoHeader /\ k \in Kinds /\ arrived' = Append(arrived, k) /\ frame'.kind = k
    /\ ~Unread /\ (Unread' <=> Frames[k].len >= 20)

Reads(k) ==
    /\ arrived' = arrived /\ k \in Kinds /\ k = frame.kind /\ Frames[k].layer = "mold"
    /\ state = "SNIFF" /\ nheld > 0 /\ Unread /\ state' = "EMIT"
    /\ header' = [seq |-> Frames[k].seq, count |-> Frames[k].count,
                  gap |-> have_expect /\ Frames[k].seq # expected_seq]
    /\ expected_seq' = Frames[k].seq + eff_count_c(Frames[k].count)
    /\ have_expect' = TRUE

\* The machine goes on without a beat from the source.
LEMMA MoldStalls ==
    ASSUME FeedInv, layer = "mold", NEW ready \in BOOLEAN, NoBeat(ready)
    PROVE  Quiet
  <1>1. /\ ~(s_axis_tvalid /\ s_axis_tready(ready)) /\ frame' = frame /\ arrived' = arrived
        /\ HoldAndReplay(s_axis_tvalid, Frames[frame.kind], NULL, ready)
    BY DEF NoBeat, Stage, Sniffs, HB_DEPTH
  <1>2. s_axis_tvalid \in BOOLEAN
    BY DEF FeedInv, SourceInv
  <1>3. CASE state = "SNIFF"
    <2>1. ~s_axis_tvalid
      BY <1>1, <1>2, <1>3 DEF s_axis_tready, Sniffs, HB_DEPTH
    <2>2. FsmStays
      BY <1>1, <1>3, <2>1 DEF HoldAndReplay, draining
    <2> QED
      BY <1>1, <2>2 DEF FsmStays, fsmVars, Quiet, NoHeader, Unread
  <1>4. CASE state # "SNIFF"
    <2>1. FsmStays \/ Drained
      <3>1. CASE draining
        BY <1>1, <1>4, <3>1 DEF HoldAndReplay
      <3>2. CASE ~draining
        <4>1. ~(s_axis_tvalid /\ gear_tready(ready))
          BY <1>1, <1>2, <3>2 DEF s_axis_tready
        <4> QED
          BY <1>1, <1>4, <3>2, <4>1 DEF HoldAndReplay
      <3> QED
        BY <3>1, <3>2
    <2>2. NoHeader /\ (state' = state \/ (state' = "SNIFF" /\ nheld' = 0))
      <3>1. CASE FsmStays
        BY <3>1 DEF FsmStays, fsmVars, NoHeader
      <3>2. CASE Drained
        BY <3>2 DEF Drained, BackToSniff, NoHeader
      <3> QED
        BY <2>1, <3>1, <3>2
    <2>3. ~(state' = "SNIFF" /\ nheld' > 0)
      BY <1>4, <2>2
    <2> QED
      BY <1>1, <1>4, <2>2, <2>3 DEF Quiet, Unread
  <1> QED
    BY <1>3, <1>4

\* A beat of a frame that has begun is passed on by a machine that has read the header.
LEMMA MoldPasses ==
    ASSUME FeedInv, layer = "mold", state = "EMIT", NEW ready \in BOOLEAN, LaterBeat(ready)
    PROVE  Quiet
  <1>1. arrived' = arrived
    BY DEF LaterBeat
  <1>2. PICK valid, f, beat : valid = TRUE /\ HoldAndReplay(valid, f, beat, ready) /\ s_axis_tready(ready)
    BY DEF LaterBeat, Accept, Stage, Sniffs, HB_DEPTH
  <1>3. ~draining
    BY <1>2 DEF s_axis_tready
  <1>4. FsmStays \/ BackToSniff
    BY <1>2, <1>3 DEF HoldAndReplay
  <1>5. NoHeader /\ (state' = state \/ (state' = "SNIFF" /\ nheld' = 0))
    <2>1. CASE FsmStays
      BY <2>1 DEF FsmStays, fsmVars, NoHeader
    <2>2. CASE BackToSniff
      BY <2>2 DEF BackToSniff, NoHeader
    <2> QED
      BY <1>4, <2>1, <2>2
  <1>6. ~(state' = "SNIFF" /\ nheld' > 0)
    BY <1>5
  <1> QED
    BY <1>1, <1>5, <1>6 DEF Quiet, Unread

\* What sniffing a beat of a datagram does: nheld counts the beats before it.
LEMMA MoldSniffs ==
    ASSUME FeedInv, layer = "mold", state = "SNIFF", NEW ready \in BOOLEAN,
           NEW no \in Nat, NEW k \in Kinds, NEW sent \in Nat, sent < Frames[k].len, sent = 8 * nheld,
           Accept(no, k, sent, ready)
    PROVE  /\ frame'.kind = k /\ nheld \in Nat /\ nheld' = nheld + 1
           /\ KEEP_W = 8 /\ Frames[k].len \in Nat
           /\ SniffMold(Frames[k], Frames[k].len <= 8 * (nheld + 1))
  <1>0. KEEP_W = 8
    BY FrameAssumption DEF FeedInv, SourceInv
  <1>1. nheld \in Nat /\ Frames[k].len \in Nat
    BY FrameAssumption DEF FeedInv, HoldInv, FrameOK
  <1>2. PICK beat : beat = BeatAt(no, k, sent)
    OBVIOUS
  <1>3. frame'.kind = k /\ HoldAndReplay(TRUE, Frames[k], beat, ready)
    BY <1>2 DEF Accept, Stage, Sniffs, HB_DEPTH
  <1>4. Sniff(Frames[k], beat)
    BY <1>3 DEF HoldAndReplay, draining
  <1>5. nheld' = nheld + 1 /\ SniffMold(Frames[k], beat.last)
    BY <1>4 DEF Sniff
  <1>6. beat.last = (Frames[k].len <= 8 * (nheld + 1))
    <2>1. beat.last = (sent + 8 >= Frames[k].len)
      BY <1>0, <1>2 DEF BeatAt
    <2>2. (sent + 8 >= Frames[k].len) = (Frames[k].len <= 8 * (nheld + 1))
      BY <1>1
    <2> QED
      BY <2>1, <2>2
  <1> QED
    BY <1>0, <1>1, <1>3, <1>5, <1>6

\* A beat that is sniffed leaves the header alone before the third, or in a runt.
LEMMA MoldHolds ==
    ASSUME NEW k \in Kinds, nheld \in Nat, nheld' = nheld + 1, Frames[k].len \in Nat,
           SniffMold(Frames[k], Frames[k].len <= 8 * (nheld + 1)), state = "SNIFF",
           nheld < 2 \/ Frames[k].len < 20, nheld <= 2
    PROVE  NoHeader /\ (Frames[k].len >= 20 => state' = "SNIFF")
  <1>1. PICK last : last = (Frames[k].len <= 8 * (nheld + 1))
    OBVIOUS
  <1>2. SniffMold(Frames[k], last)
    BY <1>1
  <1>3. nheld = 2 => ~(Frames[k].len >= 20)
    OBVIOUS
  <1>4. NoHeader
    BY <1>2, <1>3 DEF SniffMold, NoHeader
  <1>5. ASSUME Frames[k].len >= 20
        PROVE  state' = "SNIFF"
    <2>1. nheld # 2 /\ ~(Frames[k].len <= 8 * (nheld + 1))
      BY <1>5
    <2>2. ~last
      BY <1>1, <2>1
    <2> QED
      BY <1>2, <2>1, <2>2 DEF SniffMold, SniffOn
  <1> QED
    BY <1>4, <1>5

\* The first beat of a datagram.
LEMMA MoldBegins ==
    ASSUME FeedInv, layer = "mold", NEW ready \in BOOLEAN, NEW k \in Kinds, FirstBeat(k, ready)
    PROVE  Begins(k)
  <1>1. /\ ~Sending /\ Accept(frame.no + 1, k, 0, ready) /\ arrived' = Append(arrived, k)
        /\ s_axis_tready(ready)
    BY DEF FirstBeat, Accept
  <1>2. state = "SNIFF" /\ nheld = 0
    <2>1. state \in {"SNIFF", "EMIT"} /\ nheld \in Nat
      BY DEF FeedInv, HoldInv
    <2>2. state # "EMIT"
      BY <1>1 DEF FeedInv, HoldInv, s_axis_tready
    <2>3. ~(nheld > 0)
      BY <1>1, <2>1, <2>2 DEF FeedInv, HoldInv
    <2> QED
      BY <2>1, <2>2, <2>3
  <1>3. Frames[k].len \in Nat \ {0} /\ frame.no + 1 \in Nat
    BY FrameAssumption DEF FrameOK, FeedInv, SourceInv
  <1>4. 0 < Frames[k].len /\ 0 = 8 * nheld
    BY <1>2, <1>3
  <1>5. /\ frame'.kind = k /\ nheld \in Nat /\ nheld' = nheld + 1 /\ Frames[k].len \in Nat
        /\ SniffMold(Frames[k], Frames[k].len <= 8 * (nheld + 1))
    BY <1>1, <1>2, <1>3, <1>4, MoldSniffs
  <1>6. NoHeader /\ (Frames[k].len >= 20 => state' = "SNIFF")
    BY <1>2, <1>5, MoldHolds
  <1>7. ~Unread /\ (Unread' <=> Frames[k].len >= 20)
    BY <1>2, <1>5, <1>6 DEF Unread
  <1> QED
    BY <1>1, <1>5, <1>6, <1>7 DEF Begins

\* A later beat of a datagram whose header is not read.
LEMMA MoldGoesOn ==
    ASSUME FeedInv, layer = "mold", state = "SNIFF", NEW ready \in BOOLEAN, LaterBeat(ready)
    PROVE  Quiet \/ \E k : Reads(k)
  <1>1. PICK k \in Kinds, no \in 0 .. MaxFrames : k = frame.kind /\ no = frame.no
    BY DEF FeedInv, SourceInv
  <1>2. /\ Sending /\ Accept(no, k, frame.sent, ready) /\ arrived' = arrived
    BY <1>1 DEF LaterBeat
  <1>3. KEEP_W = 8 /\ no \in Nat
    BY FrameAssumption DEF FeedInv, SourceInv
  <1>4. nheld \in Nat /\ nheld > 0 /\ frame.sent = 8 * nheld /\ nheld <= 2 /\ frame.sent < Frames[k].len
        /\ frame.sent \in Nat /\ Frames[k].layer = "mold"
    <2>1. nheld \in Nat /\ (nheld = 0 /\ Sniffs(layer) => ~Sending)
          /\ (nheld > 0 => frame.sent = 8 * nheld /\ SniffInv(k))
      BY <1>1, <1>3 DEF FeedInv, HoldInv
    <2>2. nheld > 0
      BY <1>2, <2>1 DEF Sniffs, HB_DEPTH
    <2>3. nheld <= 2
      BY <2>1, <2>2 DEF SniffInv
    <2>4. frame.sent \in Nat /\ Frames[k].layer = "mold"
      BY <1>1, <1>2 DEF FeedInv, SourceInv
    <2> QED
      BY <1>1, <1>2, <2>1, <2>2, <2>3, <2>4 DEF Sending
  <1>5. /\ frame'.kind = k /\ nheld' = nheld + 1 /\ Frames[k].len \in Nat
        /\ SniffMold(Frames[k], Frames[k].len <= 8 * (nheld + 1))
    BY <1>2, <1>3, <1>4, MoldSniffs
  <1>6. CASE nheld < 2 \/ Frames[k].len < 20
    <2>1. NoHeader /\ (Frames[k].len >= 20 => state' = "SNIFF")
      BY <1>4, <1>5, <1>6, MoldHolds
    <2>2. Unread' = Unread
      BY <1>1, <1>4, <1>5, <2>1 DEF Unread
    <2> QED
      BY <1>1, <1>2, <1>4, <1>5, <2>1, <2>2 DEF Quiet
  <1>7. CASE nheld = 2 /\ Frames[k].len >= 20
    <2>1. PICK last : SniffMold(Frames[k], last)
      BY <1>5
    <2>2. Reads(k)
      BY <1>1, <1>2, <1>4, <1>7, <2>1 DEF Reads, SniffMold, Resolve, Unread
    <2> QED
      BY <2>2
  <1> QED
    BY <1>4, <1>5, <1>6, <1>7

\* Every edge of mold_parser is one of the three, and the monitor notes what was strobed.
LEMMA MoldEdge ==
    ASSUME FeedInv, layer = "mold", NEW ready \in BOOLEAN, Edge(ready)
    PROVE  /\ layer' = layer /\ headers' = Strobed
           /\ Quiet \/ \E k : Begins(k) \/ Reads(k)
  <1>1. layer' = layer /\ Downstream
    BY DEF Edge, FirstBeat, LaterBeat, NoBeat, Accept
  <1>2. headers' = Strobed
    BY <1>1 DEF Downstream, Strobed
  <1>3. ASSUME LaterBeat(ready)
        PROVE  Quiet \/ \E k : Begins(k) \/ Reads(k)
    <2>1. state \in {"SNIFF", "EMIT"}
      BY DEF FeedInv, HoldInv
    <2> QED
      BY <1>3, <2>1, MoldGoesOn, MoldPasses
  <1>4. ASSUME NEW k \in Kinds, FirstBeat(k, ready)
        PROVE  Quiet \/ \E k2 : Begins(k2) \/ Reads(k2)
    BY <1>4, MoldBegins
  <1>5. ASSUME NoBeat(ready)
        PROVE  Quiet \/ \E k : Begins(k) \/ Reads(k)
    BY <1>5, MoldStalls
  <1> QED
    BY <1>1, <1>2, <1>3, <1>4, <1>5 DEF Edge

\* After reset no frame has arrived and no header was read.
LEMMA GapInit ==
    ASSUME Init
    PROVE  GapInv
  <1>1. /\ arrived = <<>> /\ headers = <<>> /\ header = NULL /\ have_expect = FALSE /\ nheld = 0
    BY DEF Init
  <1>2. Strobed = <<>> /\ Unread = FALSE
    BY <1>1 DEF Strobed, Unread
  <1>3. <<>> \in Seq(Kinds) /\ <<>> \in Seq(HeaderSet) /\ Len(<<>>) = 0
    OBVIOUS
  <1>4. Counted(<<>>, <<>>, FALSE)
    <2>1. WholeOf(<<>>, 0) = {}
      BY DEF WholeOf
    <2>2. Nth(<<>>, 0) = 0
      BY <2>1, FS_EmptySet DEF Nth
    <2> QED
      BY <1>3, <2>1, <2>2 DEF Counted
  <1>5. Flagged(<<>>)
    BY <1>3 DEF Flagged
  <1>6. Expects(<<>>, expected_seq, have_expect)
    BY <1>1 DEF Expects
  <1>7. Counted(arrived, Strobed, Unread) /\ Flagged(Strobed)
    BY <1>1, <1>2, <1>4, <1>5
  <1>8. Expects(Strobed, expected_seq, have_expect) /\ have_expect \in BOOLEAN
    BY <1>1, <1>2, <1>6
  <1>9. arrived \in Seq(Kinds) /\ headers \in Seq(HeaderSet) /\ header \in HeaderSet \cup {NULL}
    BY <1>1, <1>3
  <1>10. ~(nheld > 0)
    BY <1>1
  <1> QED
    BY <1>1, <1>7, <1>8, <1>9, <1>10 DEF GapInv

\* Every edge keeps the invariant of the headers.
LEMMA GapStep ==
    ASSUME FeedInv, GapInv, [Next]_vars
    PROVE  GapInv'
  <1>1. CASE UNCHANGED vars
    <2>1. UNCHANGED <<layer, arrived, headers, header, expected_seq, have_expect, state, nheld, frame>>
      BY <1>1 DEF vars, sourceVars, fsmVars, moldVars
    <2>2. Strobed' = Strobed /\ Unread' = Unread
      BY <2>1 DEF Strobed, Unread
    <2> QED
      BY <2>1, <2>2 DEF GapInv
  <1>2. ASSUME NEW ready \in Ready, Edge(ready), layer # "mold"
        PROVE  GapInv'
    <2>1. layer' = layer /\ Downstream /\ arrived' = arrived
      BY <1>2 DEF Edge, FirstBeat, LaterBeat, NoBeat, Accept
    <2>2. headers' = headers
      BY <1>2, <2>1 DEF Downstream
    <2> QED
      BY <1>2, <2>1, <2>2 DEF GapInv
  <1>3. ASSUME NEW ready \in Ready, Edge(ready), layer = "mold"
        PROVE  GapInv'
    <2>0. ready \in BOOLEAN
      BY DEF Ready
    <2>1. /\ layer' = "mold" /\ headers' = Strobed
          /\ Quiet \/ \E k : Begins(k) \/ Reads(k)
      BY <1>3, <2>0, MoldEdge
    <2> PICK e : e = expected_seq
      OBVIOUS
    <2>2. PICK s \in Seq(Kinds), hs \in Seq(HeaderSet), u \in BOOLEAN, have \in BOOLEAN :
            /\ s = arrived /\ hs = Strobed /\ u = Unread /\ have = have_expect /\ e = expected_seq
            /\ Counted(s, hs, u) /\ Flagged(hs) /\ Expects(hs, e, have)
      <3>1. /\ arrived \in Seq(Kinds) /\ headers \in Seq(HeaderSet) /\ header \in HeaderSet \cup {NULL}
            /\ Counted(arrived, Strobed, Unread) /\ Flagged(Strobed)
            /\ Expects(Strobed, expected_seq, have_expect) /\ have_expect \in BOOLEAN
        BY <1>3 DEF GapInv
      <3>2. Strobed \in Seq(HeaderSet)
        BY <3>1 DEF Strobed
      <3>3. Unread \in BOOLEAN
        BY DEF Unread
      <3> QED
        BY <3>1, <3>2, <3>3
    <2>3. headers' = hs
      BY <2>1, <2>2
    <2>4. NoHeader => Strobed' = hs /\ header' \in HeaderSet \cup {NULL}
      BY <2>3 DEF NoHeader, Strobed
    <2>5. CASE Quiet
      <3>1. /\ NoHeader /\ arrived' = s /\ Unread' = u /\ expected_seq' = e /\ have_expect' = have
        BY <2>2, <2>5 DEF Quiet, NoHeader
      <3>2. state' = "SNIFF" /\ nheld' > 0 => arrived' # <<>> /\ arrived'[Len(arrived')] = frame'.kind
        BY <1>3, <2>5 DEF Quiet, GapInv
      <3> QED
        BY <2>1, <2>2, <2>3, <2>4, <3>1, <3>2 DEF GapInv
    <2>6. ASSUME NEW k, Begins(k)
          PROVE  GapInv'
      <3>1. /\ NoHeader /\ arrived' = Append(s, k) /\ u = FALSE /\ k \in Kinds /\ frame'.kind = k
            /\ expected_seq' = e /\ have_expect' = have /\ Unread' = (Frames[k].len >= 20)
        <4>1. Unread' \in BOOLEAN /\ (Frames[k].len >= 20) \in BOOLEAN
          BY DEF Unread
        <4> QED
          BY <2>2, <2>6, <4>1 DEF Begins, NoHeader
      <3>2. Counted(Append(s, k), hs, Frames[k].len >= 20)
        BY <2>2, <3>1, CountArrival
      <3>3. Append(s, k) \in Seq(Kinds) /\ Append(s, k) # <<>> /\ Append(s, k)[Len(Append(s, k))] = k
        BY <3>1
      <3> QED
        BY <2>1, <2>2, <2>3, <2>4, <3>1, <3>2, <3>3 DEF GapInv
    <2>7. ASSUME NEW k, Reads(k)
          PROVE  GapInv'
      <3>1. /\ arrived' = s /\ k \in Kinds /\ u = TRUE /\ state' = "EMIT" /\ s # <<>> /\ s[Len(s)] = k
            /\ Frames[k].len >= 20 /\ Frames[k].layer = "mold"
            /\ expected_seq' = Frames[k].seq + eff_count_c(Frames[k].count) /\ have_expect' = TRUE
        BY <1>3, <2>2, <2>7 DEF Reads, GapInv, Unread
      <3>2. PICK h : h = [seq |-> Frames[k].seq, count |-> Frames[k].count, gap |-> have /\ Frames[k].seq # e]
        OBVIOUS
      <3>3. h \in HeaderSet /\ h # NULL /\ h.seq = Frames[k].seq /\ h.count = Frames[k].count
            /\ (h.gap <=> have /\ h.seq # e)
        <4>1. Frames[k].seq \in Nat /\ Frames[k].count \in Nat /\ NULL \notin HeaderSet
          BY <3>1, FrameAssumption DEF FrameOK, HeaderSet
        <4>2. PICK g \in BOOLEAN : g = (have /\ Frames[k].seq # e)
          BY <2>2
        <4>3. h = [seq |-> Frames[k].seq, count |-> Frames[k].count, gap |-> g]
          BY <3>2, <4>2
        <4>4. h \in HeaderSet
          BY <4>1, <4>3 DEF HeaderSet
        <4>5. h.seq = Frames[k].seq /\ h.count = Frames[k].count /\ h.gap = g
          BY <4>3
        <4> QED
          BY <4>1, <4>2, <4>4, <4>5
      <3>4. header' = h
        BY <2>2, <2>7, <3>2 DEF Reads
      <3>5. Strobed' = Append(hs, h) /\ Unread' = FALSE
        BY <2>3, <3>1, <3>3, <3>4 DEF Strobed, Unread
      <3>6. Counted(s, Append(hs, h), FALSE)
        BY <2>2, <3>1, <3>3, CountHeader
      <3>7. Flagged(Append(hs, h)) /\ Expects(Append(hs, h), NextSeq(h), TRUE)
        BY <2>2, <3>3, FlagHeader
      <3>8. expected_seq' = NextSeq(h)
        BY <3>1, <3>3 DEF NextSeq
      <3> QED
        BY <2>1, <2>3, <3>1, <3>3, <3>4, <3>5, <3>6, <3>7, <3>8 DEF GapInv
    <2> QED
      BY <2>1, <2>5, <2>6, <2>7
  <1> QED
    BY <1>1, <1>2, <1>3 DEF Next

\* mold_parser, for datagrams lost, repeated or reordered at will and every pattern of beats:
\* each whole header is strobed once and in order, a gap is flagged only where the numbers
\* do not follow on, and between two headers without a flag nothing is missing or repeated.
THEOREM FeedGapsReported ==
    ASSUME AllIntact
    PROVE  Spec => []GapsReported
  <1>1. Init => FeedInv /\ GapInv
    BY FeedInit, GapInit
  <1>2. FeedInv /\ GapInv /\ [Next]_vars => FeedInv' /\ GapInv'
    BY FeedStep, GapStep
  <1>3. GapInv => GapsReported
    BY GapsRight
  <1> QED
    BY <1>1, <1>2, <1>3, PTL DEF Spec
=============================================================================
