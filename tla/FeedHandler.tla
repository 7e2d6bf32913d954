----------------------------- MODULE FeedHandler -----------------------------
(***************************************************************************)
(* The layers of the hardware feed handler, each between a source and a    *)
(* sink: src/fpga/rtl/eth_parser.v, ipv4_parser.v, udp_parser.v,           *)
(* mold_parser.v with itch_parser.v behind it as in feed_top.v, the        *)
(* gearbox alone and axis_reg.v.  Which one it is is chosen in Init.       *)
(*                                                                         *)
(* A step is a clock edge.  Both neighbours may stall at every edge: the   *)
(* source offers a beat or not, the sink is ready or not.  The bytes of a  *)
(* frame are its number and their place; what its header says is in the    *)
(* frame's record, and is looked at when the beat that carries it arrives. *)
(***************************************************************************)
EXTENDS SkipAlign, ItchParser

CONSTANTS
    Frames,         \* the frames there are: a sequence of records, see Golden
    EndSession,     \* COUNT_END_SESS (0xFFFF)
    MaxFrames       \* bound on the frames of a behaviour

Kinds == DOMAIN Frames
Layers == {Frames[k].layer : k \in Kinds}

\* What a frame's record says: its layer and length, and the fields of its header.
FrameOK(f) ==
    /\ f.len \in Nat \ {0}
    /\ f.layer \in {"eth", "ipv4", "udp", "mold", "gear", "reg"}
    /\ f.layer = "ipv4" => /\ f.ihl \in 0 .. 60 /\ f.total \in Nat
                           /\ f.v4 \in BOOLEAN /\ f.udp \in BOOLEAN /\ f.csum \in BOOLEAN
    /\ f.layer = "udp" => f.ulen \in Nat /\ f.port \in BOOLEAN
    /\ f.layer = "mold" => f.seq \in Nat /\ f.count \in Nat /\ DOMAIN f.payload = 1 .. f.len - 20
    /\ f.layer = "gear" => f.skip \in Nat /\ f.keep_len \in Nat /\ f.drop \in BOOLEAN

\* Layers that hold the opening beats back until the header is known, and how many.
HB_DEPTH == [eth |-> 3, ipv4 |-> 8, mold |-> 3]
Sniffs(layer) == layer \in DOMAIN HB_DEPTH

VARIABLES
    layer,
    s_axis_tvalid,                      \* the source offers a beat
    frame,                              \* the source's frame: its number, kind, bytes sent
    state, nheld, drain_idx, hb,        \* hold and replay
    skip_r, keep_r, drop_r,
    ihl_r, total_r, bad_r,              \* IPv4
    expected_seq, have_expect, header,  \* Mold; header is hdr_valid with its values, or NULL
    skid,                               \* the second stage of the register slice
    owed,                               \* history: payload that the sink has not taken
    arrived, headers, decoded           \* history of Mold: frames, headers, messages strobed

sourceVars == <<s_axis_tvalid, frame>>
fsmVars == <<state, nheld, drain_idx, hb, skip_r, keep_r, drop_r, ihl_r, total_r, bad_r>>
moldVars == <<expected_seq, have_expect, header>>
vars == <<gearVars, itchVars, layer, sourceVars, fsmVars, moldVars, skid, owed,
          arrived, headers, decoded>>

-----------------------------------------------------------------------------
(* The source, and what is to be delivered.                                *)

\* A byte's value matters in the message blocks of a Mold datagram only.
Bytes(no, k, from, to) ==
    LET f == Frames[k] IN
    [j \in 1 .. Max({0, to - from + 1}) |->
        <<no, from + j - 1, IF f.layer = "mold" /\ from + j > 21 THEN f.payload[from + j - 21] ELSE 0>>]

BeatAt(no, k, sent) ==
    [bytes |-> Bytes(no, k, sent + 1, Min({sent + KEEP_W, Frames[k].len})),
     last |-> sent + KEEP_W >= Frames[k].len]

\* The parsers know where the fields are in beats of 8 bytes; the gearbox and the register
\* slice do not look.
ASSUME FrameAssumption ==
    /\ 1 \in Kinds /\ \A k \in Kinds : FrameOK(Frames[k])
    /\ KEEP_W = 8 \/ Layers \subseteq {"gear", "reg"}
    /\ MaxFrames \in Nat
    /\ NULL \notin [seq : Nat, count : Nat, gap : BOOLEAN]
    /\ \A no \in 0 .. MaxFrames, k \in Kinds, last \in BOOLEAN :
          \A from \in 1 .. Frames[k].len : \A to \in from .. Min({from + KEEP_W - 1, Frames[k].len}) :
             NULL # [bytes |-> Bytes(no, k, from, to), last |-> last]

Sending == frame.sent < Frames[frame.kind].len

\* The reference unwrapping (tb/frames.py, and README.md of fpga for the gearbox): the
\* places of the first and the last byte of the payload, <<1, 0>> when there is none.
Golden(f) ==
    LET cut(cond, from, to) == IF cond /\ from <= to THEN <<from, to>> ELSE <<1, 0>> IN
    CASE f.layer = "eth" ->
           IF f.ethertype = "vlan" THEN cut(f.len >= 18 /\ f.inner = "ipv4", 19, f.len)
           ELSE cut(f.len >= 14 /\ f.ethertype = "ipv4", 15, f.len)
      [] f.layer = "ipv4" ->
           cut(/\ f.len >= 20 /\ f.v4 /\ f.ihl >= 20 /\ f.len >= f.ihl
               /\ f.udp /\ f.total >= f.ihl /\ f.total <= f.len /\ f.csum, f.ihl + 1, f.total)
      [] f.layer = "udp" -> cut(f.len >= 8 /\ f.port /\ f.ulen >= 8 /\ f.ulen <= f.len, 9, f.ulen)
      [] f.layer = "mold" -> cut(f.len >= 20 /\ f.count \notin {0, EndSession}, 21, f.len)
      [] f.layer = "gear" ->
           cut(~f.drop, f.skip + 1,
               IF f.keep_len = 0 THEN f.len ELSE Min({f.len, f.skip + f.keep_len}))
      [] f.layer = "reg" -> cut(TRUE, 1, f.len)

\* A frame that the reference and the hardware treat alike: it does not end in the beat that
\* completes its header with payload in it, it is not shorter than its header says, a packet
\* has a UDP header in it, and no header of at most 8 bytes has a right checksum.
Intact(f) ==
    /\ f.layer = "eth" => /\ f.ethertype = "ipv4" => f.len \notin 15 .. 16
                          /\ f.ethertype = "vlan" /\ f.inner = "ipv4" => f.len \notin 19 .. 24
    /\ f.layer = "ipv4" => /\ f.ihl <= 8 => ~f.csum
                           /\ (/\ f.v4 /\ f.udp /\ f.csum /\ f.ihl >= 20
                               /\ f.len >= f.ihl /\ f.total >= f.ihl) => f.total \in f.ihl + 8 .. f.len
    /\ f.layer = "udp" => (f.port /\ f.ulen > 8 /\ f.len > 8 => f.ulen <= f.len)

\* What the sink should see next.
DueBeat ==
    LET p == Head(owed) IN
    [bytes |-> Bytes(p.no, p.kind, p.from, Min({p.from + KEEP_W - 1, p.to})),
     last |-> p.from + KEEP_W > p.to]

\* The sink takes the beat on the port, if there is one and it is ready.
AfterTake(ready) ==
    IF m_axis = NULL \/ ~ready \/ owed = <<>> THEN owed
    ELSE IF Head(owed).from + KEEP_W > Head(owed).to THEN Tail(owed)
    ELSE [owed EXCEPT ![1].from = @ + KEEP_W]

WithPayload(rest, no, k) ==
    LET p == Golden(Frames[k]) IN
    IF p[1] > p[2] THEN rest
    ELSE Append(rest, [no |-> no, kind |-> k, from |-> p[1], to |-> p[2]])

-----------------------------------------------------------------------------
(* Hold and replay: the header is decided on while it is held.             *)

draining == state = "EMIT" /\ drain_idx < nheld

\* The header is known: these control values, and the held beats can leave.
Resolve(skip, keep_len, drop) ==
    /\ skip_r' = skip /\ keep_r' = keep_len /\ drop_r' = drop
    /\ state' = "EMIT" /\ drain_idx' = 0

SniffOn == UNCHANGED <<state, drain_idx, skip_r, keep_r, drop_r>>

\* The ethertype is in beat 1, behind a VLAN tag in beat 2; a frame that ends before is a runt.
SniffEth(f, last) ==
    /\ IF last THEN Resolve(14, 0, TRUE)
       ELSE IF nheld = 1 /\ f.ethertype # "vlan" THEN Resolve(14, 0, f.ethertype # "ipv4")
       ELSE IF nheld = 2 THEN Resolve(18, 0, f.inner # "ipv4")
       ELSE SniffOn
    /\ UNCHANGED <<ihl_r, total_r, bad_r, moldVars>>

\* Beat 0 has version, IHL and total length, beat 1 the protocol.  The last beat of the
\* header decides, with the registers as they were before this edge.
SniffIPv4(f, last) ==
    LET ihl_c == IF nheld = 0 THEN f.ihl ELSE ihl_r
        hdr_done_c == ihl_c - KEEP_W * nheld <= KEEP_W
        keep_c == IF total_r > ihl_r THEN total_r - ihl_r ELSE 0
    IN  /\ ihl_r' = ihl_c
        /\ total_r' = IF nheld = 0 THEN f.total ELSE total_r
        /\ bad_r' = CASE nheld = 0 -> ~f.v4 \/ f.ihl < 20
                      [] nheld = 1 -> bad_r \/ ~f.udp
                      [] OTHER -> bad_r
        /\ IF last THEN Resolve(20, 0, TRUE)
           ELSE IF hdr_done_c THEN Resolve(ihl_c, keep_c, bad_r \/ ~f.csum \/ total_r < ihl_c)
           ELSE SniffOn
        /\ UNCHANGED moldVars

\* MUTANT: the mark of the end of a session counts as messages.
eff_count_c_Raw(count) == count
\* The end of a session is a mark and not a number of messages.
eff_count_c(count) == IF count = EndSession THEN 0 ELSE count

\* Beat 2 completes the sequence number and has the count, if its first four bytes are there.
SniffMold(f, last) ==
    LET complete == f.len >= 20 IN
    /\ IF nheld = 2 THEN Resolve(20, 0, ~complete \/ f.count \in {0, EndSession})
       ELSE IF last THEN Resolve(20, 0, TRUE)
       ELSE SniffOn
    /\ IF nheld = 2 /\ complete
       THEN /\ header' = [seq |-> f.seq, count |-> f.count, gap |-> have_expect /\ f.seq # expected_seq]
            /\ expected_seq' = f.seq + eff_count_c(f.count)
            /\ have_expect' = TRUE
       ELSE header' = NULL /\ UNCHANGED <<expected_seq, have_expect>>
    /\ UNCHANGED <<ihl_r, total_r, bad_r>>

Sniff(f, beat) ==
    /\ state = "SNIFF"
    /\ hb' = Append(hb, beat) /\ nheld' = nheld + 1
    /\ CASE layer = "eth" -> SniffEth(f, beat.last)
         [] layer = "ipv4" -> SniffIPv4(f, beat.last)
         [] layer = "mold" -> SniffMold(f, beat.last)

\* The frame has been passed on; the registers keep their values.
BackToSniff ==
    /\ state' = "SNIFF" /\ nheld' = 0 /\ drain_idx' = 0 /\ hb' = <<>>
    /\ header' = NULL
    /\ UNCHANGED <<skip_r, keep_r, drop_r, ihl_r, total_r, bad_r, expected_seq, have_expect>>

FsmStays ==
    /\ header' = NULL
    /\ UNCHANGED <<fsmVars, expected_seq, have_expect>>

\* A held beat is accepted by the gearbox.
Drained ==
    IF hb[drain_idx + 1].last THEN BackToSniff
    ELSE /\ drain_idx' = drain_idx + 1 /\ header' = NULL
         /\ UNCHANGED <<state, nheld, hb, skip_r, keep_r, drop_r, ihl_r, total_r, bad_r,
                        expected_seq, have_expect>>

\* Sniffing, replaying the held beats, or passing the source's beats on as they come.
HoldAndReplay(valid, f, beat, ready) ==
    \/ /\ state = "SNIFF"
       /\ IF valid THEN Sniff(f, beat) ELSE FsmStays
       /\ GearEdge(FALSE, NULL, skip_r, keep_r, drop_r, ready)
    \/ /\ draining
       /\ IF gear_tready(ready) THEN Drained ELSE FsmStays
       /\ GearEdge(TRUE, hb[drain_idx + 1], skip_r, keep_r, drop_r, ready)
    \/ /\ state = "EMIT" /\ ~draining
       /\ IF valid /\ gear_tready(ready) /\ beat.last THEN BackToSniff ELSE FsmStays
       /\ GearEdge(valid, beat, skip_r, keep_r, drop_r, ready)

-----------------------------------------------------------------------------
(* The layers that decide on the spot.                                     *)

\* The whole UDP header is in the first beat.  A length without payload is dropped, as a
\* keep_len of zero has another meaning.
UdpEdge(valid, f, beat, ready) ==
    GearEdge(valid, beat, 8, IF f.ulen > 8 THEN f.ulen - 8 ELSE 0,
             ~f.port \/ f.ulen <= 8 \/ (beat.last /\ Len(beat.bytes) < KEEP_W), ready)

\* The register slice: a beat accepted while the output is stalled is parked.
RegEdge(valid, beat, ready) ==
    /\ UNCHANGED <<buf_q, in_frame, drop_q, bounded_q, done_q, skip_q, left_q>>
    /\ IF out_free(ready)
       THEN /\ m_axis' = IF skid # NULL THEN skid ELSE IF valid THEN beat ELSE NULL
            /\ skid' = NULL
       ELSE /\ skid' = IF valid /\ skid = NULL THEN beat ELSE skid
            /\ UNCHANGED m_axis

s_axis_tready(ready) ==
    IF layer = "reg" THEN skid = NULL
    ELSE (Sniffs(layer) /\ state = "SNIFF") \/ (~draining /\ gear_tready(ready))

Stage(valid, f, beat, ready) ==
    \/ Sniffs(layer) /\ HoldAndReplay(valid, f, beat, ready) /\ UNCHANGED skid
    \/ layer = "udp" /\ UdpEdge(valid, f, beat, ready) /\ FsmStays /\ UNCHANGED skid
    \/ /\ layer = "gear" /\ GearEdge(valid, beat, f.skip, f.keep_len, f.drop, ready)
       /\ FsmStays /\ UNCHANGED skid
    \/ layer = "reg" /\ RegEdge(valid, beat, ready) /\ FsmStays

\* Behind Mold the message parser takes every beat, and a monitor notes the strobes.
Downstream ==
    IF layer # "mold" THEN UNCHANGED <<itchVars, headers, decoded>>
    ELSE /\ ItchEdge(IF m_axis = NULL THEN <<>> ELSE m_axis.bytes)
         /\ decoded' = IF msg_valid THEN Append(decoded, msg) ELSE decoded
         /\ headers' = IF header # NULL THEN Append(headers, header) ELSE headers

\* At the next edge the source has a beat to offer, or not.
Offer ==
    /\ s_axis_tvalid' \in BOOLEAN
    /\ s_axis_tvalid' => frame'.sent < Frames[frame'.kind].len \/ frame'.no < MaxFrames

Accept(no, k, sent, ready) ==
    LET beat == BeatAt(no, k, sent) IN
    /\ s_axis_tvalid /\ s_axis_tready(ready)
    /\ frame' = [no |-> no, kind |-> k, sent |-> sent + Len(beat.bytes)]
    /\ Stage(TRUE, Frames[k], beat, ready)
    /\ Downstream /\ Offer /\ UNCHANGED layer

FirstBeat(k, ready) ==
    /\ ~Sending /\ Frames[k].layer = layer
    /\ Accept(frame.no + 1, k, 0, ready)
    /\ owed' = WithPayload(AfterTake(ready), frame.no + 1, k)
    /\ arrived' = IF layer = "mold" THEN Append(arrived, k) ELSE arrived

LaterBeat(ready) ==
    /\ Sending
    /\ Accept(frame.no, frame.kind, frame.sent, ready)
    /\ owed' = AfterTake(ready)
    /\ UNCHANGED arrived

\* No beat is accepted: none is offered, or the layer is not ready.  A beat that is
\* offered stays.
NoBeat(ready) ==
    /\ ~(s_axis_tvalid /\ s_axis_tready(ready))
    /\ Stage(s_axis_tvalid, Frames[frame.kind], NULL, ready)
    /\ Downstream
    /\ owed' = AfterTake(ready)
    /\ UNCHANGED <<layer, frame, arrived>>
    /\ IF s_axis_tvalid THEN UNCHANGED s_axis_tvalid ELSE Offer

-----------------------------------------------------------------------------
\* After reset.
Init ==
    /\ GearInit /\ ItchInit
    /\ layer \in Layers
    /\ s_axis_tvalid = FALSE /\ skid = NULL
    /\ frame = [no |-> 0, kind |-> 1, sent |-> Frames[1].len]
    /\ state = "SNIFF" /\ nheld = 0 /\ drain_idx = 0 /\ hb = <<>>
    /\ skip_r = 0 /\ keep_r = 0 /\ drop_r = FALSE
    /\ ihl_r = 0 /\ total_r = 0 /\ bad_r = FALSE
    /\ expected_seq = 0 /\ have_expect = FALSE /\ header = NULL
    /\ owed = <<>> /\ arrived = <<>> /\ headers = <<>> /\ decoded = <<>>

\* The message parser is always ready.
Ready == IF layer = "mold" THEN {TRUE} ELSE BOOLEAN

Edge(ready) ==
    \/ \E k \in Kinds : FirstBeat(k, ready)
    \/ LaterBeat(ready)
    \/ NoBeat(ready)

Next == \E ready \in Ready : Edge(ready)

Spec == Init /\ [][Next]_vars

\* The clock ticks, the sink is ready again and again, and the source goes on with a frame
\* that it has begun.
FairSpec == Spec /\ WF_vars(Edge(TRUE) /\ (frame'.sent < Frames[frame'.kind].len => s_axis_tvalid'))

-----------------------------------------------------------------------------
(* Properties.                                                             *)

\* Type invariant.  After an edge less than a beat is staged, so that a whole beat always
\* fits into the 16 bytes of buf_q, and no header needs more beats than are held.
TypeOK ==
    /\ Len(buf_q) < KEEP_W
    /\ skip_q \in Nat /\ left_q \in Nat
    /\ m_axis # NULL => Len(m_axis.bytes) \in 1 .. KEEP_W
    /\ state \in {"SNIFF", "EMIT"} /\ drain_idx \in 0 .. nheld
    /\ nheld = Len(hb) /\ (Sniffs(layer) => nheld <= HB_DEPTH[layer])

\* tb/frames.py unwraps a frame in software; README.md of fpga for the gearbox: "out = b""
\* if drop else frame[skip : skip + keep_len]".  The beat on the output port is the next
\* one of the payloads the reference finds in the frames, in order, with its exact bytes
\* from lane 0 and with tlast on a payload's last beat and nowhere else, whatever the
\* stalls on both sides and whatever the frames before it left in the registers.
OutputRight == m_axis # NULL => owed # <<>> /\ m_axis = DueBeat

\* Every payload is delivered to its last byte although none may follow: no layer waits
\* for the next frame to push out the tail, and none stops in its header.
PayloadDelivered == owed # <<>> ~> owed = <<>>

\* Of the first n frames that arrived, those with a whole header.
Whole(n) == {a \in 1 .. n : Frames[arrived[a]].len >= 20}

\* README.md of fpga: the gap strobe.  Datagrams are lost, repeated or reordered at will.
\* Each with a whole header is strobed once, in order; a gap is flagged only where numbers
\* do not follow on; and between two headers without a flag no message is missing or
\* repeated, over heartbeats, ends of session and runts.
GapsReported ==
    LET messages == [j \in DOMAIN headers |-> IF headers[j].count = EndSession THEN 0 ELSE headers[j].count]
        follows(i, j) == headers[j].seq = headers[i].seq + SumFunctionOnSet(messages, i .. j - 1)
    IN  /\ Len(headers) <= Cardinality(Whole(Len(arrived)))
        /\ \A a \in Whole(Len(arrived)) :
              LET j == Cardinality(Whole(a)) IN
              j <= Len(headers) => /\ headers[j].seq = Frames[arrived[a]].seq
                                   /\ headers[j].count = Frames[arrived[a]].count
        /\ \A j \in DOMAIN headers :
              /\ headers[j].gap => j > 1 /\ ~follows(j - 1, j)
              /\ \A i \in 1 .. j - 1 : (\A m \in i + 1 .. j : ~headers[m].gap) => follows(i, j)

\* The payloads of the datagrams that arrived, as one stream; and all of it has been seen.
Stream ==
    FlattenSeq([j \in DOMAIN arrived |->
        LET p == Golden(Frames[arrived[j]]) IN Bytes(j, arrived[j], p[1], p[2])])
AllSeen == layer = "mold" /\ ~Sending /\ state = "SNIFF" /\ buf_q = <<>> /\ m_axis = NULL /\ ~msg_valid

\* A stream without its blocks of length zero.
Unpadded(data) ==
    LET rest[off \in 0 .. Len(data)] ==
            IF off + 2 > Len(data) THEN SubSeq(data, off + 1, Len(data))
            ELSE LET len == 256 * ValueOf(data[off + 1]) + ValueOf(data[off + 2])
                     next == Min({off + 2 + len, Len(data)})
                 IN  (IF len = 0 THEN <<>> ELSE SubSeq(data, off + 1, next)) \o rest[next]
    IN  rest[0]

\* itch_dump.cpp: "so the testbench can diff the hardware parser's output line-for-line".
\* The messages strobed are those the software parser finds in the payloads that arrived
\* when it is given them without the blocks of length zero, at which it stops and the
\* hardware goes on: in order, with the same fields, also for bodies longer than the buffer,
\* and when all has drained none is missing.  So whatever parseBuffer hands to the book for
\* the stream as it is, the hardware has strobed first, and all that it has strobed beyond
\* that lies behind such a block.  Within a message the bytes that are in are fewer than
\* it has, so that the slot they go to exists.
DecodedRight ==
    layer = "mold" =>
        /\ \E dump \in {dumpFrom(Unpadded(Stream))} :
              IsPrefix(decoded, dump) /\ (AllSeen => decoded = dump)
        /\ AllSeen => IsPrefix(parseBuffer(Stream), SelectSeq(decoded, LAMBDA m : m.modeled))
        /\ itch_state = "BODY" => mcnt \in 0 .. mlen - 1
=============================================================================
