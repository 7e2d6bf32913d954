--------------------------- MODULE MCFeedHandler ----------------------------
(* Small instances of FeedHandler for TLC. *)
EXTENDS FeedHandler

Eth(len, ethertype, inner) == [layer |-> "eth", len |-> len, ethertype |-> ethertype, inner |-> inner]
IPv4(len, ihl, total, v4, udp, csum) ==
    [layer |-> "ipv4", len |-> len, ihl |-> ihl, total |-> total, v4 |-> v4, udp |-> udp, csum |-> csum]
Udp(len, port, ulen) == [layer |-> "udp", len |-> len, port |-> port, ulen |-> ulen]
Gear(len, skip, keep_len, drop) ==
    [layer |-> "gear", len |-> len, skip |-> skip, keep_len |-> keep_len, drop |-> drop]
Reg(len) == [layer |-> "reg", len |-> len]

\* A message block: a length, a type and the rest of the body, or a length of zero alone.
Block(m) == IF m[2] = 0 THEN <<0, 0>> ELSE <<0, m[2], m[1]>> \o [k \in 1 .. m[2] - 1 |-> 0]
Padding == <<NONE, 0>>
Mold(seq, msgs) ==
    LET payload == FlattenSeq([k \in DOMAIN msgs |-> Block(msgs[k])])
    IN  [layer |-> "mold", len |-> 20 + Len(payload), seq |-> seq, count |-> Len(msgs), payload |-> payload]
Marker(len, seq, count) ==
    [layer |-> "mold", len |-> len, seq |-> seq, count |-> count, payload |-> <<>>]

\* Tagged and untagged, of another type, and runts.
EthFrames ==
    <<Eth(10, "other", "other"), Eth(14, "ipv4", "other"), Eth(17, "vlan", "ipv4"),
      Eth(22, "ipv4", "other"), Eth(31, "ipv4", "other"), Eth(25, "other", "other"),
      Eth(26, "vlan", "ipv4"), Eth(35, "vlan", "other")>>

\* With and without options and padding; each reason to reject.
IPv4Frames ==
    <<IPv4(5, 20, 28, TRUE, TRUE, TRUE), IPv4(28, 20, 28, TRUE, TRUE, TRUE),
      IPv4(46, 20, 37, TRUE, TRUE, TRUE), IPv4(46, 24, 33, TRUE, TRUE, TRUE),
      IPv4(70, 60, 69, TRUE, TRUE, TRUE), IPv4(46, 20, 37, FALSE, TRUE, TRUE),
      IPv4(46, 20, 37, TRUE, FALSE, TRUE), IPv4(46, 24, 37, TRUE, TRUE, FALSE),
      IPv4(46, 20, 19, TRUE, TRUE, TRUE), IPv4(46, 16, 37, TRUE, TRUE, TRUE),
      IPv4(30, 8, 28, TRUE, TRUE, FALSE)>>

UdpFrames ==
    <<Udp(5, TRUE, 20), Udp(8, TRUE, 8), Udp(9, TRUE, 9), Udp(26, TRUE, 26), Udp(26, TRUE, 12),
      Udp(26, TRUE, 8), Udp(26, TRUE, 16), Udp(17, FALSE, 17)>>

\* Headers and payloads that end in the first, the last and a middle lane.
GearFrames ==
    LET lens == <<3, 8, 9, 17, 24>>
        skips == <<0, 3, 8, 11>>
        keeps == <<0, 1, 8, 10>>
    IN  [k \in 1 .. 81 |->
            IF k = 81 THEN Gear(17, 3, 0, TRUE)
            ELSE Gear(lens[(k % 5) + 1], skips[((k \div 5) % 4) + 1], keeps[((k \div 20) % 4) + 1], FALSE)]

\* Every type of message, unknown ones, one that is too short for its type and bodies that
\* are longer than the buffer; blocks of length zero ahead of, between and behind messages;
\* a heartbeat, an end of session and runts.
MoldFrames ==
    <<Mold(1, <<<<"A", 36>>>>), Mold(2, <<<<"D", 19>>, Padding, <<"X", 23>>>>), Mold(4, <<<<"U", 35>>>>),
      Mold(1, <<<<"E", 31>>, <<"S", 12>>, <<"C", 36>>>>), Mold(4, <<<<"F", 40>>, <<"A", 20>>>>),
      Mold(2, <<<<"S", 6>>, <<"L", 53>>>>), Mold(2, <<Padding, <<"A", 52>>, Padding>>),
      Marker(20, 2, 0), Marker(20, 4, EndSession), Marker(12, 0, 0), Marker(18, 1, 1)>>

mc_Frames == EthFrames \o IPv4Frames \o UdpFrames \o GearFrames \o MoldFrames \o <<Reg(8), Reg(19)>>

\* The reference and the hardware treat them alike, which is what the theorems ask for.
ASSUME IntactAssumption == \A k \in DOMAIN mc_Frames : Intact(mc_Frames[k])

\* A packet whose header says that it has no payload, and the padding of its frame.
mc_NoPayload == <<IPv4(46, 20, 37, TRUE, TRUE, TRUE), IPv4(46, 20, 20, TRUE, TRUE, TRUE)>>
=============================================================================
