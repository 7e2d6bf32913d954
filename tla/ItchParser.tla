----------------------------- MODULE ItchParser -----------------------------
(***************************************************************************)
(* The two decoders of an ITCH 5.0 stream: the software one,               *)
(* src/include/itch_parser.hpp, with the golden dump of                    *)
(* src/fpga/tools/itch_dump.cpp, and src/fpga/rtl/itch_parser.v.           *)
(*                                                                         *)
(* A byte is <<frame, place, value>>: where it came from, and, where a     *)
(* decoder acts on it, its value (half a length, or a type).  A field is   *)
(* the sequence of its bytes, <<>> for the default 0.                      *)
(***************************************************************************)
EXTENDS Integers, Sequences, SequencesExt

CONSTANTS
    MAX_MSG,    \* bytes of a body that the hardware keeps (50)
    NONE        \* a byte of a register after reset

ValueOf(byte) == byte[3]

-----------------------------------------------------------------------------
(* Software.                                                               *)

\* Least length of a body and the offsets of its fields, for each modelled type.
Layout ==
    LET common == [timestamp |-> <<5, 10>>, orderRef |-> <<11, 18>>]
        add == common @@ [side |-> <<19, 19>>, shares |-> <<20, 23>>,
                          stock |-> <<24, 31>>, price |-> <<32, 35>>]
        cut == common @@ [shares |-> <<19, 22>>]
    IN  [A |-> [min |-> 36, at |-> add],
         F |-> [min |-> 40, at |-> add],
         E |-> [min |-> 31, at |-> cut],
         C |-> [min |-> 36, at |-> cut @@ [price |-> <<32, 35>>]],
         X |-> [min |-> 23, at |-> cut],
         D |-> [min |-> 19, at |-> common],
         U |-> [min |-> 35, at |-> common @@ [newOrderRef |-> <<19, 26>>,
                                              shares |-> <<27, 30>>, price |-> <<31, 34>>]]]

FieldNames == {"timestamp", "orderRef", "newOrderRef", "side", "shares", "price", "stock"}

\* The bytes at an offset (rdU16 ... rdU64, memcpy).
At(b, range) == SubSeq(b, range[1] + 1, range[2] + 1)

\* A type without a case has its time stamp read when it is there.
decode(b) ==
    LET type == ValueOf(b[1])
        known == type \in DOMAIN Layout
        modeled == known /\ Len(b) >= Layout[type].min
        at == IF modeled THEN Layout[type].at
              ELSE IF ~known /\ Len(b) >= 11 THEN [timestamp |-> <<5, 10>>] ELSE << >>
    IN  [type |-> type, modeled |-> modeled,
         fields |-> [f \in FieldNames |-> IF f \in DOMAIN at THEN At(b, at[f]) ELSE <<>>]]

\* The walk of parseBuffer and itch_dump: the messages from this offset on.  It ends at
\* a length of zero and at a message that is cut off.
dumpFrom(data) ==
    LET walk[off \in 0 .. Len(data)] ==
            IF off + 2 > Len(data) THEN <<>>
            ELSE LET len == 256 * ValueOf(data[off + 1]) + ValueOf(data[off + 2])
                 IN  IF len = 0 \/ off + 2 + len > Len(data) THEN <<>>
                     ELSE <<decode(SubSeq(data, off + 3, off + 2 + len))>> \o walk[off + 2 + len]
    IN  walk[0]

\* What the callback is called with.
parseBuffer(data) == SelectSeq(dumpFrom(data), LAMBDA m : m.modeled)

-----------------------------------------------------------------------------
(* Hardware.                                                               *)

VARIABLES
    itch_state, mlen, mcnt, mbuf,   \* where the walk is, the length, bytes so far, the body
    dec_buf, dec_len, msg_valid     \* the completed message

itchVars == <<itch_state, mlen, mcnt, mbuf, dec_buf, dec_len, msg_valid>>

\* MUTANT: the copy is made before the last byte is stored.
Completed_Early(s, buf) ==
    [s EXCEPT !.st = "LEN0", !.got = TRUE, !.cnt = @ + 1, !.buf = buf, !.dec = s.buf, !.dlen = s.len]
\* The message is complete: it is copied before later lanes can start the next.
Completed(s, buf) ==
    [s EXCEPT !.st = "LEN0", !.got = TRUE, !.cnt = @ + 1, !.buf = buf, !.dec = buf, !.dlen = s.len]

\* One byte lane.
Lane(s, byte) ==
    CASE s.st = "LEN0" -> [s EXCEPT !.st = "LEN1", !.len = 256 * ValueOf(byte) + (@ % 256)]
      [] s.st = "LEN1" -> LET len == s.len - (s.len % 256) + ValueOf(byte) IN
                          [s EXCEPT !.st = IF len = 0 THEN "LEN0" ELSE "BODY", !.len = len, !.cnt = 0]
      [] OTHER -> LET buf == IF s.cnt < MAX_MSG THEN [s.buf EXCEPT ![s.cnt + 1] = byte] ELSE s.buf
                  IN  IF s.cnt + 1 = s.len THEN Completed(s, buf)
                      ELSE [s EXCEPT !.cnt = @ + 1, !.buf = buf]

\* The lanes in order.  (A singleton set has TLC evaluate a lane once.)
Walk(start, bytes) == FoldLeft(LAMBDA s, byte : CHOOSE r \in {Lane(x, byte) : x \in {s}} : TRUE, start, bytes)

\* A clock edge with these bytes on the input, none when it is not valid.
ItchEdge(bytes) ==
    \E s \in {Walk([st |-> itch_state, len |-> mlen, cnt |-> mcnt, buf |-> mbuf,
                    dec |-> dec_buf, dlen |-> dec_len, got |-> FALSE], bytes)} :
        /\ itch_state' = s.st /\ mlen' = s.len /\ mcnt' = s.cnt /\ mbuf' = s.buf
        /\ dec_buf' = s.dec /\ dec_len' = s.dlen /\ msg_valid' = s.got

ItchInit ==
    /\ itch_state = "LEN0" /\ mlen = 0 /\ mcnt = 0 /\ dec_len = 0 /\ msg_valid = FALSE
    /\ mbuf = [k \in 1 .. MAX_MSG |-> NONE] /\ dec_buf = mbuf

\* The output wires while msg_valid is high.
msg_type == ValueOf(dec_buf[1])
known == msg_type \in {"A", "F", "E", "C", "X", "D", "U"}
minlen == CASE msg_type \in {"A", "C"} -> 36 [] msg_type = "F" -> 40 [] msg_type = "E" -> 31
            [] msg_type = "X" -> 23 [] msg_type = "D" -> 19 [] msg_type = "U" -> 35
full == known /\ dec_len >= minlen

msg ==
    LET wire(cond, first, last) == IF cond THEN SubSeq(dec_buf, first + 1, last + 1) ELSE <<>> IN
    [type |-> msg_type, modeled |-> full,
     fields |->
       [timestamp |-> wire(full \/ (~known /\ dec_len >= 11), 5, 10),
        orderRef |-> wire(full, 11, 18),
        newOrderRef |-> wire(full /\ msg_type = "U", 19, 26),
        side |-> wire(full /\ msg_type \in {"A", "F"}, 19, 19),
        shares |-> wire(full /\ msg_type \in {"A", "F"}, 20, 23) \o wire(full /\ msg_type \in {"E", "C", "X"}, 19, 22)
                      \o wire(full /\ msg_type = "U", 27, 30),
        price |-> wire(full /\ msg_type \in {"A", "F", "C"}, 32, 35) \o wire(full /\ msg_type = "U", 31, 34),
        stock |-> wire(full /\ msg_type \in {"A", "F"}, 24, 31)]]
=============================================================================
