------------------------- MODULE BookPublisherProofs -------------------------
(***************************************************************************)
(* Proofs about BookPublisher for every size of a BookView, width of seq_, *)
(* number of attempts and number of publications.                          *)
(***************************************************************************)
EXTENDS BookPublisher, NumberLemmas, TLAPS

\* The larger of two numbers.
LEMMA MaxOfTwo ==
    ASSUME NEW a \in Int, NEW b \in Int
    PROVE  Max({a, b}) \in {a, b} /\ Max({a, b}) >= a /\ Max({a, b}) >= b
  <1>1. \E t \in {a, b} : \A x \in {a, b} : t >= x
    OBVIOUS
  <1>2. QED
    BY <1>1 DEF Max

\* The writer: seq is odd exactly during a publication, and every word holds the
\* last completed publication or the one in progress.
WriterOK ==
    \E k \in Nat :
        \/ /\ wpc = "idle" /\ seq = 2 * k
           /\ \A w \in Words : data_[w] = k
        \/ /\ wpc = "copy" /\ seq = 2 * k + 1
           /\ \A w \in Words : data_[w] = IF w \in unwritten THEN k ELSE k + 1

\* The reader: what it has read is vouched for by what it knows of seq_.
ReaderOK ==
    /\ \A w \in Words : out[w] <= data_[w]
    /\ rpc = "copy" =>
          /\ s1 <= known
          /\ \E j \in Nat : /\ s1 = 2 * j
                            /\ \A w \in Words \ unread : out[w] >= j /\ 2 * out[w] - 1 <= known
          /\ seq - s1 < Wrap
          /\ wpc = "copy" => seq + 1 - s1 < Wrap

\* The inductive invariant.
Inv == TypeOK /\ WriterOK /\ ReaderOK

\* A value in a word was announced by an odd sequence number.
LEMMA Announced ==
    ASSUME Inv
    PROVE  \A w \in Words : data_[w] \in Nat /\ 2 * data_[w] - 1 <= seq
  <1>1. PICK k \in Nat :
          \/ /\ wpc = "idle" /\ seq = 2 * k
             /\ \A w \in Words : data_[w] = k
          \/ /\ wpc = "copy" /\ seq = 2 * k + 1
             /\ \A w \in Words : data_[w] = IF w \in unwritten THEN k ELSE k + 1
    BY DEF Inv, WriterOK
  <1>2. QED
    BY <1>1

\* The lock as constructed.
LEMMA InitInv == Init => Inv
  <1> SUFFICES ASSUME Init PROVE Inv
    OBVIOUS
  <1>1. TypeOK
    BY PublisherAssumption DEF Init, TypeOK
  <1>2. WriterOK
    <2>1. 0 \in Nat /\ wpc = "idle" /\ seq = 2 * 0 /\ \A w \in Words : data_[w] = 0
      BY DEF Init
    <2>2. QED
      BY <2>1 DEF WriterOK
  <1>3. ReaderOK
    BY DEF Init, ReaderOK
  <1>4. QED
    BY <1>1, <1>2, <1>3 DEF Inv

\* Every step of publish keeps the invariant.
LEMMA WriterKeepsInv ==
    ASSUME Inv, Writer
    PROVE  Inv'
  <1> USE PublisherAssumption
  <1>1. PICK k \in Nat :
          \/ /\ wpc = "idle" /\ seq = 2 * k
             /\ \A w \in Words : data_[w] = k
          \/ /\ wpc = "copy" /\ seq = 2 * k + 1
             /\ \A w \in Words : data_[w] = IF w \in unwritten THEN k ELSE k + 1
    BY DEF Inv, WriterOK
  <1>2. TypeOK /\ ReaderOK
    BY DEF Inv
  <1>3. CASE PublishBegin
    <2>1. /\ wpc = "idle" /\ seq = 2 * k /\ \A w \in Words : data_[w] = k
          /\ seq' = seq + 1 /\ wpc' = "copy" /\ unwritten' = Words /\ data_' = data_
          /\ UNCHANGED readerVars
          /\ rpc = "copy" => seq + 2 - s1 < Wrap
      BY <1>1, <1>3 DEF PublishBegin, WithinTurn
    <2>2. TypeOK'
      BY <1>2, <2>1 DEF TypeOK, readerVars
    <2>3. WriterOK'
      <3>1. seq' = 2 * k + 1 /\ \A w \in Words : data_'[w] = IF w \in unwritten' THEN k ELSE k + 1
        BY <2>1
      <3>2. QED
        BY <2>1, <3>1 DEF WriterOK
    <2>4. ReaderOK'
      <3>1. rpc = "copy" => seq' - s1 < Wrap /\ seq' + 1 - s1 < Wrap
        BY <1>2, <2>1 DEF TypeOK
      <3>2. QED
        BY <1>2, <2>1, <3>1 DEF ReaderOK, readerVars
    <2>5. QED
      BY <2>2, <2>3, <2>4 DEF Inv
  <1>4. ASSUME NEW x \in Words, PublishWord(x) PROVE Inv'
    <2>1. /\ wpc = "copy" /\ seq = 2 * k + 1 /\ x \in unwritten
          /\ \A w \in Words : data_[w] = IF w \in unwritten THEN k ELSE k + 1
          /\ seq' = seq /\ wpc' = "copy" /\ unwritten' = unwritten \ {x}
          /\ UNCHANGED readerVars
      BY <1>1, <1>4 DEF PublishWord
    <2>2. Publication = k + 1
      BY <2>1 DEF Publication
    <2>3. data_' = [data_ EXCEPT ![x] = k + 1]
      BY <1>4, <2>2 DEF PublishWord
    <2>4. TypeOK'
      BY <1>2, <2>1, <2>3 DEF TypeOK, readerVars
    <2>5. \A w \in Words : data_'[w] = IF w \in unwritten' THEN k ELSE k + 1
      BY <1>2, <2>1, <2>3 DEF TypeOK
    <2>6. WriterOK'
      BY <2>1, <2>5 DEF WriterOK
    <2>7. \A w \in Words : out[w] <= data_'[w]
      BY <1>2, <2>1, <2>3 DEF TypeOK, ReaderOK
    <2>8. ReaderOK'
      BY <1>2, <2>1, <2>7 DEF ReaderOK, readerVars
    <2>9. QED
      BY <2>4, <2>6, <2>8 DEF Inv
  <1>5. CASE PublishEnd
    <2>1. /\ wpc = "copy" /\ seq = 2 * k + 1 /\ \A w \in Words : data_[w] = k + 1
          /\ seq' = seq + 1 /\ wpc' = "idle" /\ unwritten' = unwritten /\ data_' = data_
          /\ UNCHANGED readerVars
      BY <1>1, <1>5 DEF PublishEnd
    <2>2. TypeOK'
      BY <1>2, <2>1 DEF TypeOK, readerVars
    <2>3. k + 1 \in Nat /\ seq' = 2 * (k + 1) /\ \A w \in Words : data_'[w] = k + 1
      BY <2>1
    <2>4. WriterOK'
      BY <2>1, <2>3 DEF WriterOK
    <2>5. ReaderOK'
      BY <1>2, <2>1 DEF ReaderOK, readerVars
    <2>6. QED
      BY <2>2, <2>4, <2>5 DEF Inv
  <1>6. QED
    BY <1>3, <1>4, <1>5 DEF Writer

\* Every step of read keeps the invariant.
LEMMA ReaderKeepsInv ==
    ASSUME Inv, ReadBegin \/ Reading
    PROVE  Inv'
  <1> USE PublisherAssumption
  <1>1. TypeOK /\ WriterOK /\ ReaderOK
    BY DEF Inv
  <1>2. ASSUME UNCHANGED writerVars PROVE WriterOK'
    BY <1>1, <1>2 DEF WriterOK, writerVars
  <1>3. CASE ReadBegin
    <2>1. TypeOK'
      BY <1>1, <1>3 DEF ReadBegin, TypeOK, writerVars
    <2>2. ReaderOK'
      BY <1>1, <1>3 DEF ReadBegin, ReaderOK, writerVars
    <2>3. QED
      BY <1>2, <1>3, <2>1, <2>2 DEF ReadBegin, Inv
  <1>4. ASSUME NEW p \in Loadable, ReadSeq(p) PROVE Inv'
    <2>1. p \in Nat /\ p <= seq /\ seq \in Nat
      BY <1>1 DEF Loadable, TypeOK
    <2>2. TypeOK'
      BY <1>1, <1>4, <2>1 DEF ReadSeq, TypeOK, writerVars
    <2>3. UNCHANGED <<out, writerVars>> /\ known' = p /\ WithinTurn(p)
      BY <1>4 DEF ReadSeq
    <2>4. CASE p % 2 = 1
      <3>1. rpc' = "try"
        BY <1>4, <2>4 DEF ReadSeq
      <3>2. ReaderOK'
        BY <1>1, <2>3, <3>1 DEF ReaderOK, writerVars
      <3>3. QED
        BY <1>2, <2>2, <2>3, <3>2 DEF Inv
    <2>5. CASE p % 2 # 1
      <3>1. rpc' = "copy" /\ s1' = p /\ unread' = Words
        BY <1>4, <2>5 DEF ReadSeq
      <3>2. \E j \in Nat : p = 2 * j
        <4>1. p \div 2 \in Nat /\ p = 2 * (p \div 2)
          BY <2>1, <2>5
        <4>2. QED
          BY <4>1
      <3>3. seq - p < Wrap /\ seq + 1 - p < Wrap
        BY <2>1, <2>3 DEF WithinTurn
      <3>4. ReaderOK'
        BY <1>1, <2>1, <2>3, <3>1, <3>2, <3>3 DEF ReaderOK, writerVars
      <3>5. QED
        BY <1>2, <2>2, <2>3, <3>4 DEF Inv
    <2>6. QED
      BY <2>4, <2>5
  <1>5. ASSUME NEW p \in Loadable, ReadCheck(p) PROVE Inv'
    <2>1. p \in Nat /\ p <= seq
      BY <1>1 DEF Loadable, TypeOK
    <2>2. rpc' \in {"idle", "try"} /\ known' = p /\ UNCHANGED <<tries, s1, unread, out, writerVars>>
      BY <1>5 DEF ReadCheck
    <2>3. TypeOK'
      BY <1>1, <2>1, <2>2 DEF TypeOK, writerVars
    <2>4. ReaderOK'
      BY <1>1, <2>2 DEF ReaderOK, writerVars
    <2>5. QED
      BY <1>2, <2>2, <2>3, <2>4 DEF Inv
  <1>6. ASSUME NEW x \in Words, NEW n \in Readable(x), ReadWord(x, n) PROVE Inv'
    <2>1. /\ rpc = "copy" /\ x \in unread /\ out' = [out EXCEPT ![x] = n]
          /\ known' = KnownAfter(n) /\ unread' = unread \ {x}
          /\ UNCHANGED <<rpc, tries, s1, writerVars>>
      BY <1>6 DEF ReadWord
    <2>2. PICK j \in Nat : /\ s1 = 2 * j
                           /\ \A w \in Words \ unread : out[w] >= j /\ 2 * out[w] - 1 <= known
      BY <1>1, <2>1 DEF ReaderOK
    <2>3. /\ known \in Nat /\ known <= seq /\ seq \in Nat /\ s1 <= known
          /\ out[x] \in Nat /\ data_[x] \in Nat /\ 2 * data_[x] - 1 <= seq
      BY <1>1, <2>1, Announced DEF TypeOK, ReaderOK
    <2>4. known \div 2 \in Nat /\ known \div 2 >= j
      BY <2>2, <2>3
    <2>5. n \in Nat /\ n >= j /\ n <= data_[x]
      <3> DEFINE a == out[x]
                 b == known \div 2
                 top == Max({a, b})
      <3>1. a \in Int /\ b \in Int /\ a \in Nat /\ b \in Nat /\ b >= j
        BY <2>3, <2>4
      <3>2. n \in top .. data_[x]
        BY DEF Readable
      <3> HIDE DEF a, b
      <3>3. top \in {a, b} /\ top >= a /\ top >= b
        BY <3>1, MaxOfTwo, Zenon
      <3> HIDE DEF top
      <3>4. QED
        BY <2>3, <3>1, <3>2, <3>3
    <2>6. /\ known' \in Nat /\ known' >= known /\ known' >= 2 * n - 1 /\ known' <= seq
      <3> DEFINE b == 2 * n - 1
                 top == Max({known, b})
      <3>1. b \in Int /\ b <= seq /\ known \in Int
        BY <2>3, <2>5
      <3>2. known' = top
        BY <2>1 DEF KnownAfter
      <3> HIDE DEF b
      <3>3. top \in {known, b} /\ top >= known /\ top >= b
        BY <3>1, MaxOfTwo, Zenon
      <3> HIDE DEF top
      <3>4. top \in Nat /\ top <= seq
        BY <2>3, <3>1, <3>3
      <3>5. QED
        BY <3>2, <3>3, <3>4 DEF b
    <2>7. TypeOK'
      BY <1>1, <2>1, <2>5, <2>6 DEF TypeOK, writerVars
    <2>8. \A w \in Words : out'[w] <= data_'[w]
      BY <1>1, <2>1, <2>5 DEF TypeOK, ReaderOK, writerVars
    <2>9. \A w \in Words \ unread' : out'[w] >= j /\ 2 * out'[w] - 1 <= known'
      <3> SUFFICES ASSUME NEW w \in Words \ unread'
                   PROVE  out'[w] >= j /\ 2 * out'[w] - 1 <= known'
        OBVIOUS
      <3>1. CASE w = x
        BY <1>1, <2>1, <2>5, <2>6, <3>1 DEF TypeOK
      <3>2. CASE w # x
        <4>1. w \in Words \ unread /\ out'[w] = out[w] /\ out[w] \in Nat
          BY <1>1, <2>1, <3>2 DEF TypeOK
        <4>2. QED
          BY <2>2, <2>3, <2>6, <4>1
      <3>3. QED
        BY <3>1, <3>2
    <2>10. s1' = 2 * j /\ s1' <= known' /\ seq' = seq /\ s1' = s1 /\ wpc' = wpc
      BY <2>1, <2>2, <2>3, <2>6 DEF writerVars
    <2>11. ReaderOK'
      BY <1>1, <2>1, <2>8, <2>9, <2>10 DEF ReaderOK
    <2>12. QED
      BY <1>2, <2>1, <2>7, <2>11 DEF Inv
  <1>7. CASE ReadGiveUp
    <2>1. TypeOK'
      BY <1>1, <1>7 DEF ReadGiveUp, TypeOK, writerVars
    <2>2. ReaderOK'
      BY <1>1, <1>7 DEF ReadGiveUp, ReaderOK, writerVars
    <2>3. QED
      BY <1>2, <1>7, <2>1, <2>2 DEF ReadGiveUp, Inv
  <1>8. QED
    BY <1>3, <1>4, <1>5, <1>6, <1>7 DEF Reading

\* The invariant holds in every reachable state.
THEOREM PublisherInvariant == Spec => []Inv
  <1>1. Inv /\ [Next]_vars => Inv'
    <2> SUFFICES ASSUME Inv, [Next]_vars PROVE Inv'
      OBVIOUS
    <2>1. CASE UNCHANGED vars
      <3>1. TypeOK' /\ ReaderOK'
        BY <2>1 DEF Inv, TypeOK, ReaderOK, vars, writerVars, readerVars
      <3>2. WriterOK'
        BY <2>1 DEF Inv, WriterOK, vars, writerVars
      <3>3. QED
        BY <3>1, <3>2 DEF Inv
    <2>2. CASE Next
      BY <2>2, WriterKeepsInv, ReaderKeepsInv DEF Next
    <2>3. QED
      BY <2>1, <2>2
  <1>2. QED
    BY <1>1, InitInv, PTL DEF Spec

\* Types, and the bound on the number of attempts.
THEOREM PublisherTypeCorrect == Spec => []TypeOK
  <1>1. Inv => TypeOK
    BY DEF Inv
  <1>2. QED
    BY <1>1, PublisherInvariant, PTL

\* A read that returns true has copied one completed publication, whole: the
\* double check of seq_ with its fences is enough under acquire/release
\* ordering, for any size of the view and any interleaving.
THEOREM ReadsAreConsistent == Spec => ConsistentRead
  <1>1. ASSUME Inv, [Next]_vars, rpc = "copy", rpc' = "idle"
        PROVE  \E n \in 0 .. seq \div 2 : \A w \in Words : out[w] = n
    <2>1. PICK p \in Loadable : ReadCheck(p)
      BY <1>1 DEF Next, Writer, PublishBegin, PublishEnd, PublishWord, ReadBegin, Reading,
                  ReadSeq, ReadWord, ReadGiveUp, vars, readerVars
    <2>2. unread = {} /\ p % Wrap = s1 % Wrap
      BY <1>1, <2>1 DEF ReadCheck
    <2>3. PICK j \in Nat : /\ s1 = 2 * j
                           /\ \A w \in Words \ unread : out[w] >= j /\ 2 * out[w] - 1 <= known
      BY <1>1 DEF Inv, ReaderOK
    <2>4. /\ p \in Int /\ s1 \in Int /\ known \in Nat /\ seq \in Nat
          /\ s1 <= known /\ known <= p /\ p <= seq /\ seq - s1 < Wrap
      BY <1>1 DEF Inv, TypeOK, ReaderOK, Loadable
    <2>5. Wrap \in Nat \ {0}
      BY PublisherAssumption
    <2>6. p = s1
      <3>1. ASSUME s1 < p PROVE FALSE
        <4>1. p < s1 + Wrap
          BY <2>4, <2>5
        <4>2. p % Wrap # s1 % Wrap
          BY <2>4, <2>5, <3>1, <4>1, ModDistinct, Zenon
        <4>3. QED
          BY <2>2, <4>2
      <3>2. QED
        BY <2>4, <3>1
    <2>7. \A w \in Words : out[w] = j
      <3> SUFFICES ASSUME NEW w \in Words PROVE out[w] = j
        OBVIOUS
      <3>1. out[w] \in Nat
        BY <1>1 DEF Inv, TypeOK
      <3>2. out[w] >= j /\ 2 * out[w] - 1 <= known
        BY <2>2, <2>3
      <3>3. QED
        BY <2>3, <2>4, <2>6, <3>1, <3>2
    <2>8. j \in 0 .. seq \div 2
      BY <2>3, <2>4
    <2>9. QED
      BY <2>7, <2>8
  <1>2. Inv /\ [Next]_vars =>
          [rpc = "copy" /\ rpc' = "idle" =>
              \E n \in 0 .. seq \div 2 : \A w \in Words : out[w] = n]_vars
    BY <1>1
  <1>3. QED
    BY <1>2, PublisherInvariant, PTL DEF Spec, ConsistentRead
=============================================================================
