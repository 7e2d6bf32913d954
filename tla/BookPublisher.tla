---------------------------- MODULE BookPublisher ----------------------------
(***************************************************************************)
(* The seqlock that hands the book's depth from the matching thread to the *)
(* aggregator thread: src/metrics/include/book_view.hpp.                   *)
(*                                                                         *)
(* A BookView is copied word by word, in any order, while the other thread *)
(* runs.  What a word holds is abstracted to the number of the publication *)
(* that wrote it.  seq is the position in the modification order of seq_,  *)
(* whose value is seq % Wrap (2^32 in the build).  Loads follow the        *)
(* acquire/release rules and nothing stronger: a load may return any value *)
(* from the newest one already known to this thread up to the newest one   *)
(* written, and what it returns becomes known.                             *)
(***************************************************************************)
EXTENDS Integers, FiniteSetsExt

CONSTANTS
    Words,          \* the words of a BookView
    Wrap,           \* number of values of seq_
    Tries,          \* attempts of one read (16)
    MaxPublish      \* bound on the publications of a behaviour

ASSUME PublisherAssumption ==
    /\ IsFiniteSet(Words) /\ Words # {}
    /\ Wrap \in Nat /\ Wrap >= 4 /\ Wrap % 2 = 0
    /\ Tries \in Nat \ {0}
    /\ MaxPublish \in Nat

VARIABLES
    seq, data_,         \* data_[w]: the publication whose value the word holds
    wpc, unwritten,     \* writer: in publish or not, words still to copy
    rpc, tries,         \* reader: where it is in read, attempts begun
    s1, unread,         \* what the first load saw, words still to copy
    out,                \* the copy; also the newest value known of every word
    known               \* the newest position of seq_ known to the reader

writerVars == <<seq, data_, wpc, unwritten>>
readerVars == <<rpc, tries, s1, unread, out, known>>
vars == <<writerVars, readerVars>>

-----------------------------------------------------------------------------
(* publish: producer only.                                                 *)

Publication == seq \div 2 + 1       \* the number of the one in progress

\* Another publication would not take seq_ a whole turn past position p.  From
\* the first load of a copy to its last seq_ never makes such a turn: at a few
\* publications a second, 2^31 of them take years.
WithinTurn(p) == seq + 2 - p < Wrap

PublishBegin ==
    /\ wpc = "idle"
    /\ Publication <= MaxPublish
    /\ rpc = "copy" => WithinTurn(s1)
    /\ seq' = seq + 1
    /\ unwritten' = Words
    /\ wpc' = "copy"
    /\ UNCHANGED <<data_, readerVars>>

PublishWord(w) ==
    /\ wpc = "copy" /\ w \in unwritten
    /\ data_' = [data_ EXCEPT ![w] = Publication]
    /\ unwritten' = unwritten \ {w}
    /\ UNCHANGED <<seq, wpc, readerVars>>

PublishEnd ==
    /\ wpc = "copy" /\ unwritten = {}
    /\ seq' = seq + 1
    /\ wpc' = "idle"
    /\ UNCHANGED <<data_, unwritten, readerVars>>

-----------------------------------------------------------------------------
(* read: consumer only.                                                    *)

\* Positions an acquire load of seq_ may return.
Loadable == known .. seq

\* Publications whose value a load of word w may return: no older than the one
\* the acquired sequence number vouches for, or than what was read before.
Readable(w) == Max({out[w], known \div 2}) .. data_[w]

\* MUTANT: no fence orders the copy before the second load of seq_.
KnownAfter_NoFence(n) == known

\* The writer's fence stands between making seq_ odd and the copy, the reader's
\* between the copy and the second load: whoever sees publication n also sees
\* the odd value that announced it.
KnownAfter(n) == Max({known, 2 * n - 1})

ReadBegin ==
    /\ rpc = "idle"
    /\ rpc' = "try"
    /\ tries' = 0
    /\ UNCHANGED <<s1, unread, out, known, writerVars>>

\* MUTANT: an attempt that meets a write in progress is not counted.
ReadSeq_Uncounted(p) ==
    /\ rpc = "try" /\ tries < Tries /\ WithinTurn(p)
    /\ known' = p
    /\ IF p % 2 = 1
       THEN UNCHANGED <<rpc, tries, s1, unread>>
       ELSE tries' = tries + 1 /\ rpc' = "copy" /\ s1' = p /\ unread' = Words
    /\ UNCHANGED <<out, writerVars>>

\* MUTANT: one attempt more than the loop allows.
ReadSeq_OneMore(p) ==
    /\ rpc = "try" /\ tries <= Tries /\ WithinTurn(p)
    /\ known' = p
    /\ tries' = tries + 1
    /\ IF p % 2 = 1
       THEN UNCHANGED <<rpc, s1, unread>>
       ELSE rpc' = "copy" /\ s1' = p /\ unread' = Words
    /\ UNCHANGED <<out, writerVars>>

\* First load of seq_, at position p; an odd value means a write in progress.
ReadSeq(p) ==
    /\ rpc = "try" /\ tries < Tries /\ WithinTurn(p)
    /\ known' = p
    /\ tries' = tries + 1
    /\ IF p % 2 = 1
       THEN UNCHANGED <<rpc, s1, unread>>
       ELSE rpc' = "copy" /\ s1' = p /\ unread' = Words
    /\ UNCHANGED <<out, writerVars>>

ReadWord(w, n) ==
    /\ rpc = "copy" /\ w \in unread
    /\ out' = [out EXCEPT ![w] = n]
    /\ known' = KnownAfter(n)
    /\ unread' = unread \ {w}
    /\ UNCHANGED <<rpc, tries, s1, writerVars>>

\* Second load of seq_, at position p: return true when the value has not moved.
ReadCheck(p) ==
    /\ rpc = "copy" /\ unread = {}
    /\ known' = p
    /\ rpc' = IF p % Wrap = s1 % Wrap THEN "idle" ELSE "try"
    /\ UNCHANGED <<tries, s1, unread, out, writerVars>>

\* return false
ReadGiveUp ==
    /\ rpc = "try" /\ tries >= Tries
    /\ rpc' = "idle"
    /\ UNCHANGED <<tries, s1, unread, out, known, writerVars>>

-----------------------------------------------------------------------------
Init ==
    /\ seq = 0 /\ data_ = [w \in Words |-> 0]
    /\ wpc = "idle" /\ unwritten = {}
    /\ rpc = "idle" /\ tries = 0 /\ s1 = 0 /\ unread = {}
    /\ out = [w \in Words |-> 0] /\ known = 0

Writer == PublishBegin \/ PublishEnd \/ \E w \in Words : PublishWord(w)

\* The loop of a read that has begun.
Reading ==
    \/ \E p \in Loadable : ReadSeq(p) \/ ReadCheck(p)
    \/ \E w \in Words : \E n \in Readable(w) : ReadWord(w, n)
    \/ ReadGiveUp

Next == Writer \/ ReadBegin \/ Reading

\* The aggregator thread runs a read it has begun.  Nothing is assumed of the
\* writer: it may be descheduled in the middle of a publication.
Spec == Init /\ [][Next]_vars /\ WF_vars(Reading)

-----------------------------------------------------------------------------
(* Properties.                                                             *)

\* Type invariant of the lock and of the two threads' locals.
TypeOK ==
    /\ seq \in Nat /\ data_ \in [Words -> Nat]
    /\ wpc \in {"idle", "copy"} /\ unwritten \in SUBSET Words
    /\ rpc \in {"idle", "try", "copy"} /\ tries \in 0 .. Tries
    /\ s1 \in Nat /\ unread \in SUBSET Words
    /\ out \in [Words -> Nat] /\ known \in 0 .. seq

\* book_view.hpp: the aggregator "reads a consistent copy lock-free".  A read
\* that returns true has copied every word from one and the same publication,
\* a completed one, however its loads were delayed and wherever the writer was.
ConsistentRead ==
    [][rpc = "copy" /\ rpc' = "idle" =>
          \E n \in 0 .. seq \div 2 : \A w \in Words : out[w] = n]_vars

\* A read ends whatever the writer does, also when the writer stops for good in
\* the middle of a publication: the loop is bounded.
ReadReturns == rpc # "idle" ~> rpc = "idle"
=============================================================================
