--------------------------- MODULE MetricsPipeline ---------------------------
(***************************************************************************)
(* The metrics pipeline: the matching thread records events through        *)
(* MetricsRecorder into the ring, the aggregator thread drains the ring,   *)
(* folds the events and renders frames, and the driver stops and joins it  *)
(* (metrics_recorder.hpp, aggregator.hpp, and the drivers:                 *)
(* itch_metrics_replay.cpp, which Ctrl-C can end early, and                *)
(* aggregator_demo.cpp, which checks the accounting at the end).           *)
(*                                                                         *)
(* The ring is SPSCRing itself, with all its interleavings.  A latency     *)
(* histogram is abstracted to the number of values recorded in it;         *)
(* MetricsFrames has the histograms and all alert rules.                   *)
(***************************************************************************)
EXTENDS SPSCRing, SequencesExt

CONSTANTS
    Ops, Books, Makers,     \* payloads of latency, snapshot and trade events
    SampleEvery,            \* sample_mask_ + 1
    Burst,                  \* kDrainBurst
    MAX_TAPE,
    MaxEvents               \* bound on the recordings of the messages of a behaviour

\* The elements of the ring: Val is this set.
Event == [etype : {"Latency"}, of : Ops] \cup [etype : {"Snapshot"}, of : Books]
            \cup [etype : {"Trade"}, of : Makers]

ASSUME PipelineAssumption ==
    /\ SampleEvery \in Nat \ {0} /\ Burst \in Nat \ {0}
    /\ MAX_TAPE \in Nat \ {0} /\ MaxEvents \in Nat
ASSUME EventAssumption == Val = Event

VARIABLES
    g_stop, mpc,                        \* Ctrl-C was pressed; where main is
    sample_count_, drops_,              \* MetricsRecorder
    running_, joined,                   \* Aggregator::running_; the driver is past join
    apc, i,                             \* aggregator: where it is in run, pops of the burst
    consumed_, snaps_, trades_, book,   \* folded so far; book is the last snapshot
    win_, cum_,                         \* per op: recent window, all time
    tape_, tape_next_, tape_n_,
    last_drops_alert_,
    frame,                              \* the last frame given to the sink
    attempts, skipped,                  \* history: recordings asked for, sampled out
    accepted,                           \* history: events the ring took, in order
    alerted                             \* history: sum over the drop alerts raised

mainVars == <<g_stop, mpc, running_, joined>>
recorderVars == <<sample_count_, drops_, attempts, skipped, accepted>>
foldVars == <<consumed_, snaps_, trades_, book, win_, tape_, tape_next_, tape_n_>>
frameVars == <<cum_, last_drops_alert_, frame, alerted>>
vars == <<ringVars, mainVars, recorderVars, foldVars, frameVars, apc, i>>

-----------------------------------------------------------------------------
(* The matching thread.                                                    *)

\* try_push from inside a record call: taken, or refused and counted.
TryPush(e) ==
    /\ \/ Push(e)
       \/ \E t \in Visible(tail_cache_, tail_) : PushReload(e, t)
    /\ IF ppc' = "idle"
       THEN drops_' = drops_ + 1 /\ UNCHANGED accepted
       ELSE accepted' = Append(accepted, e) /\ UNCHANGED drops_

\* The driver's callback for a message: an interrupt is looked for before the
\* message is paced and processed, not again after the wait.
Admit ==
    /\ mpc = "feed" /\ ppc = "idle" /\ ~g_stop
    /\ attempts < MaxEvents
    /\ mpc' = "msg"
    /\ UNCHANGED <<ringVars, recorderVars, foldVars, frameVars, g_stop, running_, joined, apc, i>>

\* A message makes at least one recording; the callback goes on or returns.
Recording ==
    /\ mpc = "msg" /\ ppc = "idle"
    /\ attempts' = attempts + 1
    /\ mpc' \in {"msg", "feed"} /\ (mpc' = "msg" => attempts' < MaxEvents)
    /\ UNCHANGED <<foldVars, frameVars, g_stop, running_, joined, apc, i>>

\* One latency in SampleEvery is recorded.
recordLatency(e) ==
    /\ Recording
    /\ e.etype = "Latency"
    /\ sample_count_' = (sample_count_ + 1) % SampleEvery
    /\ IF sample_count_ # 0
       THEN skipped' = skipped + 1 /\ UNCHANGED <<ringVars, drops_, accepted>>
       ELSE TryPush(e) /\ UNCHANGED skipped

\* recordSnapshot and recordTrade
record(e) ==
    /\ Recording
    /\ e.etype # "Latency"
    /\ TryPush(e)
    /\ UNCHANGED <<sample_count_, skipped>>

\* The rest of try_push.
PushOn ==
    /\ PushWrite \/ PushPublish
    /\ UNCHANGED <<mainVars, recorderVars, foldVars, frameVars, apc, i>>

\* Later the signal has no effect on the pipeline.
on_sigint ==
    /\ ~g_stop /\ mpc # "final"
    /\ g_stop' = TRUE
    /\ UNCHANGED <<ringVars, recorderVars, foldVars, frameVars, mpc, running_, joined, apc, i>>

\* The file has been parsed to its end, or what was left of it ignored; the
\* state of the book at the end is recorded.
EndOfFeed(b) ==
    /\ mpc = "feed" /\ ppc = "idle"
    /\ mpc' = "final"
    /\ attempts' = attempts + 1
    /\ TryPush([etype |-> "Snapshot", of |-> b])
    /\ UNCHANGED <<sample_count_, skipped, foldVars, frameVars, g_stop, running_, joined, apc, i>>

stop ==
    /\ mpc = "final" /\ ppc = "idle" /\ running_
    /\ running_' = FALSE
    /\ UNCHANGED <<ringVars, recorderVars, foldVars, frameVars, g_stop, mpc, joined, apc, i>>

join ==
    /\ ~running_ /\ apc = "done" /\ ~joined
    /\ joined' = TRUE
    /\ UNCHANGED <<ringVars, recorderVars, foldVars, frameVars, g_stop, mpc, running_, apc, i>>

-----------------------------------------------------------------------------
(* Aggregator::run.                                                        *)

AggregatorStep == UNCHANGED <<recorderVars, mainVars>>

\* The load of running_ may return true for a while after stop.
LoopAgain ==
    /\ apc = "loop"
    /\ apc' = "burst" /\ i' = 0
    /\ AggregatorStep /\ UNCHANGED <<ringVars, foldVars, frameVars>>

\* MUTANT: leave without draining.
SeeStop_NoDrain ==
    /\ apc = "loop" /\ ~running_
    /\ apc' = "final"
    /\ AggregatorStep /\ UNCHANGED <<ringVars, foldVars, frameVars, i>>

SeeStop ==
    /\ apc = "loop" /\ ~running_
    /\ apc' = "drain"
    /\ AggregatorStep /\ UNCHANGED <<ringVars, foldVars, frameVars, i>>

\* MUTANT: one pop too many in a burst.
Popping_OneMore == (apc = "burst" /\ i <= Burst) \/ apc = "drain"
Popping == (apc = "burst" /\ i < Burst) \/ apc = "drain"

\* The values a load of head_ may return.  stop() happens after the last push and
\* the acquire load of running_ that saw it orders this load after both.
HeadVisible == IF apc = "drain" THEN {head_} ELSE Visible(head_cache_, head_)

\* MUTANT: the drain goes on when the ring is empty.
TryPop_Spins ==
    /\ Popping
    /\ Pop \/ \E h \in HeadVisible : PopReload(h)
    /\ apc' = IF cpc' # "idle" \/ apc = "drain" THEN apc ELSE "tick"
    /\ AggregatorStep /\ UNCHANGED <<foldVars, frameVars, i>>

\* try_pop up to the copy; when it returns false the burst, or the drain, is over.
TryPop ==
    /\ Popping
    /\ Pop \/ \E h \in HeadVisible : PopReload(h)
    /\ apc' = IF cpc' # "idle" THEN apc ELSE IF apc = "drain" THEN "final" ELSE "tick"
    /\ AggregatorStep /\ UNCHANGED <<foldVars, frameVars, i>>

PopCopy ==
    /\ PopRead
    /\ AggregatorStep /\ UNCHANGED <<foldVars, frameVars, apc, i>>

\* MUTANT: the tape's position is not advanced modulo its size.
addToTape_Stuck(e) ==
    /\ tape_' = [tape_ EXCEPT ![tape_next_] = e.of]
    /\ tape_next_' = IF tape_n_ < MAX_TAPE THEN (tape_next_ + 1) % MAX_TAPE ELSE tape_next_
    /\ tape_n_' = IF tape_n_ < MAX_TAPE THEN tape_n_ + 1 ELSE tape_n_

addToTape(e) ==
    /\ tape_' = [tape_ EXCEPT ![tape_next_] = e.of]
    /\ tape_next_' = (tape_next_ + 1) % MAX_TAPE
    /\ tape_n_' = IF tape_n_ < MAX_TAPE THEN tape_n_ + 1 ELSE tape_n_

ingest(e) ==
    /\ consumed_' = consumed_ + 1
    /\ \/ /\ e.etype = "Latency"
          /\ win_' = [win_ EXCEPT ![e.of] = @ + 1]
          /\ UNCHANGED <<snaps_, trades_, book, tape_, tape_next_, tape_n_>>
       \/ /\ e.etype = "Snapshot"
          /\ book' = e.of /\ snaps_' = snaps_ + 1
          /\ UNCHANGED <<trades_, win_, tape_, tape_next_, tape_n_>>
       \/ /\ e.etype = "Trade"
          /\ trades_' = trades_ + 1
          /\ addToTape(e)
          /\ UNCHANGED <<snaps_, book, win_>>

\* try_pop returns true and the event is folded.
PopIngest ==
    /\ PopPublish
    /\ ingest(out)
    /\ i' = IF apc = "burst" THEN i + 1 ELSE i
    /\ AggregatorStep /\ UNCHANGED <<frameVars, apc>>

\* MUTANT: the drop count of this frame is not remembered for the next.
lastDropsAfter_Kept(d) == last_drops_alert_
lastDropsAfter(d) == d

winAfterRender == [op \in Ops |-> 0]

\* The window is rolled into the all-time counts; the drop counter is polled (d
\* is what the relaxed load returns) and what is new in it raises an alert.
render(final, d) ==
    /\ cum_' = [op \in Ops |-> cum_[op] + win_[op]]
    /\ win_' = winAfterRender
    /\ frame' = [final |-> final, events |-> consumed_, trades |-> trades_, snaps |-> snaps_,
                 drops |-> d, book |-> book, ops |-> cum_',
                 tape |-> [k \in 1 .. tape_n_ |-> tape_[(tape_next_ + MAX_TAPE - k) % MAX_TAPE]]]
    /\ alerted' = IF d > last_drops_alert_ THEN alerted + (d - last_drops_alert_) ELSE alerted
    /\ last_drops_alert_' = lastDropsAfter(d)
    /\ UNCHANGED <<consumed_, snaps_, trades_, book, tape_, tape_next_, tape_n_>>

\* The end of an iteration: render when the time has come.
BurstDone ==
    /\ apc = "burst" /\ i >= Burst /\ cpc = "idle"
    /\ apc' = "tick"
    /\ AggregatorStep /\ UNCHANGED <<ringVars, foldVars, frameVars, i>>

Tick ==
    /\ apc = "tick"
    /\ apc' = "loop"
    /\ \/ UNCHANGED <<foldVars, frameVars>>
       \/ \E d \in last_drops_alert_ .. drops_ : render(FALSE, d)
    /\ AggregatorStep /\ UNCHANGED <<ringVars, i>>

\* The load of drops_ is ordered after stop(), like that of head_.
RenderFinal ==
    /\ apc = "final"
    /\ apc' = "done"
    /\ render(TRUE, drops_)
    /\ AggregatorStep /\ UNCHANGED <<ringVars, i>>

-----------------------------------------------------------------------------
Init ==
    /\ RingInit
    /\ g_stop = FALSE /\ mpc = "feed"
    /\ sample_count_ = 0 /\ drops_ = 0
    /\ running_ = TRUE /\ joined = FALSE
    /\ apc = "loop" /\ i = 0
    /\ consumed_ = 0 /\ snaps_ = 0 /\ trades_ = 0 /\ book = Torn
    /\ win_ = [op \in Ops |-> 0] /\ cum_ = [op \in Ops |-> 0]
    /\ tape_ = [k \in 0 .. MAX_TAPE - 1 |-> Torn] /\ tape_next_ = 0 /\ tape_n_ = 0
    /\ last_drops_alert_ = 0
    /\ frame = [final |-> FALSE]
    /\ attempts = 0 /\ skipped = 0 /\ accepted = <<>> /\ alerted = 0

Main ==
    \/ Admit \/ PushOn \/ stop \/ join
    \/ \E e \in Event : recordLatency(e) \/ record(e)
    \/ \E b \in Books : EndOfFeed(b)

\* What the aggregator thread does by itself.
Aggregate == LoopAgain \/ SeeStop \/ TryPop \/ PopCopy \/ PopIngest \/ BurstDone \/ Tick \/ RenderFinal

\* The process has ended.
Terminated == joined /\ UNCHANGED vars

Next == Main \/ on_sigint \/ Aggregate \/ Terminated

\* Both threads are scheduled.  When the next message comes, and whether Ctrl-C is
\* pressed, is open; after it the wait for a message's time ends at once and the
\* rest of the file is run through.  A store to running_ becomes visible in finite
\* time: a loop that looks again and again does not miss it for ever.
Fairness ==
    /\ WF_vars((g_stop \/ ~running_) /\ Main)
    /\ WF_vars(Aggregate) /\ SF_vars(SeeStop)

Spec == Init /\ [][Next]_vars /\ Fairness

-----------------------------------------------------------------------------
(* Properties.                                                             *)

\* Where the events of a type are in the history, and how many of them are not older
\* than the one at p.
AcceptedOf(e) == {k \in 1 .. Len(accepted) : accepted[k].etype = e}
Age(prints, p) == Cardinality({q \in prints : q >= p})

\* Type invariant of the recorder and the aggregator (the ring has its own).
TypeOK ==
    /\ sample_count_ \in 0 .. SampleEvery - 1 /\ drops_ \in Nat
    /\ g_stop \in BOOLEAN /\ mpc \in {"feed", "msg", "final"}
    /\ running_ \in BOOLEAN /\ joined \in BOOLEAN
    /\ apc \in {"loop", "burst", "tick", "drain", "final", "done"} /\ i \in 0 .. Burst
    /\ consumed_ \in Nat /\ snaps_ \in Nat /\ trades_ \in Nat /\ book \in Books \cup {Torn}
    /\ win_ \in [Ops -> Nat] /\ cum_ \in [Ops -> Nat]
    /\ tape_ \in [0 .. MAX_TAPE - 1 -> Makers \cup {Torn}]
    /\ tape_next_ \in 0 .. MAX_TAPE - 1 /\ tape_n_ \in 0 .. MAX_TAPE
    /\ last_drops_alert_ \in 0 .. drops_ /\ alerted \in Nat

\* aggregator_demo.cpp: "ACCOUNTING OK (nothing lost)".  When the driver has
\* joined the aggregator every recording was consumed, dropped at a full ring
\* or sampled out.
NothingLost == joined => consumed_ + drops_ + skipped = attempts

\* aggregator.hpp: on exit run "drains whatever remains and paints a final frame
\* so no tail events are lost".  The final frame is the summary of exactly the
\* events the ring accepted: the counts, the all-time count per op, the last
\* snapshot, the last MAX_TAPE trades newest first, and every drop.
FinalFrameComplete ==
    apc = "done" =>
        LET prints == AcceptedOf("Trade")
            shots == AcceptedOf("Snapshot")
        IN  /\ frame.final
            /\ frame.events = Len(accepted) /\ frame.drops = drops_
            /\ frame.trades = Cardinality(prints) /\ frame.snaps = Cardinality(shots)
            /\ \A k \in shots : (\A j \in shots : j <= k) => frame.book = accepted[k].of
            /\ \A op \in Ops : frame.ops[op] = Cardinality({k \in AcceptedOf("Latency") : accepted[k].of = op})
            /\ DOMAIN frame.tape = 1 .. Min({MAX_TAPE, Cardinality(prints)})
            /\ \A p \in prints : Age(prints, p) <= MAX_TAPE => frame.tape[Age(prints, p)] = accepted[p].of

\* metrics_alerts.hpp: the drops rule "fires on the *delta*".  However stale the
\* polled counter is, the alerts raised so far add up to the count of the last
\* frame, and in the end to all drops: each is reported once.
DropsAlertedOnce ==
    /\ alerted = last_drops_alert_
    /\ apc = "done" => alerted = drops_

\* itch_metrics_replay.cpp: "Ctrl-C: ignore the rest".  After Ctrl-C, and after
\* stop() in any case, the message in progress is finished, the aggregator drains,
\* renders its last frame and is joined.
ShutdownCompletes == (g_stop \/ ~running_) ~> joined
=============================================================================
