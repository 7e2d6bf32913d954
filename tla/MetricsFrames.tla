---------------------------- MODULE MetricsFrames ----------------------------
(***************************************************************************)
(* What a frame of the aggregator says: the latency rows, the alerts and   *)
(* the datagram (Aggregator::ingest and render, metrics_alerts.hpp,        *)
(* metrics_snapshot.hpp, udp_publisher.hpp), over any sequence of events   *)
(* and renders.  How events get here is MetricsPipeline's.                 *)
(*                                                                         *)
(* Wall-clock values (uptime, operations per second), the console view,    *)
(* which shows the same values, and the wording of texts are left out.     *)
(***************************************************************************)
EXTENDS LatencyHistogram, Sequences, SequencesExt

CONSTANTS
    OpOrder,            \* the operations, in the order of OpType
    Elapsed,            \* cycles between the two time stamps of an operation
    Quotes,             \* best bid and ask of a snapshot; 0 stands for an empty side
    Settings,           \* values of ns_per_tick_ (0 is not calibrated) and alert_cfg_
    Ladders,            \* levels of bids and asks in a view of the book
    P50, P99, P999,     \* the percentiles of a row, in thousandths
    ALERT_CAP,          \* entries of MetricsSnapshot::alerts (8)
    BUF_CAP,            \* size of the buffer of a datagram (4096)
    MAX_TAPE,
    NULL,
    MaxSamples, MaxOther, MaxRenders    \* bounds on latency events, other events, frames

Ops == Range(OpOrder)

ASSUME FramesAssumption ==
    /\ Elapsed \subseteq Nat /\ Quotes \subseteq Nat \X Nat
    /\ {P50, P99, P999} \subseteq 0 .. 1000 /\ P50 <= P99 /\ P99 <= P999
    /\ BUF_CAP \in Nat \ {0} /\ {ALERT_CAP, MAX_TAPE} \subseteq Nat
    /\ Ladders \subseteq Nat \X Nat

VARIABLES
    ns_per_tick_, alert_cfg_,           \* set before the aggregator runs
    win_, cum_,                         \* per op: recent window, all time
    snaps_, best_bid_, best_ask_, trades_,
    drops_,                             \* the recorder's counter
    last_drops_alert_,
    snap, wire,                         \* the frame just rendered and its datagram, or NULL
    sent_, errors_,
    samples, before                     \* history: per op and tick count, how often seen in
                                        \* this window and in the earlier ones

configVars == <<ns_per_tick_, alert_cfg_>>
bookVars == <<snaps_, best_bid_, best_ask_, trades_>>
frameVars == <<last_drops_alert_, snap, wire, sent_, errors_>>
vars == <<configVars, bookVars, frameVars, win_, cum_, drops_, samples, before>>

-----------------------------------------------------------------------------
(* Events.                                                                 *)

\* The frame is a local variable of render.
Between ==
    /\ snap' = NULL /\ wire' = NULL
    /\ UNCHANGED <<configVars, cum_, last_drops_alert_, sent_, errors_, before>>

Others == snaps_ + trades_ + drops_
Samples == SumFunction([op \in Ops |-> win_[op].count + cum_[op].count])

\* ~ScopedLatency keeps the low W bits of the difference.
latencyOf(cycles) == cycles % (MaxTicks + 1)

ingestLatency(op, cycles) ==
    LET ticks == latencyOf(cycles) IN
    /\ Samples < MaxSamples
    /\ win_' = [win_ EXCEPT ![op] = record(@, ticks)]
    /\ samples' = [samples EXCEPT ![op][ticks] = @ + 1]
    /\ Between /\ UNCHANGED <<bookVars, drops_>>

ingestSnapshot(quote) ==
    /\ Others < MaxOther
    /\ best_bid_' = quote[1] /\ best_ask_' = quote[2] /\ snaps_' = snaps_ + 1
    /\ Between /\ UNCHANGED <<trades_, win_, drops_, samples>>

ingestTrade ==
    /\ Others < MaxOther
    /\ trades_' = trades_ + 1
    /\ Between /\ UNCHANGED <<snaps_, best_bid_, best_ask_, win_, drops_, samples>>

\* The recorder finds the ring full.
Drop ==
    /\ Others < MaxOther
    /\ drops_' = drops_ + 1
    /\ Between /\ UNCHANGED <<bookVars, win_, samples>>

-----------------------------------------------------------------------------
(* The frame.                                                              *)

toNs(ticks) == IF ns_per_tick_ > 0 THEN ticks * ns_per_tick_ ELSE ticks

\* Percentiles of the window, count and maximum of all time.
row(op, cum) ==
    [op |-> op, count |-> cum.count, p50 |-> toNs(percentile(win_[op], P50)),
     p99 |-> toNs(percentile(win_[op], P99)), p999 |-> toNs(percentile(win_[op], P999)),
     max |-> toNs(cum.max)]

\* The rules in their order, each with the alerts that it raises.
Rules(s, cfg) ==
    LET twoSided == s.have_book /\ s.best_bid > 0 /\ s.best_ask > 0
        one(code, cond) == IF cond THEN <<[code |-> code, of |-> NULL]>> ELSE <<>>
    IN  one("crossed", cfg.on_crossed /\ twoSided /\ s.best_bid >= s.best_ask)
        \o one("spread", cfg.spread_max > 0 /\ twoSided /\ s.best_ask - s.best_bid > cfg.spread_max)
        \o one("drops", cfg.on_drops /\ s.drops > last_drops_alert_)
        \o IF cfg.p99_ns = 0 \/ s.unit # "ns" THEN <<>>
           ELSE LET high == SelectSeq(s.ops, LAMBDA r : r.p99 > cfg.p99_ns)
                IN  [k \in 1 .. Len(high) |-> [code |-> "p99", of |-> high[k].op]]

\* MUTANT: a list of the size of the number of operations.
evaluateAlerts_Short(s, cfg) ==
    SubSeq(Rules(s, cfg), 1, Min({Len(Rules(s, cfg)), Len(OpOrder)}))

\* An alert that finds the list full is left out.
evaluateAlerts(s, cfg) == SubSeq(Rules(s, cfg), 1, Min({Len(Rules(s, cfg)), ALERT_CAP}))

-----------------------------------------------------------------------------
(* The datagram: tokens in a buffer of BUF_CAP, the last place for the NUL. *)

\* MUTANT: what does not fit is left out as a whole.
jappend_Whole(buf, part) == IF Len(buf) + Len(part) >= BUF_CAP THEN buf ELSE buf \o part

\* vsnprintf cuts off what does not fit, and the position stays on the NUL.
jappend(buf, part) ==
    IF Len(buf) >= BUF_CAP THEN buf
    ELSE buf \o SubSeq(part, 1, Min({Len(part), BUF_CAP - 1 - Len(buf)}))

\* One call of jappend for each element, with a comma ahead of all but the first.
listed(elems) == [k \in 1 .. Len(elems) |-> IF k = 1 THEN <<elems[k]>> ELSE <<",", elems[k]>>]

\* The arguments of the calls of jappend, in order.
Calls(s) ==
    << <<"{", <<s.trades, s.snaps, s.drops, s.unit>> >>,
       <<"book", IF s.have_book THEN <<s.best_bid, s.best_ask>> ELSE NULL>>,
       <<"ops", "[">> >> \o listed(s.ops)
    \o << <<"]", "alerts", "[">> >> \o listed(s.alerts)
    \o << <<"]", "bids", "[">> >> \o listed(s.bids)
    \o << <<"]", "asks", "[">> >> \o listed(s.asks)
    \o << <<"]", "tape", "[">> >> \o listed(s.tape)
    \o << <<"]", "}">> >>

writeJson(s) == FoldLeft(jappend, <<>>, Calls(s))

\* One datagram per frame; sendto may fail.  (A publisher whose socket or address is not
\* ok ends the driver before the aggregator runs.)
send(s, delivered) ==
    /\ wire' = IF delivered THEN writeJson(s) ELSE NULL
    /\ sent_' = IF delivered THEN sent_ + 1 ELSE sent_
    /\ errors_' = IF delivered THEN errors_ ELSE errors_ + 1

\* The whole of render: d is what the relaxed load of the drop counter returns, view
\* what was read from the BookPublisher.
render(d, view, delivered) ==
    LET cum == [op \in Ops |-> merge(cum_[op], win_[op])]
        seen == SelectSeq(OpOrder, LAMBDA op : cum[op].count # 0)
        s == [trades |-> trades_, snaps |-> snaps_, drops |-> d,
              unit |-> IF ns_per_tick_ > 0 THEN "ns" ELSE "tick",
              have_book |-> snaps_ > 0, best_bid |-> best_bid_, best_ask |-> best_ask_,
              ops |-> [k \in 1 .. Len(seen) |-> row(seen[k], cum[seen[k]])],
              bids |-> [k \in 1 .. view[1] |-> k], asks |-> [k \in 1 .. view[2] |-> k],
              tape |-> [k \in 1 .. Min({trades_, MAX_TAPE}) |-> trades_ + 1 - k]]
        full == s @@ [alerts |-> evaluateAlerts(s, alert_cfg_)]
    IN  /\ sent_ + errors_ < MaxRenders
        /\ snap' = full
        /\ last_drops_alert_' = d
        /\ cum_' = cum
        /\ win_' = [op \in Ops |-> IF cum[op].count = 0 THEN win_[op] ELSE Empty]
        /\ send(full, delivered)
        /\ before' = [op \in Ops |-> [t \in 0 .. MaxTicks |-> before[op][t] + samples[op][t]]]
        /\ samples' = [op \in Ops |-> [t \in 0 .. MaxTicks |-> 0]]
        /\ UNCHANGED <<configVars, bookVars, drops_>>

-----------------------------------------------------------------------------
Init ==
    /\ \E c \in Settings : ns_per_tick_ = c[1] /\ alert_cfg_ = c[2]
    /\ win_ = [op \in Ops |-> Empty] /\ cum_ = [op \in Ops |-> Empty]
    /\ snaps_ = 0 /\ best_bid_ = 0 /\ best_ask_ = 0 /\ trades_ = 0
    /\ drops_ = 0 /\ last_drops_alert_ = 0
    /\ snap = NULL /\ wire = NULL /\ sent_ = 0 /\ errors_ = 0
    /\ samples = [op \in Ops |-> [t \in 0 .. MaxTicks |-> 0]] /\ before = samples

Next ==
    \/ \E op \in Ops, cycles \in Elapsed : ingestLatency(op, cycles)
    \/ \E quote \in Quotes : ingestSnapshot(quote)
    \/ ingestTrade
    \/ Drop
    \/ \E d \in last_drops_alert_ .. drops_, view \in Ladders, delivered \in BOOLEAN :
           render(d, view, delivered)

Spec == Init /\ [][Next]_vars

-----------------------------------------------------------------------------
(* Properties.                                                             *)

Total(seen) == SumFunction(seen)
Seen(seen) == {t \in 0 .. MaxTicks : seen[t] > 0}

\* The least value that p thousandths of the values seen do not exceed.
Ranked(seen, p) ==
    Min({t \in Seen(seen) : 1000 * SumFunctionOnSet(seen, 0 .. t) >= p * Total(seen)})

\* Within a sub-bucket of the exact value, never above it.
Close(shown, exact) == shown <= exact /\ (shown = exact \/ (exact - shown) * SUB < exact)

Percentile(shown, seen, p) ==
    IF Total(seen) = 0 THEN shown = 0 ELSE LET r == Ranked(seen, p) IN \E t \in 0 .. r : shown = toNs(t) /\ Close(t, r)

\* Type invariant.  The sums of the buckets are the counts: no value, the largest tick
\* count included, falls outside the NB buckets.
FramesTypeOK ==
    /\ \A op \in Ops : \A h \in {win_[op], cum_[op]} :
          /\ h.bucket \in [0 .. NB - 1 -> Nat] /\ SumFunction(h.bucket) = h.count
          /\ h.sum \in Nat /\ h.max \in 0 .. MaxTicks /\ h.min \in 0 .. MaxTicks
    /\ {snaps_, trades_, sent_, errors_, best_bid_, best_ask_} \subseteq Nat
    /\ last_drops_alert_ \in 0 .. drops_

\* metrics_snapshot.hpp: "recent p50/p99/p99.9, all-time max".  A frame has a row for
\* exactly the operations ever timed, in order; its percentiles are, within 1/SUB and
\* never above, the values of that rank among the samples since the last frame, and
\* count and maximum, and the all-time sum and minimum, are those of all samples.
RowsRight ==
    [][snap' # NULL =>
        LET rows == snap'.ops
            all(op) == [t \in 0 .. MaxTicks |-> samples[op][t] + before[op][t]]
        IN  /\ [k \in 1 .. Len(rows) |-> rows[k].op] =
                   SelectSeq(OpOrder, LAMBDA op : Total(all(op)) > 0)
            /\ \A k \in 1 .. Len(rows) :
                  LET r == rows[k]
                      s == samples[r.op]
                      a == all(r.op)
                  IN  /\ Percentile(r.p50, s, P50) /\ Percentile(r.p99, s, P99)
                      /\ Percentile(r.p999, s, P999)
                      /\ r.p50 <= r.p99 /\ r.p99 <= r.p999 /\ r.p999 <= r.max
                      /\ r.count = Total(a) /\ r.max = toNs(Max(Seen(a)))
                      /\ cum_'[r.op].min = Min(Seen(a))
                      /\ cum_'[r.op].sum = SumFunction([t \in 0 .. MaxTicks |-> t * a[t]])]_vars

\* metrics_alerts.hpp.  A frame raises every alert that is due, whatever else is raised
\* with it, and no other: crossed and spread for the latest snapshot when both sides
\* are quoted, drops when the count grew since the last frame, and p99 for an operation
\* only when latencies are in nanoseconds and the sample of that rank in this window,
\* not in an earlier one, is above the threshold, and always when it is by a bucket.
AlertsRight ==
    [][snap' # NULL =>
        LET raised == Range(snap'.alerts)
            has(code) == [code |-> code, of |-> NULL] \in raised
            quoted == snaps_ > 0 /\ best_bid_ # 0 /\ best_ask_ # 0
            cfg == alert_cfg_
            slow(op) == [code |-> "p99", of |-> op] \in raised
            exact(op) == IF Total(samples[op]) = 0 THEN 0 ELSE ns_per_tick_ * Ranked(samples[op], P99)
            watched == cfg.p99_ns # 0 /\ ns_per_tick_ # 0
        IN  /\ has("crossed") <=> cfg.on_crossed /\ quoted /\ best_bid_ >= best_ask_
            /\ has("spread") <=> cfg.spread_max # 0 /\ quoted /\ best_bid_ + cfg.spread_max < best_ask_
            /\ has("drops") <=> cfg.on_drops /\ last_drops_alert_' # last_drops_alert_
            /\ \A op \in Ops :
                  /\ slow(op) => watched /\ exact(op) > cfg.p99_ns
                  /\ watched /\ exact(op) * SUB > (cfg.p99_ns + 1) * (SUB + 1) => slow(op)
            /\ Len(snap'.alerts) = Cardinality(raised)]_vars

\* The text of a frame without a limit.
Separated(elems) ==
    [k \in 1 .. Max({0, 2 * Len(elems) - 1}) |-> IF k % 2 = 1 THEN elems[(k + 1) \div 2] ELSE ","]
Text(s) ==
    <<"{", <<s.trades, s.snaps, s.drops, s.unit>>, "book",
      IF s.have_book THEN <<s.best_bid, s.best_ask>> ELSE NULL>>
    \o <<"ops", "[">> \o Separated(s.ops) \o <<"]">>
    \o <<"alerts", "[">> \o Separated(s.alerts) \o <<"]">>
    \o <<"bids", "[">> \o Separated(s.bids) \o <<"]">>
    \o <<"asks", "[">> \o Separated(s.asks) \o <<"]">>
    \o <<"tape", "[">> \o Separated(s.tape) \o <<"]">> \o <<"}">>

\* jappend: "never writes past `cap`, keeps `n` clamped".  A datagram is the frame's text,
\* or, when that is too long, a prefix of it that fills the buffer up to the NUL: nothing
\* is missing in the middle.
DatagramRight ==
    wire # NULL =>
        /\ IsPrefix(wire, Text(snap))
        /\ Len(wire) = Min({Len(Text(snap)), BUF_CAP - 1})
=============================================================================
