-------------------------- MODULE MCMetricsFrames ---------------------------
(* Small instances of MetricsFrames for TLC. *)
EXTENDS MetricsFrames

mc_OpOrder == <<"add", "match">>

\* Crossed, wide and one-sided.
mc_Quotes == {<<4, 4>>, <<2, 4>>, <<0, 4>>}

\* Calibrated with every rule on, the latency threshold inside the range of the
\* samples; not calibrated with two rules off.
mc_Settings ==
    {<<2, [p99_ns |-> 9, spread_max |-> 1, on_drops |-> TRUE, on_crossed |-> TRUE]>>,
     <<0, [p99_ns |-> 9, spread_max |-> 0, on_drops |-> TRUE, on_crossed |-> FALSE]>>}

mc_Ladders == {<<1, 2>>}
=============================================================================
