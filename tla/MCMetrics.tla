------------------------------ MODULE MCMetrics ------------------------------
(* A small instance of Metrics for TLC: windows without buckets, with       *)
(* buckets of two rounds, and with buckets that do not divide the window.   *)
EXTENDS Metrics

MCSource == [d \in Device |-> "diskstats"]

MCRanges == {[duration |-> 2, bucket |-> 0], [duration |-> 4, bucket |-> 2],
             [duration |-> 5, bucket |-> 3]}
=============================================================================
