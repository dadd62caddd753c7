------------------------------- MODULE Metrics -------------------------------
(* The sampler of src/src/metrics.rs and the history it keeps: traffic      *)
(* counters of interfaces and disks that come, go and start again, read by  *)
(* a worker that may be slow or fail, turned into rates over monotonic      *)
(* time, filed under a wall clock that may be set, trimmed to a retention   *)
(* and read back in windows.  A rate is kept as the bytes and the time it   *)
(* was computed from.  Load, memory, SMART and kernel errors are gauges     *)
(* that each round replaces, and are left out.                              *)
EXTENDS Integers, Sequences, FiniteSets

CONSTANTS Device,     \* interfaces and disks
          Source,     \* the file of /proc the counters of each are read from
          Retention,  \* RETENTION_MS, in rounds of the sampler
          Ranges,     \* history_window: durations and buckets, 0 for none
          Offsets,    \* how far back a query reaches
          Horizon,    \* bound: time
          Jump,       \* bound: how far the wall clock is set, either way
          Sets,       \* bound: times it is set
          Null

ASSUME MetricsAssumption ==
  /\ DOMAIN Source = Device
  /\ {Retention, Horizon, Jump, Sets} \subseteq Nat /\ Offsets \subseteq Nat
  /\ \A r \in Ranges : r.duration \in Nat /\ r.bucket \in Nat

VARIABLES
  mono,       \* Instant::now
  wall,       \* now_ms
  counter,    \* the kernel's counter of each device that is there
  previous,   \* the counters of the last round
  previousAt, \* its time
  ticked,     \* the last tick of the sampler's interval
  collected,  \* what the worker has read in this round
  series,     \* samples of each device, oldest first
  moved,      \* history: bytes each device has moved since the start
  charted,    \* history: bytes and time of all samples of each device
  gap,        \* history: bytes and time no sample covers, as of the round that
              \* read the device again after a reading that failed
  steady,     \* history: devices that were always there
  back,       \* history: how far the clock was set back, in all
  ahead,      \* history: how far it was set ahead, in all
  sets        \* history: how often

kernelVars == <<counter, moved, steady>>
samplerVars == <<previous, previousAt, ticked, collected, series, charted, gap>>
clockVars == <<wall, back, ahead, sets>>
vars == <<mono, kernelVars, samplerVars, clockVars>>

Files == {Source[d] : d \in Device}

(* network_stats and disk_io_stats read what is there now; a file that      *)
(* cannot be read counts as empty (`unwrap_or_default`).                    *)
Counters(unread) == [d \in {e \in DOMAIN counter : Source[e] \notin unread} |-> counter[d]]

Init ==
  /\ mono = 0 /\ ticked = 0 /\ previousAt = 0
  /\ wall = Jump * Sets
  /\ \E there \in SUBSET Device :
       /\ counter = [d \in there |-> 1]
       /\ steady = there
  /\ \E unread \in SUBSET Files : previous = Counters(unread)
  /\ collected = Null
  /\ series = [d \in Device |-> <<>>]
  /\ moved = [d \in Device |-> 0]
  /\ charted = [d \in Device |-> [bytes |-> 0, time |-> 0]]
  /\ gap = charted
  /\ back = 0 /\ ahead = 0 /\ sets = 0

-----------------------------------------------------------------------------
(* The machine.                                                             *)
Traffic(busy) ==
  /\ counter' = [d \in DOMAIN counter |-> counter[d] + (IF d \in busy THEN 1 ELSE 0)]
  /\ moved' = [d \in Device |-> moved[d] + (IF d \in busy THEN 1 ELSE 0)]

Pass(busy) ==
  /\ mono < Horizon
  /\ mono' = mono + 1
  /\ wall' = wall + 1
  /\ Traffic(busy)
  /\ UNCHANGED <<steady, samplerVars, back, ahead, sets>>

SetClock(by) ==
  /\ sets < Sets
  /\ sets' = sets + 1
  /\ wall' = wall + by
  /\ back' = back + (IF by < 0 THEN -by ELSE 0)
  /\ ahead' = ahead + (IF by > 0 THEN by ELSE 0)
  /\ UNCHANGED <<mono, kernelVars, samplerVars>>

(* A device that comes back counts from zero.                               *)
Unplug(d) ==
  /\ d \in DOMAIN counter
  /\ counter' = [e \in DOMAIN counter \ {d} |-> counter[e]]
  /\ steady' = steady \ {d}
  /\ UNCHANGED <<mono, moved, samplerVars, clockVars>>

Plug(d) ==
  /\ d \notin DOMAIN counter
  /\ counter' = [e \in DOMAIN counter \cup {d} |-> IF e = d THEN 0 ELSE counter[e]]
  /\ UNCHANGED <<mono, moved, steady, samplerVars, clockVars>>

-----------------------------------------------------------------------------
(* The sampler.  A tick that was missed is skipped.                         *)
Collect ==
  /\ collected = Null /\ mono > ticked
  /\ ticked' = mono
  /\ \E unread \in SUBSET Files : collected' = Counters(unread)
  /\ UNCHANGED <<mono, kernelVars, clockVars, previous, previousAt, series, charted, gap>>

(* Mutation: the round that failed still counts as the last one.            *)
RoundCounted == previousAt' = mono /\ UNCHANGED previous

RoundSkipped == UNCHANGED <<previous, previousAt>>

CollectFails ==
  /\ collected # Null
  /\ collected' = Null
  /\ RoundSkipped
  /\ UNCHANGED <<mono, kernelVars, clockVars, ticked, series, charted, gap>>

(* saturating_sub.                                                          *)
Growth(d) ==
  IF collected[d] > previous[d] THEN collected[d] - previous[d] ELSE 0

Sample(d) ==
  [ts |-> wall, bytes |-> Growth(d), over |-> mono - previousAt, taken |-> mono]

(* Mutation: at most one old sample is dropped.                             *)
OneTrimmed(s) == IF s[1].ts < wall - Retention THEN Tail(s) ELSE s

Trimmed(s) ==
  LET kept == {i \in DOMAIN s : \A j \in 1..i : j < i => s[j].ts < wall - Retention} IN
    SubSeq(s, CHOOSE i \in kept : s[i].ts >= wall - Retention, Len(s))

(* record_rates and record: of the devices read now and in the last round.  *)
(* Two rounds never end at the same instant.                                *)
Recorded == DOMAIN collected \cap DOMAIN previous

ReadAgain == DOMAIN collected \ DOMAIN previous

(* What of a device's traffic, up to its reading, is in no sample.          *)
Uncharted(d) ==
  [bytes |-> moved[d] - (IF d \in DOMAIN counter THEN counter[d] - collected[d] ELSE 0)
               - charted[d].bytes,
   time |-> mono - charted[d].time]

Record ==
  /\ collected # Null /\ mono > previousAt
  /\ series' = [d \in Device |->
       IF d \in Recorded THEN Trimmed(Append(series[d], Sample(d))) ELSE series[d]]
  /\ charted' = [d \in Device |->
       IF d \in Recorded
       THEN [bytes |-> charted[d].bytes + Growth(d), time |-> charted[d].time + mono - previousAt]
       ELSE charted[d]]
  /\ gap' = [d \in Device |-> IF d \in ReadAgain THEN Uncharted(d) ELSE gap[d]]
  /\ previous' = collected
  /\ previousAt' = mono
  /\ collected' = Null
  /\ UNCHANGED <<mono, kernelVars, clockVars, ticked>>

-----------------------------------------------------------------------------
(* window_samples: the samples between two times, or the sum and the number *)
(* of those of each bucket.                                                 *)
Selected(s, since, until) ==
  LET taken[n \in 0..Len(s)] ==
        IF n = 0 THEN <<>>
        ELSE IF since <= s[n].ts /\ s[n].ts <= until THEN Append(taken[n - 1], s[n])
        ELSE taken[n - 1]
  IN taken[Len(s)]

Bucket(x, width) == (x.ts \div width) * width

(* Mutation: a sample replaces what its bucket holds.                       *)
Replacing(buckets, ts, x) ==
  [t \in DOMAIN buckets \cup {ts} |-> IF t = ts THEN [bytes |-> x.bytes, count |-> 1] ELSE buckets[t]]

Entered(buckets, ts, x) ==
  [t \in DOMAIN buckets \cup {ts} |->
     IF t # ts THEN buckets[t]
     ELSE IF t \in DOMAIN buckets
          THEN [bytes |-> buckets[t].bytes + x.bytes, count |-> buckets[t].count + 1]
          ELSE [bytes |-> x.bytes, count |-> 1]]

Bucketed(s, width) ==
  LET entered[n \in 0..Len(s)] ==
        IF n = 0 THEN [t \in {} |-> 0]
        ELSE Entered(entered[n - 1], Bucket(s[n], width), s[n])
  IN entered[Len(s)]

(* history: a negative offset counts as none.                               *)
Until(offset) == wall - offset
Since(range, offset) == Until(offset) - range.duration

-----------------------------------------------------------------------------
Machine ==
  \/ (\E busy \in SUBSET DOMAIN counter : Pass(busy))
  \/ (\E by \in {-Jump, Jump} : SetClock(by))
  \/ (\E d \in Device : Unplug(d) \/ Plug(d))

Sampler == Collect \/ CollectFails \/ Record

Next == Machine \/ Sampler

Spec == Init /\ [][Next]_vars

-----------------------------------------------------------------------------
(* The area under the chart is the traffic: no chart shows traffic that     *)
(* never was, however often a counter starts again, and the samples of a    *)
(* device that was always there account for every byte up to the last round *)
(* and for all of the time, whatever rounds failed or were late, but for    *)
(* the gaps that readings which failed have left: what is lost when one     *)
(* fails ends with the next round that reads the device, and nothing is     *)
(* lost later.                                                              *)
ChartAccounts ==
  \A d \in Device :
    /\ charted[d].bytes <= moved[d]
    /\ d \in steady \cap DOMAIN previous =>
         /\ charted[d].time + gap[d].time = previousAt
         /\ charted[d].bytes + gap[d].bytes + (counter[d] - previous[d]) = moved[d]

(* A round leaves no sample of the device older than the retention and the  *)
(* time the clock was set back, and drops none that is younger than the     *)
(* retention less the time it was set ahead.                                *)
KeptForRetention ==
  [][\A d \in Device : series'[d] # series[d] =>
       /\ \A i \in DOMAIN series'[d] : mono - series'[d][i].taken <= Retention + back
       /\ \A i \in DOMAIN series[d] :
            mono - series[d][i].taken <= Retention - ahead
              => \E j \in DOMAIN series'[d] : series'[d][j] = series[d][i]]_vars

(* The bytes of the samples at some positions.                              *)
Total(s, S) ==
  LET sum[n \in 0..Len(s)] ==
        IF n = 0 THEN 0 ELSE sum[n - 1] + (IF n \in S THEN s[n].bytes ELSE 0)
  IN sum[Len(s)]

(* A window in buckets shows each of its samples once, in the bucket of its *)
(* time, and the samples of the window in the order of their times as long  *)
(* as the clock was not set back.                                           *)
WindowFaithful ==
  \A d \in Device, range \in Ranges, offset \in Offsets :
    LET shown == Selected(series[d], Since(range, offset), Until(offset))
        Of(t) == {i \in DOMAIN shown : t <= shown[i].ts /\ shown[i].ts < t + range.bucket} IN
      /\ back = 0 => \A i, j \in DOMAIN shown : i < j => shown[i].ts <= shown[j].ts
      /\ range.bucket > 0 =>
           LET buckets == Bucketed(shown, range.bucket) IN
             /\ \A i \in DOMAIN shown : \E t \in DOMAIN buckets : i \in Of(t)
             /\ \A t \in DOMAIN buckets :
                  /\ buckets[t].count = Cardinality(Of(t))
                  /\ buckets[t].bytes = Total(shown, Of(t))
=============================================================================
