---------------------------- MODULE MetricsProofs ----------------------------
(* Theorems about the sampler, for any devices, retention, time and         *)
(* settings of the clock: the charts account for the traffic, samples are   *)
(* kept for the retention, a series is in the order of its times as long as *)
(* the clock is not set back, and a window shows each of its samples once.  *)
EXTENDS Metrics, TLAPS, FiniteSetTheorems, WellFoundedInduction

-----------------------------------------------------------------------------
(* Readings of counters.                                                    *)
Reading(c) == DOMAIN c \subseteq Device /\ c \in [DOMAIN c -> Nat]

Charts == [Device -> [bytes : Nat, time : Nat]]
Gaps == [Device -> [bytes : Int, time : Int]]

MetricsType ==
  /\ mono \in Nat /\ ticked \in Nat /\ previousAt \in 0..mono
  /\ wall \in Int /\ back \in Nat /\ ahead \in Nat /\ sets \in Nat
  /\ Reading(counter) /\ Reading(previous)
  /\ collected # Null => Reading(collected)
  /\ moved \in [Device -> Nat]
  /\ charted \in Charts /\ gap \in Gaps
  /\ steady \subseteq Device

(* What a device has moved from one reading to another, as the sampler sees *)
(* it.                                                                      *)
Grown(from, to, d) ==
  IF d \in DOMAIN from \cap DOMAIN to /\ to[d] > from[d] THEN to[d] - from[d] ELSE 0

LEMMA GrownNat ==
  ASSUME NEW c, NEW e, NEW d, Reading(c), Reading(e)
  PROVE  Grown(c, e, d) \in Nat
BY DEF Reading, Grown

(* What is read of the counters.                                            *)
LEMMA CountersAre ==
  ASSUME Reading(counter), NEW unread
  PROVE  /\ Reading(Counters(unread)) /\ DOMAIN Counters(unread) \subseteq DOMAIN counter
         /\ \A d \in DOMAIN Counters(unread) : Counters(unread)[d] = counter[d]
BY DEF Counters, Reading

LEMMA MetricsInit == Init => MetricsType
<1> SUFFICES ASSUME Init PROVE MetricsType
  OBVIOUS
<1>1. Reading(counter) /\ steady \subseteq Device
  BY DEF Init, Reading
<1>2. Reading(previous)
  BY <1>1, CountersAre DEF Init
<1>3. charted \in Charts /\ gap \in Gaps
  BY DEF Init, Charts, Gaps
<1> QED
  BY <1>1, <1>2, <1>3, MetricsAssumption DEF Init, MetricsType

LEMMA MetricsTypeStep ==
  ASSUME MetricsType, [Next]_vars
  PROVE  MetricsType'
<1> USE MetricsAssumption DEF MetricsType, Reading, Charts, Gaps, kernelVars, samplerVars, clockVars
<1>1. ASSUME NEW busy \in SUBSET DOMAIN counter, Pass(busy) PROVE MetricsType'
  <2>1. Reading(counter)' /\ moved' \in [Device -> Nat]
    BY <1>1 DEF Pass, Traffic
  <2> QED
    BY <1>1, <2>1 DEF Pass
<1>2. ASSUME NEW by \in {-Jump, Jump}, SetClock(by) PROVE MetricsType'
  BY <1>2 DEF SetClock
<1>3. ASSUME NEW d \in Device, Unplug(d) PROVE MetricsType'
  BY <1>3 DEF Unplug
<1>4. ASSUME NEW d \in Device, Plug(d) PROVE MetricsType'
  BY <1>4 DEF Plug
<1>5. CASE Collect
  <2>1. Reading(collected')
    BY <1>5, CountersAre DEF Collect
  <2> QED
    BY <1>5, <2>1 DEF Collect
<1>6. CASE CollectFails
  BY <1>6 DEF CollectFails, RoundSkipped
<1>7. CASE Record
  <2>1. \A d \in Recorded : Growth(d) \in Nat
    BY <1>7 DEF Record, Recorded, Growth
  <2>2. charted' \in Charts
    BY <1>7, <2>1 DEF Record
  <2>3. \A d \in Device : d \in ReadAgain => Uncharted(d) \in [bytes : Int, time : Int]
    BY <1>7 DEF Record, ReadAgain, Uncharted
  <2>4. gap' \in Gaps
    BY <1>7, <2>3 DEF Record
  <2> QED
    BY <1>7, <2>2, <2>4 DEF Record
<1>8. CASE UNCHANGED vars
  BY <1>8 DEF vars
<1> QED
  BY <1>1, <1>2, <1>3, <1>4, <1>5, <1>6, <1>7, <1>8 DEF Next, Machine, Sampler

-----------------------------------------------------------------------------
(* What is charted of a device, with what the next samples will add, never  *)
(* exceeds what it has moved.                                               *)
WithinTraffic(d) ==
  /\ charted[d].bytes <= moved[d]
  /\ charted[d].bytes + Grown(previous, counter, d) <= moved[d]
  /\ collected # Null =>
       charted[d].bytes + Grown(previous, collected, d) + Grown(collected, counter, d) <= moved[d]

(* For a device that never left it is, with the gaps, all of it, up to the  *)
(* last round that read it.                                                 *)
AllOfTraffic(d) ==
  /\ d \in DOMAIN counter
  /\ collected # Null /\ d \in DOMAIN collected => collected[d] <= counter[d]
  /\ d \in DOMAIN previous =>
       /\ previous[d] <= counter[d]
       /\ collected # Null /\ d \in DOMAIN collected => previous[d] <= collected[d]
       /\ charted[d].time + gap[d].time = previousAt
       /\ charted[d].bytes + gap[d].bytes + (counter[d] - previous[d]) = moved[d]

ChartInv ==
  /\ MetricsType
  /\ \A d \in Device : WithinTraffic(d) /\ (d \in steady => AllOfTraffic(d))

LEMMA ChartInit == Init => ChartInv
<1> SUFFICES ASSUME Init PROVE \A d \in Device : WithinTraffic(d) /\ (d \in steady => AllOfTraffic(d))
  BY MetricsInit DEF ChartInv
<1>1. Reading(counter) /\ \A d \in DOMAIN counter : counter[d] = 1
  BY DEF Init, Reading
<1>2. DOMAIN previous \subseteq DOMAIN counter /\ \A d \in DOMAIN previous : previous[d] = 1
  BY <1>1, CountersAre DEF Init
<1>3. /\ collected = Null /\ previousAt = 0 /\ steady = DOMAIN counter
      /\ \A d \in Device : /\ charted[d] = [bytes |-> 0, time |-> 0] /\ gap[d] = charted[d]
                            /\ moved[d] = 0
  BY DEF Init
<1>4. \A d \in Device : WithinTraffic(d)
  BY <1>1, <1>2, <1>3 DEF WithinTraffic, Grown
<1>5. \A d \in Device : d \in steady => AllOfTraffic(d)
  BY <1>1, <1>2, <1>3 DEF AllOfTraffic
<1> QED
  BY <1>4, <1>5

(* Counters that grow with the traffic.                                     *)
LEMMA PassCharts ==
  ASSUME ChartInv, NEW busy \in SUBSET DOMAIN counter, Pass(busy), NEW d \in Device
  PROVE  WithinTraffic(d)' /\ (d \in steady' => AllOfTraffic(d)')
<1>1. /\ UNCHANGED <<previous, collected, charted, gap, previousAt, steady>>
      /\ DOMAIN counter' = DOMAIN counter
      /\ \A e \in DOMAIN counter : counter'[e] = counter[e] + (IF e \in busy THEN 1 ELSE 0)
      /\ moved'[d] = moved[d] + (IF d \in busy THEN 1 ELSE 0)
  BY DEF Pass, Traffic, samplerVars
<1>2. /\ moved[d] \in Nat /\ charted[d].bytes \in Nat /\ gap[d].bytes \in Int
      /\ Reading(counter) /\ Reading(previous) /\ (collected # Null => Reading(collected))
  BY DEF ChartInv, MetricsType, Charts, Gaps
<1>3. ASSUME NEW c, Reading(c)
      PROVE  Grown(c, counter', d) <= Grown(c, counter, d) + (IF d \in busy THEN 1 ELSE 0)
  BY <1>1, <1>2, <1>3 DEF Grown, Reading
<1>4. ASSUME NEW c, Reading(c) PROVE Grown(c, counter, d) \in Nat /\ Grown(c, counter', d) \in Nat
  BY <1>1, <1>2, <1>4 DEF Grown, Reading
<1>5. collected # Null => Grown(previous, collected, d) \in Nat
  BY <1>2, GrownNat
<1>6. WithinTraffic(d)
  BY DEF ChartInv
<1>7. WithinTraffic(d)'
  <2>1. charted'[d].bytes <= moved'[d]
    BY <1>1, <1>2, <1>6 DEF WithinTraffic
  <2>2. charted'[d].bytes + Grown(previous', counter', d) <= moved'[d]
    BY <1>1, <1>2, <1>3, <1>4, <1>6 DEF WithinTraffic
  <2>3. ASSUME collected' # Null
        PROVE  charted'[d].bytes + Grown(previous', collected', d) + Grown(collected', counter', d)
                 <= moved'[d]
    BY <1>1, <1>2, <1>3, <1>4, <1>5, <1>6, <2>3 DEF WithinTraffic
  <2> QED
    BY <2>1, <2>2, <2>3 DEF WithinTraffic
<1>8. ASSUME d \in steady PROVE AllOfTraffic(d)'
  BY <1>1, <1>2, <1>8 DEF ChartInv, AllOfTraffic, Reading
<1> QED
  BY <1>1, <1>7, <1>8

(* A device that leaves, or comes and counts from zero, has grown by        *)
(* nothing.                                                                 *)
LEMMA PlugCharts ==
  ASSUME ChartInv, NEW e \in Device, Unplug(e) \/ Plug(e), NEW d \in Device
  PROVE  WithinTraffic(d)' /\ (d \in steady' => AllOfTraffic(d)')
<1>1. UNCHANGED <<previous, collected, charted, gap, previousAt, moved>> /\ steady' \subseteq steady
  BY DEF Unplug, Plug, samplerVars
<1>2. /\ moved[d] \in Nat /\ charted[d].bytes \in Nat
      /\ Reading(counter) /\ Reading(previous) /\ (collected # Null => Reading(collected))
  BY DEF ChartInv, MetricsType, Charts
<1>3. WithinTraffic(d) /\ (d \in steady => AllOfTraffic(d))
  BY DEF ChartInv
<1>4. CASE d # e
  <2>1. /\ d \in DOMAIN counter' <=> d \in DOMAIN counter
        /\ d \in DOMAIN counter => counter'[d] = counter[d]
    BY <1>4 DEF Unplug, Plug
  <2>2. \A c : Grown(c, counter', d) = Grown(c, counter, d)
    BY <2>1 DEF Grown
  <2> QED
    BY <1>1, <1>3, <2>1, <2>2 DEF WithinTraffic, AllOfTraffic
<1>5. CASE d = e
  <2>1. d \notin steady'
    BY <1>3, <1>5 DEF Unplug, Plug, AllOfTraffic
  <2>2. d \in DOMAIN counter' => counter'[d] = 0
    BY <1>5 DEF Unplug, Plug
  <2>3. ASSUME NEW c, Reading(c) PROVE Grown(c, counter', d) = 0
    BY <2>2, <2>3 DEF Grown, Reading
  <2>4. collected # Null =>
          Grown(previous, collected, d) \in Nat /\ Grown(collected, counter, d) \in Nat
    BY <1>2, GrownNat
  <2>5. collected # Null => charted[d].bytes + Grown(previous, collected, d) <= moved[d]
    BY <1>2, <1>3, <2>4 DEF WithinTraffic
  <2>6. collected # Null => Grown(collected, counter', d) = 0
    BY <1>2, <2>3
  <2>7. Grown(previous, counter', d) = 0
    BY <1>2, <2>3
  <2> QED
    BY <1>1, <1>2, <1>3, <2>1, <2>4, <2>5, <2>6, <2>7 DEF WithinTraffic
<1> QED
  BY <1>4, <1>5

LEMMA CollectCharts ==
  ASSUME ChartInv, Collect, NEW d \in Device
  PROVE  WithinTraffic(d)' /\ (d \in steady' => AllOfTraffic(d)')
<1>1. UNCHANGED <<counter, moved, steady, previous, previousAt, charted, gap>>
  BY DEF Collect, kernelVars
<1>2. /\ DOMAIN collected' \subseteq DOMAIN counter
      /\ \A e \in DOMAIN collected' : collected'[e] = counter[e] /\ counter[e] \in Nat
  BY CountersAre DEF Collect, ChartInv, MetricsType, Reading
<1>3. /\ Grown(collected', counter, d) = 0
      /\ Grown(previous, collected', d) <= Grown(previous, counter, d)
      /\ Grown(previous, collected', d) \in Nat
  <2>1. Reading(previous) /\ Reading(counter)
    BY DEF ChartInv, MetricsType
  <2>2. CASE d \in DOMAIN collected'
    BY <1>2, <2>1, <2>2 DEF Grown, Reading
  <2>3. CASE d \notin DOMAIN collected'
    BY <1>2, <2>1, <2>3, GrownNat DEF Grown
  <2> QED
    BY <2>2, <2>3
<1>4. /\ moved[d] \in Nat /\ charted[d].bytes \in Nat /\ Grown(previous, counter, d) \in Nat
      /\ WithinTraffic(d) /\ (d \in steady => AllOfTraffic(d))
  BY GrownNat DEF ChartInv, MetricsType, Charts
<1>5. WithinTraffic(d)'
  BY <1>1, <1>4, <1>3 DEF WithinTraffic
<1>6. d \in steady' => AllOfTraffic(d)'
  BY <1>1, <1>2, <1>4 DEF AllOfTraffic, ChartInv, MetricsType, Reading
<1> QED
  BY <1>5, <1>6

(* A round files what grew between its reading and the one before.          *)
LEMMA RecordCharts ==
  ASSUME ChartInv, Record, NEW d \in Device
  PROVE  WithinTraffic(d)' /\ (d \in steady' => AllOfTraffic(d)')
<1>1. /\ collected # Null /\ collected' = Null
      /\ UNCHANGED <<mono, counter, moved, steady>>
      /\ previous' = collected /\ previousAt' = mono
  BY DEF Record, kernelVars
<1>2. /\ moved[d] \in Nat /\ charted[d].bytes \in Nat /\ charted[d].time \in Nat
      /\ mono \in Nat /\ previousAt \in Nat
      /\ Reading(counter) /\ Reading(previous) /\ Reading(collected)
      /\ WithinTraffic(d) /\ (d \in steady => AllOfTraffic(d))
  BY <1>1 DEF ChartInv, MetricsType, Charts
<1>3. Grown(previous, collected, d) \in Nat /\ Grown(collected, counter, d) \in Nat
  BY <1>2, GrownNat
<1>4. Grown(previous, collected, d) = IF d \in Recorded THEN Growth(d) ELSE 0
  BY DEF Grown, Recorded, Growth
<1>5. /\ charted'[d].bytes = charted[d].bytes + Grown(previous, collected, d)
      /\ d \in Recorded => charted'[d].time = charted[d].time + mono - previousAt
  <2>1. charted'[d] = IF d \in Recorded
                      THEN [bytes |-> charted[d].bytes + Growth(d),
                            time |-> charted[d].time + mono - previousAt]
                      ELSE charted[d]
    BY DEF Record
  <2> QED
    BY <1>2, <1>4, <2>1
<1>6. WithinTraffic(d)'
  BY <1>1, <1>2, <1>3, <1>5 DEF WithinTraffic
<1>7. ASSUME d \in steady, d \in DOMAIN collected PROVE AllOfTraffic(d)'
  <2>1. /\ d \in DOMAIN counter /\ collected[d] \in Nat /\ counter[d] \in Nat
        /\ collected[d] <= counter[d]
    BY <1>1, <1>2, <1>7 DEF AllOfTraffic, Reading
  <2>2. CASE d \in DOMAIN previous
    <3>1. /\ d \in Recorded /\ previous[d] \in Nat /\ previous[d] <= collected[d]
          /\ charted[d].time + gap[d].time = previousAt
          /\ charted[d].bytes + gap[d].bytes + (counter[d] - previous[d]) = moved[d]
      BY <1>1, <1>2, <1>7, <2>2 DEF AllOfTraffic, Recorded, Reading
    <3>2. Grown(previous, collected, d) = collected[d] - previous[d]
      BY <2>1, <3>1 DEF Grown, Recorded
    <3>3. charted'[d].bytes = charted[d].bytes + (collected[d] - previous[d])
      BY <1>5, <3>2
    <3>4. gap'[d] = gap[d] /\ gap[d].bytes \in Int /\ gap[d].time \in Int
      BY <2>2 DEF Record, ReadAgain, ChartInv, MetricsType, Gaps
    <3>5. charted'[d].time + gap'[d].time = mono
      BY <1>2, <1>5, <3>1, <3>4
    <3>6. charted'[d].bytes + gap'[d].bytes + (counter[d] - collected[d]) = moved[d]
      BY <1>2, <2>1, <3>1, <3>3, <3>4
    <3> QED
      BY <1>1, <2>1, <3>5, <3>6 DEF AllOfTraffic
  <2>3. CASE d \notin DOMAIN previous
    <3>1. charted'[d] = charted[d] /\ gap'[d] = Uncharted(d)
      BY <1>7, <2>3 DEF Record, Recorded, ReadAgain
    <3>2. /\ gap'[d].time = mono - charted[d].time
          /\ gap'[d].bytes = moved[d] - (counter[d] - collected[d]) - charted[d].bytes
      BY <2>1, <3>1 DEF Uncharted
    <3>3. charted'[d].time + gap'[d].time = mono
      BY <1>2, <3>1, <3>2
    <3>4. charted'[d].bytes + gap'[d].bytes + (counter[d] - collected[d]) = moved[d]
      BY <1>2, <2>1, <3>1, <3>2
    <3> QED
      BY <1>1, <2>1, <3>3, <3>4 DEF AllOfTraffic
  <2> QED
    BY <2>2, <2>3
<1>8. ASSUME d \in steady, d \notin DOMAIN collected PROVE AllOfTraffic(d)'
  BY <1>1, <1>2, <1>8 DEF AllOfTraffic
<1> QED
  BY <1>1, <1>6, <1>7, <1>8

LEMMA ChartStep ==
  ASSUME ChartInv, [Next]_vars
  PROVE  ChartInv'
<1> DEFINE Goal == \A d \in Device : WithinTraffic(d)' /\ (d \in steady' => AllOfTraffic(d)')
<1>1. MetricsType'
  BY MetricsTypeStep DEF ChartInv
<1>2. ASSUME UNCHANGED <<counter, moved, steady, previous, previousAt, charted, gap>>,
             collected' = collected \/ collected' = Null
      PROVE  Goal
  BY <1>2 DEF ChartInv, WithinTraffic, AllOfTraffic
<1>3. ASSUME NEW by \in {-Jump, Jump}, SetClock(by) PROVE Goal
  BY <1>2, <1>3 DEF SetClock, samplerVars, kernelVars
<1>4. ASSUME CollectFails PROVE Goal
  BY <1>2, <1>4 DEF CollectFails, RoundSkipped, kernelVars
<1>5. ASSUME UNCHANGED vars PROVE Goal
  BY <1>2, <1>5 DEF vars, samplerVars, kernelVars
<1>6. ASSUME NEW busy \in SUBSET DOMAIN counter, Pass(busy) PROVE Goal
  BY <1>6, PassCharts
<1>7. ASSUME NEW e \in Device, Unplug(e) \/ Plug(e) PROVE Goal
  BY <1>7, PlugCharts
<1>8. ASSUME Collect \/ Record PROVE Goal
  BY <1>8, CollectCharts, RecordCharts
<1>9. Goal
  BY <1>3, <1>4, <1>5, <1>6, <1>7, <1>8 DEF Next, Machine, Sampler
<1> QED
  BY <1>1, <1>9 DEF ChartInv

(* The area under the charts is the traffic (ChartAccounts): no chart shows *)
(* more than a device has moved, however often its counter starts again,    *)
(* and those of a device that never left show all of it and of the time,    *)
(* but for the gaps that readings which failed have left.                   *)
THEOREM ChartsAccount == Spec => []ChartAccounts
<1>1. ChartInv => ChartAccounts
  BY DEF ChartInv, WithinTraffic, AllOfTraffic, ChartAccounts
<1>2. ChartInv /\ [Next]_vars => ChartInv'
  BY ChartStep
<1> QED
  BY <1>1, <1>2, ChartInit, PTL DEF Spec

-----------------------------------------------------------------------------
(* Samples, in the order they were taken; the wall clock at that time was   *)
(* off by no more than it has been set in all.                              *)
SampleSet == [ts : Int, bytes : Nat, over : Nat, taken : Nat]

Offset == Jump * Sets

LEMMA OffsetNat == Offset \in Nat
BY MetricsAssumption DEF Offset

Dated(x, last) ==
  /\ x.taken <= last
  /\ x.ts - x.taken <= Offset + ahead
  /\ x.ts - x.taken >= Offset - back

SeriesInv ==
  /\ MetricsType
  /\ wall - mono = Offset + ahead - back
  /\ series \in [Device -> Seq(SampleSet)]
  /\ \A d \in Device :
       /\ \A i \in DOMAIN series[d] : Dated(series[d][i], previousAt)
       /\ \A i, j \in DOMAIN series[d] : i <= j => series[d][i].taken <= series[d][j].taken

(* The first of some positions.                                             *)
LEMMA First ==
  ASSUME NEW T, T \subseteq Nat, T # {}
  PROVE  \E k \in T : \A j \in T : k <= j
<1>1. PICK k \in T : \A j \in T : ~(<<j, k>> \in OpToRel(<, Nat))
  BY NatLessThanWellFounded, WFMin
<1>2. k \in T /\ \A j \in T : ~(j < k)
  BY <1>1 DEF OpToRel
<1> QED
  BY <1>2

(* What trimming leaves begins with the first sample within the retention.  *)
LEMMA TrimmedFrom ==
  ASSUME wall \in Int, NEW s \in Seq(SampleSet), s # <<>>, s[Len(s)].ts >= wall - Retention
  PROVE  \E k \in 1..Len(s) :
           /\ Trimmed(s) = SubSeq(s, k, Len(s))
           /\ s[k].ts >= wall - Retention
           /\ \A j \in 1..Len(s) : j < k => s[j].ts < wall - Retention
<1> DEFINE n == Len(s)
           old(i) == s[i].ts < wall - Retention
           recent == {i \in 1..n : s[i].ts >= wall - Retention}
           kept == {i \in DOMAIN s : \A j \in 1..i : j < i => old(j)}
<1>1. n \in Nat /\ DOMAIN s = 1..n /\ n # 0 /\ \A i \in 1..n : s[i].ts \in Int
  <2>1. n \in Nat /\ DOMAIN s = 1..n /\ n # 0
    OBVIOUS
  <2>2. \A i \in 1..n : s[i] \in SampleSet
    BY <2>1
  <2> QED
    BY <2>1, <2>2 DEF SampleSet
<1>2. Retention \in Nat
  BY MetricsAssumption
<1>3. n \in recent /\ recent \subseteq Nat
  BY <1>1
<1>4. PICK k \in recent : \A j \in recent : k <= j
  BY <1>3, First
<1>5. \A j \in 1..n : j < k => old(j)
  BY <1>1, <1>2, <1>4
<1>6. k \in kept /\ s[k].ts >= wall - Retention
  BY <1>1, <1>4, <1>5
<1>7. ASSUME NEW m \in kept, s[m].ts >= wall - Retention
      PROVE  m = k
  <2>1. m \in recent /\ k <= m
    BY <1>1, <1>4, <1>7
  <2>2. k < m => old(k)
    BY <1>1, <1>4, <2>1
  <2>3. ~old(k)
    BY <1>1, <1>2, <1>4
  <2> QED
    BY <1>1, <1>4, <2>1, <2>2, <2>3
<1>8. (CHOOSE i \in kept : s[i].ts >= wall - Retention) = k
  BY <1>6, <1>7
<1>9. Trimmed(s) = SubSeq(s, k, n)
  BY <1>8 DEF Trimmed
<1>10. k \in 1..n
  BY <1>4
<1> QED
  BY <1>5, <1>6, <1>9, <1>10

(* A sample that is recent by the wall clock is recent by the other, less   *)
(* what the clock was set back.                                             *)
LEMMA YoungEnough ==
  ASSUME NEW ts \in Int, NEW taken \in Nat, NEW w \in Int, NEW m \in Nat, NEW a \in Nat,
         NEW b \in Nat, NEW o \in Nat, NEW r \in Nat,
         w - m = o + a - b, ts >= w - r, ts - taken <= o + a
  PROVE  m - taken <= r + b
OBVIOUS

(* A series with its new sample.                                            *)
Longer(d) == Append(series[d], Sample(d))

LEMMA LongerIs ==
  ASSUME SeriesInv, Record, NEW d \in Device, d \in Recorded
  PROVE  /\ Longer(d) \in Seq(SampleSet) /\ Len(Longer(d)) = Len(series[d]) + 1
         /\ Len(series[d]) \in Nat /\ DOMAIN series[d] = 1..Len(series[d])
         /\ \A i \in 1..Len(series[d]) : Longer(d)[i] = series[d][i]
         /\ Longer(d)[Len(series[d]) + 1] = Sample(d)
         /\ Sample(d).ts = wall /\ Sample(d).taken = mono
         /\ \A i \in 1..Len(series[d]) + 1 : Longer(d)[i] \in SampleSet
<1>1. Growth(d) \in Nat
  BY DEF Record, Recorded, Growth, SeriesInv, MetricsType, Reading
<1>2. Sample(d) \in SampleSet /\ Sample(d).ts = wall /\ Sample(d).taken = mono
  BY <1>1 DEF Sample, SampleSet, SeriesInv, MetricsType
<1>3. series[d] \in Seq(SampleSet)
  BY DEF SeriesInv
<1>4. /\ Longer(d) \in Seq(SampleSet) /\ Len(Longer(d)) = Len(series[d]) + 1
      /\ Len(series[d]) \in Nat /\ DOMAIN series[d] = 1..Len(series[d])
      /\ \A i \in 1..Len(series[d]) : Longer(d)[i] = series[d][i]
      /\ Longer(d)[Len(series[d]) + 1] = Sample(d)
  BY <1>2, <1>3 DEF Longer
<1> QED
  BY <1>2, <1>4

LEMMA LongerOrdered ==
  ASSUME SeriesInv, Record, NEW d \in Device, d \in Recorded
  PROVE  /\ \A i \in 1..Len(series[d]) + 1 : Dated(Longer(d)[i], mono)
         /\ \A i, j \in 1..Len(series[d]) + 1 : i <= j => Longer(d)[i].taken <= Longer(d)[j].taken
<1> DEFINE n == Len(series[d])
<1>1. /\ n \in Nat /\ DOMAIN series[d] = 1..n
      /\ \A i \in 1..n : Longer(d)[i] = series[d][i] /\ series[d][i] \in SampleSet
      /\ Longer(d)[n + 1].ts = wall /\ Longer(d)[n + 1].taken = mono
  BY LongerIs
<1>2. /\ mono \in Nat /\ previousAt \in 0..mono /\ back \in Nat /\ ahead \in Nat /\ wall \in Int
      /\ Offset \in Nat /\ wall - mono = Offset + ahead - back
  BY MetricsAssumption, OffsetNat DEF SeriesInv, MetricsType
<1>3. ASSUME NEW i \in 1..n + 1 PROVE Dated(Longer(d)[i], mono)
  <2>1. CASE i \in 1..n
    <3>1. series[d][i].ts \in Int /\ series[d][i].taken \in Nat /\ Dated(series[d][i], previousAt)
      BY <1>1, <2>1 DEF SeriesInv, SampleSet
    <3>2. previousAt <= mono /\ previousAt \in Nat
      BY <1>2
    <3>3. series[d][i].taken <= previousAt
      BY <3>1 DEF Dated
    <3>4. series[d][i].taken <= mono
      BY <1>2, <3>1, <3>2, <3>3
    <3>5. Dated(series[d][i], mono)
      BY <3>1, <3>4 DEF Dated
    <3> QED
      BY <1>1, <2>1, <3>5
  <2>2. CASE i = n + 1
    BY <1>1, <1>2, <2>2 DEF Dated
  <2> QED
    BY <1>1, <2>1, <2>2
<1>4. ASSUME NEW i \in 1..n + 1, NEW j \in 1..n + 1, i <= j
      PROVE  Longer(d)[i].taken <= Longer(d)[j].taken
  <2>1. CASE j \in 1..n
    <3>1. i \in 1..n
      BY <1>1, <1>4, <2>1
    <3> QED
      BY <1>1, <1>4, <2>1, <3>1 DEF SeriesInv
  <2>2. CASE j = n + 1
    <3>1. Longer(d)[i].taken <= mono /\ Longer(d)[j].taken = mono
      BY <1>1, <1>3, <2>2 DEF Dated
    <3> QED
      BY <3>1
  <2> QED
    BY <1>1, <2>1, <2>2
<1> QED
  BY <1>3, <1>4

(* What a round leaves of a series is the end of the longer one, from the   *)
(* first sample within the retention.                                       *)
LEMMA RecordedSeries ==
  ASSUME SeriesInv, Record, NEW d \in Device, d \in Recorded
  PROVE  \E k \in 1..Len(series[d]) + 1 :
           /\ series'[d] \in Seq(SampleSet)
           /\ DOMAIN series'[d] = 1..Len(series[d]) + 2 - k
           /\ \A i \in 1..Len(series[d]) + 2 - k : series'[d][i] = Longer(d)[k + i - 1]
           /\ Longer(d)[k].ts >= wall - Retention
           /\ \A j \in 1..Len(series[d]) + 1 : j < k => Longer(d)[j].ts < wall - Retention
<1> DEFINE n == Len(series[d])
           s == Longer(d)
<1>1. /\ s \in Seq(SampleSet) /\ Len(s) = n + 1 /\ n \in Nat /\ s[n + 1].ts = wall
      /\ \A i \in 1..n + 1 : s[i] \in SampleSet
  BY LongerIs
<1>2. wall \in Int /\ Retention \in Nat
  BY MetricsAssumption DEF SeriesInv, MetricsType
<1>3. s # <<>> /\ s[Len(s)].ts >= wall - Retention
  BY <1>1, <1>2
<1>4. series'[d] = Trimmed(s)
  BY DEF Record, Longer
<1> HIDE DEF s
<1>5. PICK k \in 1..n + 1 :
        /\ Trimmed(s) = SubSeq(s, k, n + 1)
        /\ s[k].ts >= wall - Retention
        /\ \A j \in 1..n + 1 : j < k => s[j].ts < wall - Retention
  <2>1. \E k \in 1..Len(s) :
        /\ Trimmed(s) = SubSeq(s, k, Len(s))
        /\ s[k].ts >= wall - Retention
        /\ \A j \in 1..Len(s) : j < k => s[j].ts < wall - Retention
    BY <1>1, <1>2, <1>3, TrimmedFrom
  <2> QED
    BY <1>1, <2>1
<1>6. /\ SubSeq(s, k, n + 1) \in Seq(SampleSet)
      /\ Len(SubSeq(s, k, n + 1)) = n + 2 - k
      /\ \A i \in 1..n + 2 - k : SubSeq(s, k, n + 1)[i] = s[k + i - 1]
  BY <1>1
<1>7. DOMAIN SubSeq(s, k, n + 1) = 1..n + 2 - k
  BY <1>6
<1> QED
  BY <1>4, <1>5, <1>6, <1>7 DEF s

LEMMA SeriesInit == Init => SeriesInv
<1> SUFFICES ASSUME Init PROVE SeriesInv
  OBVIOUS
<1>1. series \in [Device -> Seq(SampleSet)] /\ \A d \in Device : series[d] = <<>>
  BY DEF Init
<1>2. wall - mono = Offset + ahead - back
  BY MetricsAssumption DEF Init, Offset
<1> QED
  BY <1>1, <1>2, MetricsInit DEF SeriesInv

(* Steps that take no sample, and at most move the clock further.           *)
LEMMA SeriesKept ==
  ASSUME SeriesInv, MetricsType', UNCHANGED <<series, previousAt>>, ahead <= ahead', back <= back',
         wall' - mono' = Offset + ahead' - back'
  PROVE  SeriesInv'
<1>1. ASSUME NEW d \in Device, NEW i \in DOMAIN series[d]
      PROVE  Dated(series[d][i], previousAt)'
  <2>1. series[d] \in Seq(SampleSet)
    BY DEF SeriesInv
  <2>2. series[d][i] \in SampleSet
    BY <2>1
  <2>3. series[d][i].ts \in Int /\ series[d][i].taken \in Nat
    BY <2>2 DEF SampleSet
  <2>4. Offset \in Nat /\ ahead \in Nat /\ ahead' \in Nat /\ back \in Nat /\ back' \in Nat
    BY MetricsAssumption, OffsetNat DEF SeriesInv, MetricsType
  <2>5. Dated(series[d][i], previousAt)
    BY DEF SeriesInv
  <2> QED
    BY <2>3, <2>4, <2>5 DEF Dated
<1> QED
  BY <1>1 DEF SeriesInv

LEMMA RecordSeries ==
  ASSUME SeriesInv, MetricsType', Record
  PROVE  SeriesInv'
<1>1. previousAt' = mono /\ UNCHANGED <<mono, wall, ahead, back>> /\ previousAt <= mono
  BY DEF Record, clockVars, SeriesInv, MetricsType
<1>2. ASSUME NEW d \in Device
      PROVE  /\ series'[d] \in Seq(SampleSet)
             /\ \A i \in DOMAIN series'[d] : Dated(series[d][i], previousAt)'
             /\ \A i, j \in DOMAIN series'[d] :
                  i <= j => series'[d][i].taken <= series'[d][j].taken
  <2>1. CASE d \in Recorded
    <3> DEFINE n == Len(series[d])
    <3>1. PICK k \in 1..n + 1 :
            /\ series'[d] \in Seq(SampleSet)
            /\ DOMAIN series'[d] = 1..n + 2 - k
            /\ \A i \in 1..n + 2 - k : series'[d][i] = Longer(d)[k + i - 1]
      BY <2>1, RecordedSeries
    <3>2. n \in Nat
      BY <2>1, LongerIs
    <3>3. ASSUME NEW i \in DOMAIN series'[d]
          PROVE  k + i - 1 \in 1..n + 1 /\ series'[d][i] = Longer(d)[k + i - 1]
      <4>1. i \in 1..n + 2 - k
        BY <3>1, <3>3
      <4>2. series'[d][i] = Longer(d)[k + i - 1]
        BY <3>1, <4>1
      <4>3. k + i - 1 \in 1..n + 1
        BY <3>1, <3>2, <4>1
      <4> QED
        BY <4>2, <4>3
    <3>4. \A i \in DOMAIN series'[d] : Dated(series'[d][i], mono)
      BY <2>1, <3>3, LongerOrdered
    <3>5. \A i \in DOMAIN series'[d] : Dated(series[d][i], previousAt)'
      BY <1>1, <3>4 DEF Dated
    <3>6. ASSUME NEW i \in DOMAIN series'[d], NEW j \in DOMAIN series'[d], i <= j
          PROVE  series'[d][i].taken <= series'[d][j].taken
      <4>1. k + i - 1 <= k + j - 1
        BY <3>1, <3>2, <3>6
      <4> QED
        BY <2>1, <3>3, <4>1, LongerOrdered
    <3> QED
      BY <3>1, <3>5, <3>6
  <2>2. CASE d \notin Recorded
    <3>1. series'[d] = series[d]
      BY <2>2 DEF Record
    <3>2. \A i \in DOMAIN series[d] : series[d][i] \in SampleSet /\ Dated(series[d][i], previousAt)
      BY DEF SeriesInv
    <3>3. ASSUME NEW i \in DOMAIN series'[d]
          PROVE  Dated(series[d][i], previousAt)'
      <4>1. /\ series[d][i].taken \in Nat /\ series[d][i].taken <= previousAt
            /\ series[d][i].ts - series[d][i].taken <= Offset + ahead
            /\ series[d][i].ts - series[d][i].taken >= Offset - back
        <5>1. series[d][i] \in SampleSet /\ Dated(series[d][i], previousAt)
          BY <3>1, <3>2
        <5> QED
          BY <5>1 DEF Dated, SampleSet
      <4>2. previousAt \in Nat /\ mono \in Nat /\ previousAt <= mono
        BY <1>1 DEF SeriesInv, MetricsType
      <4>3. series[d][i].taken <= mono
        BY <4>1, <4>2
      <4>4. Dated(series'[d][i], mono)
        BY <3>1, <4>1, <4>3 DEF Dated
      <4> QED
        BY <1>1, <4>4 DEF Dated
    <3> QED
      BY <3>1, <3>3 DEF SeriesInv
  <2> QED
    BY <2>1, <2>2
<1>3. series' \in [Device -> Seq(SampleSet)]
  BY <1>2 DEF Record
<1>4. wall' - mono' = Offset + ahead' - back'
  BY <1>1 DEF SeriesInv
<1> QED
  BY <1>2, <1>3, <1>4 DEF SeriesInv

LEMMA SeriesStep ==
  ASSUME SeriesInv, [Next]_vars
  PROVE  SeriesInv'
<1>1. MetricsType'
  BY MetricsTypeStep DEF SeriesInv
<1>2. /\ wall \in Int /\ mono \in Nat /\ ahead \in Nat /\ back \in Nat /\ Offset \in Nat
      /\ Jump \in Nat /\ wall - mono = Offset + ahead - back
  BY MetricsAssumption, OffsetNat DEF SeriesInv, MetricsType
<1>3. ASSUME UNCHANGED <<series, previousAt, ahead, back>>, wall' - mono' = wall - mono
      PROVE  SeriesInv'
  BY <1>1, <1>2, <1>3, SeriesKept
<1>4. ASSUME NEW busy \in SUBSET DOMAIN counter, Pass(busy) PROVE SeriesInv'
  BY <1>2, <1>3, <1>4 DEF Pass, samplerVars
<1>5. ASSUME NEW by \in {-Jump, Jump}, SetClock(by) PROVE SeriesInv'
  <2>1. /\ UNCHANGED <<series, previousAt, mono>> /\ wall' = wall + by
        /\ back' = back + (IF by < 0 THEN -by ELSE 0)
        /\ ahead' = ahead + (IF by > 0 THEN by ELSE 0)
    BY <1>5 DEF SetClock, samplerVars
  <2>2. by \in Int
    BY <1>2
  <2>3. ahead <= ahead' /\ back <= back' /\ wall' - mono' = Offset + ahead' - back'
    BY <1>2, <2>1, <2>2
  <2> QED
    BY <1>1, <2>1, <2>3, SeriesKept
<1>6. ASSUME NEW d \in Device, Unplug(d) \/ Plug(d) PROVE SeriesInv'
  BY <1>3, <1>6 DEF Unplug, Plug, samplerVars, clockVars
<1>7. ASSUME Collect \/ CollectFails PROVE SeriesInv'
  BY <1>3, <1>7 DEF Collect, CollectFails, RoundSkipped, clockVars
<1>8. ASSUME Record PROVE SeriesInv'
  BY <1>1, <1>8, RecordSeries
<1>9. ASSUME UNCHANGED vars PROVE SeriesInv'
  BY <1>3, <1>9 DEF vars, samplerVars, clockVars
<1> QED
  BY <1>4, <1>5, <1>6, <1>7, <1>8, <1>9 DEF Next, Machine, Sampler

(* Only a round changes a series, and only of a device it has a rate of.    *)
LEMMA SeriesChange ==
  ASSUME SeriesInv, Next, NEW d \in Device, series'[d] # series[d]
  PROVE  Record /\ d \in Recorded
<1>1. series' # series
  OBVIOUS
<1>2. Record
  BY <1>1 DEF Next, Machine, Sampler, Pass, SetClock, Unplug, Plug, Collect, CollectFails, samplerVars
<1> QED
  BY <1>2 DEF Record

LEMMA RecordKeeps ==
  ASSUME SeriesInv, Record, NEW d \in Device, d \in Recorded
  PROVE  /\ \A i \in DOMAIN series'[d] : mono - series'[d][i].taken <= Retention + back
         /\ \A i \in DOMAIN series[d] :
              mono - series[d][i].taken <= Retention - ahead
                => \E j \in DOMAIN series'[d] : series'[d][j] = series[d][i]
<1> DEFINE n == Len(series[d])
<1>1. PICK k \in 1..n + 1 :
        /\ DOMAIN series'[d] = 1..n + 2 - k
        /\ \A i \in 1..n + 2 - k : series'[d][i] = Longer(d)[k + i - 1]
        /\ Longer(d)[k].ts >= wall - Retention
        /\ \A j \in 1..n + 1 : j < k => Longer(d)[j].ts < wall - Retention
  BY RecordedSeries
<1>2. /\ n \in Nat /\ DOMAIN series[d] = 1..n
      /\ \A i \in 1..n : Longer(d)[i] = series[d][i]
      /\ \A i \in 1..n + 1 : Longer(d)[i].ts \in Int /\ Longer(d)[i].taken \in Nat
  BY LongerIs DEF SampleSet
<1>3. /\ wall \in Int /\ mono \in Nat /\ ahead \in Nat /\ back \in Nat /\ Offset \in Nat
      /\ Retention \in Nat /\ wall - mono = Offset + ahead - back
  BY MetricsAssumption, OffsetNat DEF SeriesInv, MetricsType
<1>4. \A i \in 1..n + 1 : /\ Longer(d)[i].ts - Longer(d)[i].taken <= Offset + ahead
                           /\ Longer(d)[i].ts - Longer(d)[i].taken >= Offset - back
  BY LongerOrdered DEF Dated
<1>5. mono - Longer(d)[k].taken <= Retention + back
  <2>1. /\ Longer(d)[k].ts \in Int /\ Longer(d)[k].taken \in Nat
        /\ Longer(d)[k].ts >= wall - Retention
        /\ Longer(d)[k].ts - Longer(d)[k].taken <= Offset + ahead
    BY <1>1, <1>2, <1>4
  <2> QED
    BY <1>3, <2>1, YoungEnough
<1>6. ASSUME NEW i \in DOMAIN series'[d]
      PROVE  mono - series'[d][i].taken <= Retention + back
  <2>1. k + i - 1 \in 1..n + 1 /\ k <= k + i - 1 /\ series'[d][i] = Longer(d)[k + i - 1]
    <3>1. i \in 1..n + 2 - k
      BY <1>1, <1>6
    <3>2. series'[d][i] = Longer(d)[k + i - 1]
      BY <1>1, <3>1
    <3>3. k + i - 1 \in 1..n + 1 /\ k <= k + i - 1
      BY <1>1, <1>2, <3>1
    <3> QED
      BY <3>2, <3>3
  <2>2. Longer(d)[k].taken <= Longer(d)[k + i - 1].taken
    BY <2>1, LongerOrdered
  <2>3. Longer(d)[k].taken \in Nat /\ Longer(d)[k + i - 1].taken \in Nat
    BY <1>2, <2>1
  <2>4. mono - Longer(d)[k + i - 1].taken <= Retention + back
    <3> DEFINE first == Longer(d)[k].taken
               later == Longer(d)[k + i - 1].taken
    <3>1. first \in Nat /\ later \in Nat /\ first <= later /\ mono - first <= Retention + back
      BY <1>5, <2>2, <2>3
    <3> HIDE DEF first, later
    <3>2. mono - later <= Retention + back
      BY <1>3, <3>1
    <3> QED
      BY <3>2 DEF later
  <2> QED
    BY <2>1, <2>4
<1>7. ASSUME NEW i \in DOMAIN series[d], mono - series[d][i].taken <= Retention - ahead
      PROVE  \E j \in DOMAIN series'[d] : series'[d][j] = series[d][i]
  <2>1. i \in 1..n /\ i \in 1..n + 1 /\ Longer(d)[i] = series[d][i]
    BY <1>2
  <2>2. Longer(d)[i].ts >= wall - Retention
    <3>1. /\ Longer(d)[i].ts \in Int /\ Longer(d)[i].taken \in Nat
          /\ Longer(d)[i].ts - Longer(d)[i].taken >= Offset - back
          /\ mono - Longer(d)[i].taken <= Retention - ahead
      BY <1>2, <1>4, <1>7, <2>1
    <3> QED
      BY <1>3, <3>1
  <2>3. k <= i
    BY <1>1, <1>2, <1>3, <2>1, <2>2
  <2>4. i - k + 1 \in 1..n + 2 - k /\ k + (i - k + 1) - 1 = i
    BY <1>2, <2>1, <2>3
  <2>5. series'[d][i - k + 1] = Longer(d)[k + (i - k + 1) - 1]
    BY <1>1, <2>4
  <2> QED
    BY <1>1, <2>1, <2>4, <2>5
<1> QED
  BY <1>6, <1>7

(* Samples are kept for the retention (KeptForRetention), however late the  *)
(* rounds and wherever the wall clock is set: a round leaves none that is   *)
(* older by more than the clock went back, and drops none that is younger   *)
(* by more than it went ahead.                                              *)
THEOREM RetentionKept == Spec => KeptForRetention
<1>1. SeriesInv /\ [Next]_vars => SeriesInv'
  BY SeriesStep
<1> DEFINE Keeps ==
       \A d \in Device : series'[d] # series[d] =>
         /\ \A i \in DOMAIN series'[d] : mono - series'[d][i].taken <= Retention + back
         /\ \A i \in DOMAIN series[d] :
              mono - series[d][i].taken <= Retention - ahead
                => \E j \in DOMAIN series'[d] : series'[d][j] = series[d][i]
<1>2. ASSUME SeriesInv, Next PROVE Keeps
  BY <1>2, SeriesChange, RecordKeeps
<1>3. SeriesInv /\ [Next]_vars => [Keeps]_vars
  BY <1>2
<1> QED
  BY <1>1, <1>3, SeriesInit, PTL DEF Spec, KeptForRetention
-----------------------------------------------------------------------------
(* The times of a series, for a clock that is never set back.               *)
InOrder ==
  back = 0 =>
    \A d \in Device :
      /\ \A i \in DOMAIN series[d] : series[d][i].ts <= wall
      /\ \A i, j \in DOMAIN series[d] : i <= j => series[d][i].ts <= series[d][j].ts

(* Steps that take no sample, and do not set the clock back.                *)
LEMMA OrderKept ==
  ASSUME SeriesInv, InOrder, UNCHANGED series, back' = 0 => back = 0 /\ wall <= wall',
         wall' \in Int
  PROVE  InOrder'
<1>1. ASSUME back' = 0, NEW d \in Device, NEW i \in DOMAIN series[d]
      PROVE  series[d][i].ts <= wall'
  <2>1. series[d] \in Seq(SampleSet)
    BY DEF SeriesInv
  <2>2. series[d][i] \in SampleSet
    BY <2>1
  <2>3. series[d][i].ts \in Int /\ wall \in Int
    BY <2>2 DEF SampleSet, SeriesInv, MetricsType
  <2>4. series[d][i].ts <= wall /\ wall <= wall'
    BY <1>1 DEF InOrder
  <2> QED
    BY <2>3, <2>4
<1> QED
  BY <1>1 DEF InOrder

(* A new sample is the latest, and what a round leaves of the series is the *)
(* end of the longer one.                                                   *)
LEMMA RecordOrder ==
  ASSUME SeriesInv, InOrder, Record
  PROVE  InOrder'
<1>1. UNCHANGED <<wall, back>> /\ wall \in Int
  BY DEF Record, clockVars, SeriesInv, MetricsType
<1>2. ASSUME back = 0, NEW d \in Device, d \in Recorded
      PROVE  /\ \A i \in DOMAIN series'[d] : series'[d][i].ts <= wall
             /\ \A i, j \in DOMAIN series'[d] : i <= j => series'[d][i].ts <= series'[d][j].ts
  <2> DEFINE n == Len(series[d])
  <2>1. /\ n \in Nat /\ DOMAIN series[d] = 1..n
        /\ \A i \in 1..n : Longer(d)[i] = series[d][i]
        /\ Longer(d)[n + 1].ts = wall
        /\ \A i \in 1..n + 1 : Longer(d)[i].ts \in Int
    BY <1>2, LongerIs DEF SampleSet
  <2>2. /\ \A i \in 1..n : Longer(d)[i].ts <= wall
        /\ \A i, j \in 1..n : i <= j => Longer(d)[i].ts <= Longer(d)[j].ts
    BY <1>2, <2>1 DEF InOrder
  <2>3. /\ \A i \in 1..n + 1 : Longer(d)[i].ts <= wall
        /\ \A i, j \in 1..n + 1 : i <= j => Longer(d)[i].ts <= Longer(d)[j].ts
    <3>1. \A i \in 1..n + 1 : i \in 1..n \/ i = n + 1
      BY <2>1
    <3>2. \A i \in 1..n + 1 : Longer(d)[i].ts <= wall
      BY <1>1, <2>1, <2>2, <3>1
    <3>3. ASSUME NEW i \in 1..n + 1, NEW j \in 1..n + 1, i <= j
          PROVE  Longer(d)[i].ts <= Longer(d)[j].ts
      <4>1. CASE j \in 1..n
        <5>1. i \in 1..n
          BY <2>1, <3>3, <4>1
        <5> QED
          BY <2>2, <3>3, <4>1, <5>1
      <4>2. CASE j = n + 1
        BY <2>1, <3>2, <4>2
      <4> QED
        BY <3>1, <4>1, <4>2
    <3> QED
      BY <3>2, <3>3
  <2>4. PICK k \in 1..n + 1 :
          /\ DOMAIN series'[d] = 1..n + 2 - k
          /\ \A i \in 1..n + 2 - k : series'[d][i] = Longer(d)[k + i - 1]
    BY <1>2, RecordedSeries
  <2>5. ASSUME NEW i \in DOMAIN series'[d]
        PROVE  k + i - 1 \in 1..n + 1 /\ series'[d][i] = Longer(d)[k + i - 1]
    BY <2>1, <2>4
  <2>6. ASSUME NEW i \in DOMAIN series'[d], NEW j \in DOMAIN series'[d], i <= j
        PROVE  series'[d][i].ts <= series'[d][j].ts
    <3>1. k + i - 1 <= k + j - 1
      BY <2>1, <2>4, <2>6
    <3> QED
      BY <2>3, <2>5, <3>1
  <2> QED
    BY <2>3, <2>5, <2>6
<1>3. \A d \in Device : d \notin Recorded => series'[d] = series[d]
  BY DEF Record
<1>4. \A d \in Device : d \notin Recorded /\ back = 0 =>
         /\ \A i \in DOMAIN series'[d] : series'[d][i].ts <= wall
         /\ \A i, j \in DOMAIN series'[d] : i <= j => series'[d][i].ts <= series'[d][j].ts
  BY <1>3 DEF InOrder
<1> QED
  BY <1>1, <1>2, <1>4 DEF InOrder

LEMMA OrderStep ==
  ASSUME SeriesInv, InOrder, [Next]_vars
  PROVE  InOrder'
<1>1. wall \in Int /\ back \in Nat /\ Jump \in Nat
  BY MetricsAssumption DEF SeriesInv, MetricsType
<1>2. ASSUME UNCHANGED <<series, wall, back>> PROVE InOrder'
  BY <1>1, <1>2, OrderKept
<1>3. ASSUME NEW busy \in SUBSET DOMAIN counter, Pass(busy) PROVE InOrder'
  <2>1. UNCHANGED <<series, back>> /\ wall' = wall + 1
    BY <1>3 DEF Pass, samplerVars
  <2> QED
    BY <1>1, <2>1, OrderKept
<1>4. ASSUME NEW by \in {-Jump, Jump}, SetClock(by) PROVE InOrder'
  <2>1. /\ UNCHANGED series /\ wall' = wall + by
        /\ back' = back + (IF by < 0 THEN -by ELSE 0)
    BY <1>4 DEF SetClock, samplerVars
  <2>2. by \in Int
    BY <1>1
  <2>3. back' = 0 => back = 0 /\ wall <= wall'
    BY <1>1, <2>1, <2>2
  <2> QED
    BY <1>1, <2>1, <2>2, <2>3, OrderKept
<1>5. ASSUME NEW d \in Device, Unplug(d) \/ Plug(d) PROVE InOrder'
  BY <1>2, <1>5 DEF Unplug, Plug, samplerVars, clockVars
<1>6. ASSUME Collect \/ CollectFails PROVE InOrder'
  BY <1>2, <1>6 DEF Collect, CollectFails, clockVars
<1>7. ASSUME UNCHANGED vars PROVE InOrder'
  BY <1>2, <1>7 DEF vars, samplerVars, clockVars
<1> QED
  BY <1>3, <1>4, <1>5, <1>6, <1>7, RecordOrder DEF Next, Machine, Sampler

(* As long as the clock was not set back, every series is in the order of   *)
(* its times, whatever rounds were late and however far the clock was set   *)
(* ahead: the order that a window of WindowFaithful takes over.             *)
THEOREM SeriesInOrder == Spec => []InOrder
<1>1. Init => InOrder
  BY DEF Init, InOrder
<1>2. SeriesInv /\ [Next]_vars => SeriesInv'
  BY SeriesStep
<1>3. SeriesInv /\ InOrder /\ [Next]_vars => InOrder'
  BY OrderStep
<1> QED
  BY <1>1, <1>2, <1>3, SeriesInit, PTL DEF Spec

-----------------------------------------------------------------------------
(* Recursion and induction over the positions of a series, from the least   *)
(* position where they would fail: a function that each position takes one  *)
(* step further exists, whatever the steps.                                 *)
Runs(f, N, a, G) == f[0] = a /\ \A n \in 1..N : f[n] = G[n][f[n - 1]]

LEMMA Recursion ==
  ASSUME NEW N \in Nat, NEW V, NEW a \in V, NEW G \in [1..N -> [V -> V]]
  PROVE  \E f \in [0..N -> V] : Runs(f, N, a, G)
<1> DEFINE Good(m, f) == f \in [0..m -> V] /\ f[0] = a /\ \A n \in 1..m : f[n] = G[n][f[n - 1]]
           bad == {m \in 0..N : \A f : ~Good(m, f)}
<1>1. \A n \in 1..N, v \in V : G[n][v] \in V
  OBVIOUS
<1>2. bad = {}
  <2> SUFFICES ASSUME bad # {} PROVE FALSE
    OBVIOUS
  <2>1. PICK k \in bad : \A j \in bad : k <= j
    <3>1. bad \subseteq Nat
      OBVIOUS
    <3> HIDE DEF bad
    <3> QED
      BY <3>1, First
  <2>2. k # 0
    <3> DEFINE z == [n \in 0..0 |-> a]
    <3>1. Good(0, z)
      <4>1. z \in [0..0 -> V] /\ z[0] = a /\ 1..0 = {}
        OBVIOUS
      <4> QED
        BY <4>1
    <3>2. \A f : ~Good(k, f)
      BY <2>1
    <3> HIDE DEF z, Good
    <3> QED
      BY <3>1, <3>2
  <2>3. k \in 1..N /\ k - 1 \in 0..N
    BY <2>1, <2>2
  <2>4. k - 1 \notin bad
    <3>1. ~(k <= k - 1)
      BY <2>3
    <3> HIDE DEF bad
    <3> QED
      BY <2>1, <3>1
  <2>5. PICK f : Good(k - 1, f)
    BY <2>3, <2>4
  <2> DEFINE g == [n \in 0..k |-> IF n = k THEN G[k][f[k - 1]] ELSE f[n]]
  <2>6. \A n \in 0..k : n # k => n \in 0..(k - 1)
    BY <2>3
  <2>7. k - 1 \in 0..(k - 1) /\ k \in 0..k /\ 0 \in 0..k /\ k # 0
    BY <2>3
  <2>8. g \in [0..k -> V]
    <3>1. G[k][f[k - 1]] \in V
      BY <1>1, <2>3, <2>5, <2>7
    <3> QED
      BY <2>5, <2>6, <3>1
  <2>9. g[0] = a
    BY <2>5, <2>7
  <2>10. ASSUME NEW n \in 1..k PROVE g[n] = G[n][g[n - 1]]
    <3>1. n \in 0..k /\ n - 1 \in 0..k /\ n - 1 # k /\ (n # k => n \in 1..(k - 1))
      BY <2>3, <2>10
    <3>2. g[n - 1] = f[n - 1]
      BY <3>1
    <3>3. g[n] = G[n][f[n - 1]]
      BY <2>5, <3>1
    <3> QED
      BY <3>2, <3>3
  <2>11. Good(k, g)
    BY <2>8, <2>9, <2>10
  <2> HIDE DEF g
  <2> QED
    BY <2>1, <2>11
<1>3. PICK f : Good(N, f)
  <2>1. N \in 0..N
    OBVIOUS
  <2>2. N \notin bad
    BY <1>2
  <2> QED
    BY <2>1, <2>2
<1> QED
  BY <1>3 DEF Runs

(* What holds at the start and is kept from each position to the next holds *)
(* throughout.                                                              *)
LEMMA Induct ==
  ASSUME NEW N \in Nat, NEW H, 0 \in H, \A n \in 1..N : n - 1 \in H => n \in H
  PROVE  0..N \subseteq H
<1> DEFINE bad == {n \in 0..N : n \notin H}
<1>1. bad = {}
  <2> SUFFICES ASSUME bad # {} PROVE FALSE
    OBVIOUS
  <2>1. PICK k \in bad : \A j \in bad : k <= j
    <3>1. bad \subseteq Nat
      OBVIOUS
    <3> HIDE DEF bad
    <3> QED
      BY <3>1, First
  <2>2. k # 0
    BY <2>1
  <2>3. k \in 1..N /\ k - 1 \in 0..N /\ ~(k <= k - 1)
    BY <2>1, <2>2
  <2>4. k - 1 \notin bad
    <3> HIDE DEF bad
    <3> QED
      BY <2>1, <2>3
  <2> QED
    BY <2>1, <2>3, <2>4
<1> QED
  BY <1>1

-----------------------------------------------------------------------------
(* The recursive definitions of the windows, unfolded.                      *)
Within(x, since, until) == since <= x.ts /\ x.ts <= until

LEMMA SelectedSteps ==
  ASSUME NEW s \in Seq(SampleSet), NEW since, NEW until
  PROVE  \E f \in [0..Len(s) -> Seq(SampleSet)] :
           /\ f[Len(s)] = Selected(s, since, until)
           /\ f[0] = <<>>
           /\ \A n \in 1..Len(s) :
                f[n] = IF Within(s[n], since, until) THEN Append(f[n - 1], s[n]) ELSE f[n - 1]
<1> DEFINE N == Len(s)
           V == Seq(SampleSet)
           a == <<>>
           Step(n, v) == IF Within(s[n], since, until) THEN Append(v, s[n]) ELSE v
           G == [n \in 1..N |-> [v \in V |-> Step(n, v)]]
           T == CHOOSE f : f = [n \in 0..N |-> IF n = 0 THEN a ELSE Step(n, f[n - 1])]
<1>1. Selected(s, since, until) = T[N]
  BY DEF Selected, Within
<1>2. \A n \in 1..N, v \in V : Step(n, v) \in V
  <2>1. ASSUME NEW n \in 1..N, NEW v \in V PROVE Step(n, v) \in V
    <3>1. s[n] \in SampleSet
      OBVIOUS
    <3> QED
      BY <3>1
  <2> QED
    BY <2>1
<1>3. \A n \in 1..N : Step(n, T[n - 1]) =
         IF Within(s[n], since, until) THEN Append(T[n - 1], s[n]) ELSE T[n - 1]
  OBVIOUS
<1>4. N \in Nat /\ a \in V /\ a = <<>>
  OBVIOUS
<1> HIDE DEF Step, V, N, a
<1>5. /\ G \in [1..N -> [V -> V]]
      /\ \A n \in 1..N, v \in V : G[n][v] = Step(n, v)
  BY <1>2
<1>6. T \in [0..N -> V] /\ T[0] = a /\ \A n \in 1..N : T[n] = Step(n, T[n - 1])
  <2> HIDE DEF G
  <2>1. PICK f \in [0..N -> V] : Runs(f, N, a, G)
    BY <1>4, <1>5, Recursion
  <2>2. \A n \in 1..N : f[n] = Step(n, f[n - 1])
    BY <1>4, <1>5, <2>1 DEF Runs
  <2>3. f = [n \in 0..N |-> IF n = 0 THEN a ELSE Step(n, f[n - 1])]
    BY <1>4, <2>1, <2>2 DEF Runs
  <2>4. T = [n \in 0..N |-> IF n = 0 THEN a ELSE Step(n, T[n - 1])]
    BY <2>3
  <2> HIDE DEF T
  <2> DEFINE H == {n \in 0..N : T[n] \in V}
  <2>5. 0 \in H /\ \A n \in 1..N : n - 1 \in H => n \in H
    BY <1>2, <1>4, <2>4
  <2> HIDE DEF H
  <2>6. 0..N \subseteq H
    BY <1>4, <2>5, Induct
  <2> QED
    BY <1>4, <2>4, <2>6 DEF H
<1> HIDE DEF T
<1> QED
  BY <1>1, <1>3, <1>4, <1>6 DEF N, V

BucketSets == UNION {[T -> [bytes : Nat, count : Nat]] : T \in SUBSET Int}

LEMMA BucketIs ==
  ASSUME NEW x \in SampleSet, NEW width \in Nat \ {0}
  PROVE  /\ Bucket(x, width) \in Int
         /\ Bucket(x, width) <= x.ts /\ x.ts < Bucket(x, width) + width
<1> DEFINE q == x.ts \div width
<1>1. x.ts \in Int /\ q \in Int
  BY DEF SampleSet
<1>2. x.ts = width * q + (x.ts % width) /\ x.ts % width \in 0..(width - 1)
  BY <1>1
<1>3. PICK r \in 0..(width - 1) : x.ts = width * q + r
  BY <1>2
<1>4. PICK b \in Int : b = width * q /\ b = q * width
  BY <1>1
<1>5. b <= x.ts /\ x.ts < b + width
  BY <1>1, <1>3, <1>4
<1>6. Bucket(x, width) = b
  BY <1>4 DEF Bucket
<1> QED
  BY <1>5, <1>6

(* Buckets of one width do not overlap.                                     *)
LEMMA BucketOnly ==
  ASSUME NEW x \in SampleSet, NEW y \in SampleSet, NEW width \in Nat \ {0},
         Bucket(y, width) <= x.ts, x.ts < Bucket(y, width) + width
  PROVE  Bucket(x, width) = Bucket(y, width)
<1> DEFINE p == x.ts \div width
           q == y.ts \div width
<1>1. p \in Int /\ q \in Int /\ x.ts \in Int
  BY DEF SampleSet
<1>2. /\ Bucket(x, width) = p * width /\ Bucket(y, width) = q * width
      /\ p * width <= x.ts /\ x.ts < p * width + width
  BY BucketIs DEF Bucket
<1>3. q * width < (p + 1) * width /\ p * width < (q + 1) * width
  BY <1>1, <1>2
<1>4. q < p + 1
  BY <1>1, <1>3
<1>5. p < q + 1
  BY <1>1, <1>3
<1> QED
  BY <1>1, <1>2, <1>4, <1>5

(* The buckets e are those of b with a sample x of time t entered.          *)
OneMore(e, b, t, x) ==
  /\ DOMAIN e = DOMAIN b \cup {t}
  /\ \A u \in DOMAIN b \ {t} : e[u] = b[u]
  /\ t \in DOMAIN b => e[t].bytes = b[t].bytes + x.bytes /\ e[t].count = b[t].count + 1
  /\ t \notin DOMAIN b => e[t].bytes = x.bytes /\ e[t].count = 1

LEMMA EnteredIs ==
  ASSUME NEW b \in BucketSets, NEW t \in Int, NEW x \in SampleSet
  PROVE  Entered(b, t, x) \in BucketSets /\ OneMore(Entered(b, t, x), b, t, x)
<1> DEFINE D == DOMAIN b \cup {t}
           e(u) == IF u # t THEN b[u]
                   ELSE IF u \in DOMAIN b
                        THEN [bytes |-> b[u].bytes + x.bytes, count |-> b[u].count + 1]
                        ELSE [bytes |-> x.bytes, count |-> 1]
<1>1. PICK T \in SUBSET Int : b \in [T -> [bytes : Nat, count : Nat]]
  BY DEF BucketSets
<1>2. DOMAIN b = T /\ D \in SUBSET Int /\ x.bytes \in Nat
  BY <1>1 DEF SampleSet
<1>3. \A u \in DOMAIN b : b[u] \in [bytes : Nat, count : Nat]
  BY <1>1, <1>2
<1>4. \A u \in D : e(u) \in [bytes : Nat, count : Nat]
  BY <1>2, <1>3
<1>5. Entered(b, t, x) = [u \in D |-> e(u)]
  BY DEF Entered
<1>6. [u \in D |-> e(u)] \in [D -> [bytes : Nat, count : Nat]]
  BY <1>4
<1>7. Entered(b, t, x) \in BucketSets
  BY <1>2, <1>5, <1>6 DEF BucketSets
<1>8. e(t).bytes = (IF t \in DOMAIN b THEN b[t].bytes + x.bytes ELSE x.bytes)
      /\ e(t).count = (IF t \in DOMAIN b THEN b[t].count + 1 ELSE 1)
  OBVIOUS
<1>9. \A u \in DOMAIN b \ {t} : e(u) = b[u]
  OBVIOUS
<1> HIDE DEF e
<1> QED
  BY <1>5, <1>7, <1>8, <1>9 DEF OneMore

LEMMA BucketedSteps ==
  ASSUME NEW s \in Seq(SampleSet), NEW width \in Nat \ {0}
  PROVE  \E f \in [0..Len(s) -> BucketSets] :
           /\ f[Len(s)] = Bucketed(s, width)
           /\ f[0] = [t \in {} |-> 0]
           /\ \A n \in 1..Len(s) : f[n] = Entered(f[n - 1], Bucket(s[n], width), s[n])
<1> DEFINE N == Len(s)
           V == BucketSets
           a == [t \in {} |-> 0]
           Step(n, v) == Entered(v, Bucket(s[n], width), s[n])
           G == [n \in 1..N |-> [v \in V |-> Step(n, v)]]
           T == CHOOSE f : f = [n \in 0..N |-> IF n = 0 THEN a ELSE Step(n, f[n - 1])]
<1>1. Bucketed(s, width) = T[N]
  BY DEF Bucketed
<1>2. \A n \in 1..N, v \in V : Step(n, v) \in V
  <2>1. ASSUME NEW n \in 1..N, NEW v \in V PROVE Step(n, v) \in V
    <3>1. s[n] \in SampleSet
      OBVIOUS
    <3>2. Bucket(s[n], width) \in Int
      BY <3>1, BucketIs
    <3> QED
      BY <3>1, <3>2, EnteredIs
  <2> QED
    BY <2>1
<1>3. \A n \in 1..N : Step(n, T[n - 1]) = Entered(T[n - 1], Bucket(s[n], width), s[n])
  OBVIOUS
<1>4. N \in Nat /\ a \in V /\ a = [t \in {} |-> 0]
  <2>1. a \in [{} -> [bytes : Nat, count : Nat]]
    OBVIOUS
  <2>2. {} \in SUBSET Int
    OBVIOUS
  <2> HIDE DEF a
  <2>3. a \in V
    BY <2>1, <2>2 DEF BucketSets
  <2> QED
    BY <2>3 DEF a
<1> HIDE DEF Step, V, N, a
<1>5. /\ G \in [1..N -> [V -> V]]
      /\ \A n \in 1..N, v \in V : G[n][v] = Step(n, v)
  BY <1>2
<1>6. T \in [0..N -> V] /\ T[0] = a /\ \A n \in 1..N : T[n] = Step(n, T[n - 1])
  <2> HIDE DEF G
  <2>1. PICK f \in [0..N -> V] : Runs(f, N, a, G)
    BY <1>4, <1>5, Recursion
  <2>2. \A n \in 1..N : f[n] = Step(n, f[n - 1])
    BY <1>4, <1>5, <2>1 DEF Runs
  <2>3. f = [n \in 0..N |-> IF n = 0 THEN a ELSE Step(n, f[n - 1])]
    BY <1>4, <2>1, <2>2 DEF Runs
  <2>4. T = [n \in 0..N |-> IF n = 0 THEN a ELSE Step(n, T[n - 1])]
    BY <2>3
  <2> HIDE DEF T
  <2> DEFINE H == {n \in 0..N : T[n] \in V}
  <2>5. 0 \in H /\ \A n \in 1..N : n - 1 \in H => n \in H
    BY <1>2, <1>4, <2>4
  <2> HIDE DEF H
  <2>6. 0..N \subseteq H
    BY <1>4, <2>5, Induct
  <2> QED
    BY <1>4, <2>4, <2>6 DEF H
<1> HIDE DEF T
<1> QED
  BY <1>1, <1>3, <1>4, <1>6 DEF N, V

LEMMA TotalSteps ==
  ASSUME NEW s \in Seq(SampleSet), NEW S
  PROVE  \E f \in [0..Len(s) -> Nat] :
           /\ f[Len(s)] = Total(s, S)
           /\ f[0] = 0
           /\ \A n \in 1..Len(s) : f[n] = f[n - 1] + (IF n \in S THEN s[n].bytes ELSE 0)
<1> DEFINE N == Len(s)
           V == Nat
           a == 0
           Step(n, v) == v + (IF n \in S THEN s[n].bytes ELSE 0)
           G == [n \in 1..N |-> [v \in V |-> Step(n, v)]]
           T == CHOOSE f : f = [n \in 0..N |-> IF n = 0 THEN a ELSE Step(n, f[n - 1])]
<1>1. Total(s, S) = T[N]
  BY DEF Total
<1>2. \A n \in 1..N, v \in V : Step(n, v) \in V
  <2>1. ASSUME NEW n \in 1..N, NEW v \in V PROVE Step(n, v) \in V
    <3>1. s[n] \in SampleSet
      OBVIOUS
    <3>2. s[n].bytes \in Nat
      BY <3>1 DEF SampleSet
    <3> QED
      BY <3>2
  <2> QED
    BY <2>1
<1>3. \A n \in 1..N : Step(n, T[n - 1]) = T[n - 1] + (IF n \in S THEN s[n].bytes ELSE 0)
  OBVIOUS
<1>4. N \in Nat /\ a \in V /\ a = 0
  OBVIOUS
<1> HIDE DEF Step, V, N, a
<1>5. /\ G \in [1..N -> [V -> V]]
      /\ \A n \in 1..N, v \in V : G[n][v] = Step(n, v)
  BY <1>2
<1>6. T \in [0..N -> V] /\ T[0] = a /\ \A n \in 1..N : T[n] = Step(n, T[n - 1])
  <2> HIDE DEF G
  <2>1. PICK f \in [0..N -> V] : Runs(f, N, a, G)
    BY <1>4, <1>5, Recursion
  <2>2. \A n \in 1..N : f[n] = Step(n, f[n - 1])
    <3>1. \A n \in 1..N : n - 1 \in 0..N
      BY <1>4
    <3>2. \A n \in 1..N : f[n - 1] \in V
      BY <2>1, <3>1
    <3>3. \A n \in 1..N : f[n] = G[n][f[n - 1]]
      BY <2>1 DEF Runs
    <3> QED
      BY <1>5, <3>2, <3>3
  <2>3. f = [n \in 0..N |-> IF n = 0 THEN a ELSE Step(n, f[n - 1])]
    BY <1>4, <2>1, <2>2 DEF Runs
  <2>4. T = [n \in 0..N |-> IF n = 0 THEN a ELSE Step(n, T[n - 1])]
    BY <2>3
  <2> HIDE DEF T
  <2> DEFINE H == {n \in 0..N : T[n] \in V}
  <2>5. 0 \in H /\ \A n \in 1..N : n - 1 \in H => n \in H
    <3>1. 0 \in H
      BY <1>4, <2>4
    <3>2. ASSUME NEW n \in 1..N, n - 1 \in H PROVE n \in H
      <4>1. T[n - 1] \in V /\ n \in 0..N /\ n # 0
        BY <1>4, <3>2
      <4>2. T[n] = Step(n, T[n - 1])
        BY <2>4, <4>1
      <4> QED
        BY <1>2, <4>1, <4>2
    <3> QED
      BY <3>1, <3>2
  <2> HIDE DEF H
  <2>6. 0..N \subseteq H
    BY <1>4, <2>5, Induct
  <2> QED
    BY <1>4, <2>4, <2>6 DEF H
<1> HIDE DEF T
<1> QED
  BY <1>1, <1>3, <1>4, <1>6 DEF N, V

-----------------------------------------------------------------------------
(* A window keeps the order of its series.                                  *)
LEMMA SelectedIs ==
  ASSUME NEW s \in Seq(SampleSet), NEW since, NEW until
  PROVE  /\ Selected(s, since, until) \in Seq(SampleSet)
         /\ (\A i, j \in DOMAIN s : i <= j => s[i].ts <= s[j].ts) =>
              \A i, j \in DOMAIN Selected(s, since, until) :
                i < j => Selected(s, since, until)[i].ts <= Selected(s, since, until)[j].ts
<1>1. PICK f \in [0..Len(s) -> Seq(SampleSet)] :
        /\ f[Len(s)] = Selected(s, since, until)
        /\ f[0] = <<>>
        /\ \A n \in 1..Len(s) :
             f[n] = IF Within(s[n], since, until) THEN Append(f[n - 1], s[n]) ELSE f[n - 1]
  BY SelectedSteps
<1> DEFINE N == Len(s)
           From(n) == \A i \in DOMAIN f[n] : \E k \in 1..n : f[n][i] = s[k]
           Up(n) == \A i, j \in DOMAIN f[n] : i < j => f[n][i].ts <= f[n][j].ts
           H == {n \in 0..N : From(n) /\ Up(n)}
<1>2. N \in Nat /\ DOMAIN s = 1..N
  OBVIOUS
<1>3. ASSUME \A i, j \in DOMAIN s : i <= j => s[i].ts <= s[j].ts PROVE Up(N)
  <2>1. 0 \in H
    BY <1>1, <1>2
  <2>2. ASSUME NEW n \in 1..N, n - 1 \in H PROVE n \in H
    <3>1. f[n - 1] \in Seq(SampleSet) /\ n - 1 \in 0..N /\ From(n - 1) /\ Up(n - 1) /\ n \in 0..N
      <4>1. n - 1 \in 0..N /\ n \in 0..N
        BY <1>2
      <4>2. f[n - 1] \in Seq(SampleSet)
        BY <1>1, <4>1
      <4>3. From(n - 1) /\ Up(n - 1)
        <5> HIDE DEF From, Up
        <5> QED
          BY <2>2
      <4> QED
        BY <4>1, <4>2, <4>3
    <3>2. CASE ~Within(s[n], since, until)
      <4>1. f[n] = f[n - 1]
        BY <1>1, <3>2
      <4>2. \A k \in 1..(n - 1) : k \in 1..n
        BY <1>2
      <4> QED
        BY <3>1, <4>1, <4>2
    <3>3. CASE Within(s[n], since, until)
      <4> DEFINE g == f[n - 1]
                 m == Len(g)
      <4>1. f[n] = Append(g, s[n])
        BY <1>1, <3>3
      <4>2. s[n] \in SampleSet
        BY <1>2
      <4>3. /\ m \in Nat /\ DOMAIN g = 1..m /\ DOMAIN f[n] = 1..(m + 1)
            /\ \A i \in 1..m : f[n][i] = g[i]
            /\ f[n][m + 1] = s[n]
            /\ \A i \in 1..(m + 1) : i \in 1..m \/ i = m + 1
        BY <3>1, <4>1, <4>2
      <4>4. \A i \in 1..m : \E k \in 1..(n - 1) : g[i] = s[k]
        BY <3>1, <4>3
      <4>5. \A k \in 1..(n - 1) : k \in 1..n /\ k \in DOMAIN s /\ k <= n
        BY <1>2
      <4>6. From(n)
        <5>1. \A i \in 1..m : \E k \in 1..n : f[n][i] = s[k]
          BY <4>3, <4>4, <4>5
        <5>2. n \in 1..n /\ f[n][m + 1] = s[n]
          BY <1>2, <4>3
        <5> QED
          BY <4>3, <5>1, <5>2
      <4>7. \A i \in 1..m : g[i].ts <= s[n].ts
        BY <1>2, <1>3, <4>4, <4>5
      <4>8. Up(n)
        <5>1. ASSUME NEW i \in DOMAIN f[n], NEW j \in DOMAIN f[n], i < j
              PROVE  f[n][i].ts <= f[n][j].ts
          <6>1. i \in 1..m
            BY <4>3, <5>1
          <6>2. CASE j \in 1..m
            BY <3>1, <4>3, <5>1, <6>1, <6>2
          <6>3. CASE j = m + 1
            BY <4>3, <4>7, <6>1, <6>3
          <6> QED
            BY <4>3, <6>2, <6>3
        <5> QED
          BY <5>1
      <4> QED
        BY <3>1, <4>6, <4>8
    <3> QED
      BY <3>2, <3>3
  <2> HIDE DEF H, N
  <2>3. 0..N \subseteq H
    BY <1>2, <2>1, <2>2, Induct
  <2> QED
    BY <1>2, <2>3 DEF H
<1> QED
  BY <1>1, <1>2, <1>3

-----------------------------------------------------------------------------
(* A bucket holds the number and the bytes of the samples of its time.      *)
In(s, width, t) == {i \in DOMAIN s : Bucket(s[i], width) = t}

LEMMA BucketHolds ==
  ASSUME NEW s \in Seq(SampleSet), NEW width \in Nat \ {0}, NEW t
  PROVE  /\ t \in DOMAIN Bucketed(s, width) <=> In(s, width, t) # {}
         /\ t \in DOMAIN Bucketed(s, width) =>
              /\ Bucketed(s, width)[t].count = Cardinality(In(s, width, t))
              /\ Bucketed(s, width)[t].bytes = Total(s, In(s, width, t))
<1> DEFINE N == Len(s)
           S == In(s, width, t)
           u(n) == Bucket(s[n], width)
           Upto(n) == S \cap 1..n
<1>1. PICK f \in [0..N -> BucketSets] :
        /\ f[N] = Bucketed(s, width)
        /\ f[0] = [x \in {} |-> 0]
        /\ \A n \in 1..N : f[n] = Entered(f[n - 1], u(n), s[n])
  BY BucketedSteps
<1>2. PICK g \in [0..N -> Nat] :
        /\ g[N] = Total(s, S)
        /\ g[0] = 0
        /\ \A n \in 1..N : g[n] = g[n - 1] + (IF n \in S THEN s[n].bytes ELSE 0)
  BY TotalSteps
<1>3. /\ N \in Nat /\ DOMAIN s = 1..N /\ S \subseteq 1..N
      /\ \A n \in 1..N : s[n] \in SampleSet /\ n - 1 \in 0..N /\ n \in 0..N /\ n # 0
      /\ \A n \in 1..N : n \in S <=> u(n) = t
  BY DEF In
<1>4. \A n \in 1..N : u(n) \in Int /\ s[n].bytes \in Nat
  BY <1>3, BucketIs DEF SampleSet
<1> DEFINE Holds(n) == /\ t \in DOMAIN f[n] <=> Upto(n) # {}
                       /\ t \in DOMAIN f[n] => /\ f[n][t].count = Cardinality(Upto(n))
                                               /\ f[n][t].bytes = g[n]
                       /\ t \notin DOMAIN f[n] => g[n] = 0
           H == {n \in 0..N : Holds(n)}
<1> HIDE DEF u, S, N
<1>5. 0 \in H
  <2>1. Upto(0) = {} /\ DOMAIN f[0] = {}
    BY <1>1
  <2> QED
    BY <1>2, <1>3, <2>1
<1>6. ASSUME NEW n \in 1..N, n - 1 \in H PROVE n \in H
  <2>1. /\ f[n - 1] \in BucketSets /\ f[n] = Entered(f[n - 1], u(n), s[n])
        /\ g[n - 1] \in Nat /\ g[n] = g[n - 1] + (IF n \in S THEN s[n].bytes ELSE 0)
        /\ n \in 0..N /\ n - 1 \in 0..N /\ Holds(n - 1)
    BY <1>1, <1>2, <1>3, <1>6
  <2>2. /\ DOMAIN f[n] = DOMAIN f[n - 1] \cup {u(n)}
        /\ \A v \in DOMAIN f[n - 1] \ {u(n)} : f[n][v] = f[n - 1][v]
        /\ u(n) \in DOMAIN f[n - 1] => /\ f[n][u(n)].bytes = f[n - 1][u(n)].bytes + s[n].bytes
                                       /\ f[n][u(n)].count = f[n - 1][u(n)].count + 1
        /\ u(n) \notin DOMAIN f[n - 1] => /\ f[n][u(n)].bytes = s[n].bytes
                                          /\ f[n][u(n)].count = 1
    <3>1. f[n - 1] \in BucketSets /\ u(n) \in Int /\ s[n] \in SampleSet
      BY <1>3, <1>4, <2>1
    <3>2. OneMore(Entered(f[n - 1], u(n), s[n]), f[n - 1], u(n), s[n])
      BY <3>1, EnteredIs
    <3>3. OneMore(f[n], f[n - 1], u(n), s[n])
      BY <2>1, <3>2
    <3> QED
      BY <3>3 DEF OneMore
  <2>3. CASE n \notin S
    <3>1. u(n) # t /\ g[n] = g[n - 1] /\ Upto(n) = Upto(n - 1)
      BY <1>3, <2>1, <2>3
    <3>2. (t \in DOMAIN f[n] <=> t \in DOMAIN f[n - 1]) /\ (t \in DOMAIN f[n] => f[n][t] = f[n - 1][t])
      BY <2>2, <3>1
    <3> HIDE DEF Upto
    <3> QED
      BY <2>1, <3>1, <3>2
  <2>4. CASE n \in S
    <3>1. u(n) = t /\ g[n] = g[n - 1] + s[n].bytes /\ s[n].bytes \in Nat
      BY <1>3, <1>4, <2>1, <2>4
    <3>2. Upto(n) = Upto(n - 1) \cup {n} /\ n \notin Upto(n - 1)
      BY <1>3, <2>4
    <3>3. IsFiniteSet(Upto(n - 1))
      <4>1. IsFiniteSet(1..(n - 1))
        BY <1>3, FS_Interval
      <4>2. Upto(n - 1) \subseteq 1..(n - 1)
        OBVIOUS
      <4> HIDE DEF Upto
      <4> QED
        BY <4>1, <4>2, FS_Subset
    <3> HIDE DEF Upto
    <3>4. Cardinality(Upto(n)) = Cardinality(Upto(n - 1)) + 1 /\ Upto(n) # {}
      BY <3>2, <3>3, FS_AddElement
    <3>5. Cardinality({}) = 0
      BY FS_EmptySet
    <3>6. CASE t \in DOMAIN f[n - 1]
      BY <2>1, <2>2, <3>1, <3>4, <3>6
    <3>7. CASE t \notin DOMAIN f[n - 1]
      <4>1. g[n - 1] = 0 /\ Cardinality(Upto(n - 1)) = 0
        BY <2>1, <3>5, <3>7
      <4>2. g[n] = s[n].bytes /\ Cardinality(Upto(n)) = 1
        BY <3>1, <3>4, <4>1
      <4>3. t \in DOMAIN f[n] /\ f[n][t].bytes = s[n].bytes /\ f[n][t].count = 1
        BY <2>2, <3>1, <3>7
      <4> QED
        BY <2>1, <3>4, <4>2, <4>3
    <3> QED
      BY <3>6, <3>7
  <2> QED
    BY <2>3, <2>4
<1> HIDE DEF H
<1>7. 0..N \subseteq H
  BY <1>3, <1>5, <1>6, Induct
<1>8. Holds(N) /\ Upto(N) = S
  <2>1. N \in 0..N
    BY <1>3
  <2>2. Holds(N)
    BY <1>7, <2>1 DEF H
  <2>3. Upto(N) = S
    BY <1>3
  <2> QED
    BY <2>2, <2>3
<1> QED
  BY <1>1, <1>2, <1>8 DEF S

-----------------------------------------------------------------------------
(* The windows of a series.                                                 *)
LEMMA WindowIs == SeriesInv /\ InOrder => WindowFaithful
<1> SUFFICES ASSUME SeriesInv, InOrder,
                    NEW d \in Device, NEW range \in Ranges, NEW offset \in Offsets
             PROVE  LET shown == Selected(series[d], Since(range, offset), Until(offset))
                        Of(t) == {i \in DOMAIN shown : t <= shown[i].ts /\ shown[i].ts < t + range.bucket} IN
                      /\ back = 0 => \A i, j \in DOMAIN shown : i < j => shown[i].ts <= shown[j].ts
                      /\ range.bucket > 0 =>
                           LET buckets == Bucketed(shown, range.bucket) IN
                             /\ \A i \in DOMAIN shown : \E t \in DOMAIN buckets : i \in Of(t)
                             /\ \A t \in DOMAIN buckets :
                                  /\ buckets[t].count = Cardinality(Of(t))
                                  /\ buckets[t].bytes = Total(shown, Of(t))
  BY DEF WindowFaithful
<1> DEFINE shown == Selected(series[d], Since(range, offset), Until(offset))
           Of(t) == {i \in DOMAIN shown : t <= shown[i].ts /\ shown[i].ts < t + range.bucket}
           buckets == Bucketed(shown, range.bucket)
<1>1. series[d] \in Seq(SampleSet)
  BY DEF SeriesInv
<1>2. shown \in Seq(SampleSet)
  BY <1>1, SelectedIs
<1>3. ASSUME back = 0, NEW i \in DOMAIN shown, NEW j \in DOMAIN shown, i < j
      PROVE  shown[i].ts <= shown[j].ts
  <2>1. \A k, l \in DOMAIN series[d] : k <= l => series[d][k].ts <= series[d][l].ts
    BY <1>3 DEF InOrder
  <2> QED
    BY <1>1, <1>3, <2>1, SelectedIs
<1>4. ASSUME range.bucket > 0
      PROVE  /\ \A i \in DOMAIN shown : \E t \in DOMAIN buckets : i \in Of(t)
             /\ \A t \in DOMAIN buckets :
                  /\ buckets[t].count = Cardinality(Of(t))
                  /\ buckets[t].bytes = Total(shown, Of(t))
  <2> DEFINE w == range.bucket
  <2>1. w \in Nat \ {0}
    BY <1>4, MetricsAssumption
  <2>2. \A i \in DOMAIN shown : shown[i] \in SampleSet
    BY <1>2
  <2> HIDE DEF shown, w
  <2>3. ASSUME NEW i \in DOMAIN shown, NEW t, i \in In(shown, w, t)
        PROVE  t <= shown[i].ts /\ shown[i].ts < t + w
    BY <2>1, <2>2, <2>3, BucketIs DEF In
  <2>4. \A i \in DOMAIN shown : \E t \in DOMAIN buckets : i \in Of(t)
    <3>1. ASSUME NEW i \in DOMAIN shown PROVE \E t \in DOMAIN buckets : i \in Of(t)
      <4> DEFINE t == Bucket(shown[i], w)
      <4>1. i \in In(shown, w, t)
        BY DEF In
      <4> HIDE DEF t
      <4>2. t \in DOMAIN buckets
        BY <1>2, <2>1, <4>1, BucketHolds DEF w
      <4>3. i \in Of(t)
        BY <2>3, <4>1 DEF w
      <4> QED
        BY <4>2, <4>3
    <3> QED
      BY <3>1
  <2>5. ASSUME NEW t \in DOMAIN buckets PROVE Of(t) = In(shown, w, t)
    <3>1. PICK k \in DOMAIN shown : Bucket(shown[k], w) = t
      <4>1. In(shown, w, t) # {}
        BY <1>2, <2>1, <2>5, BucketHolds DEF w
      <4> QED
        BY <4>1 DEF In
    <3>2. \A i \in Of(t) : i \in In(shown, w, t)
      <4>1. ASSUME NEW i \in Of(t) PROVE i \in In(shown, w, t)
        <5>1. i \in DOMAIN shown /\ t <= shown[i].ts /\ shown[i].ts < t + w
          BY <4>1 DEF w
        <5>2. shown[i] \in SampleSet /\ shown[k] \in SampleSet
          BY <2>2, <3>1, <5>1
        <5>3. Bucket(shown[i], w) = t
          BY <2>1, <3>1, <5>1, <5>2, BucketOnly
        <5> QED
          BY <5>1, <5>3 DEF In
      <4> QED
        BY <4>1
    <3>3. \A i \in In(shown, w, t) : i \in Of(t)
      <4>1. In(shown, w, t) \subseteq DOMAIN shown
        BY DEF In
      <4> QED
        BY <2>3, <4>1 DEF w
    <3>4. Of(t) \subseteq In(shown, w, t) /\ In(shown, w, t) \subseteq Of(t)
      BY <3>2, <3>3
    <3> QED
      BY <3>4
  <2>6. ASSUME NEW t \in DOMAIN buckets
        PROVE  /\ buckets[t].count = Cardinality(Of(t))
               /\ buckets[t].bytes = Total(shown, Of(t))
    <3>1. /\ buckets[t].count = Cardinality(In(shown, w, t))
          /\ buckets[t].bytes = Total(shown, In(shown, w, t))
      BY <1>2, <2>1, <2>6, BucketHolds DEF w
    <3>2. Of(t) = In(shown, w, t)
      BY <2>5
    <3> HIDE DEF buckets, Of
    <3> QED
      BY <3>1, <3>2
  <2> QED
    BY <2>4, <2>6
<1> HIDE DEF shown, Of, buckets
<1>5. /\ back = 0 => \A i, j \in DOMAIN shown : i < j => shown[i].ts <= shown[j].ts
      /\ range.bucket > 0 =>
           /\ \A i \in DOMAIN shown : \E t \in DOMAIN buckets : i \in Of(t)
           /\ \A t \in DOMAIN buckets :
                /\ buckets[t].count = Cardinality(Of(t))
                /\ buckets[t].bytes = Total(shown, Of(t))
  BY <1>3, <1>4
<1> QED
  BY <1>5 DEF shown, Of, buckets

(* Every window of the history shows each sample of its times once, in the  *)
(* bucket of its time, with the number and the bytes of the samples of that *)
(* time and no others, whatever the range, the width of the buckets and the *)
(* offset; and a window of samples is in the order of their times as long   *)
(* as the clock was not set back.                                           *)
THEOREM WindowsFaithful == Spec => []WindowFaithful
<1>1. Init => InOrder
  BY DEF Init, InOrder
<1>2. SeriesInv /\ [Next]_vars => SeriesInv'
  BY SeriesStep
<1>3. SeriesInv /\ InOrder /\ [Next]_vars => InOrder'
  BY OrderStep
<1> QED
  BY <1>1, <1>2, <1>3, SeriesInit, WindowIs, PTL DEF Spec
=============================================================================
