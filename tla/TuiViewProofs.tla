---------------------------- MODULE TuiViewProofs ----------------------------
(* Theorems about the client's view, for any filesystems, any number of     *)
(* changes and any interleaving of requests, replies and events: once       *)
(* nothing is under way the view is the server's.                           *)
EXTENDS TuiView, TLAPS, FiniteSetTheorems

-----------------------------------------------------------------------------
(* What travels.                                                            *)
Kinds == {"fs", "subvolumes", "snapshots", "status", "panel", "raw", "tick"}
About == {"snapshots", "status", "panel", "raw"}
Listed == FanOut \cup {"subvolumes"}
EventKinds == {"subvolume", "snapshot", "filesystem"}
Requests == [kind : Kinds, of : Fs \cup {Null}, at : Nat]
Results == {Null} \cup Nat \cup Listings \cup Reports
Replies == [request : Requests, result : Results]
Events == [event : EventKinds]

Distinct(s) == \A i, j \in DOMAIN s : s[i] = s[j] => i = j
Among(s) == {s[i] : i \in DOMAIN s}
GoodListing(l) == l \in Listings /\ Distinct(l.names) /\ l.mounted \subseteq Among(l.names)

GoodRequest(r) == r.kind \in About => r.of \in Fs

GoodReply(m) ==
  /\ GoodRequest(m.request)
  /\ m.request.kind = "fs" => m.result = Null \/ GoodListing(m.result)
  /\ m.request.kind = "subvolumes" => m.result \in (0..changes) \cup {Null}
  /\ m.request.kind \in About =>
       m.result = Null \/ (m.result \in Reports /\ m.result[1] = m.request.of)

Answered(p) == toClient[p] \in Replies
Told(p) == toClient[p] \in Events

(* The server's part.                                                       *)
ServerOK ==
  /\ GoodListing(Listing)
  /\ version \in [Subject -> Nat] /\ version[Subvolumes] <= changes
  /\ <<changes, asked>> \in Budget
  /\ bus \in Seq(EventKinds) /\ Len(bus) <= changes
  /\ missed \subseteq {"fs", "subvolumes"}

TravelOK ==
  /\ toServer \in Seq(Requests) /\ \A q \in DOMAIN toServer : GoodRequest(toServer[q])
  /\ toClient \in Seq(Replies \cup Events)
  /\ \A p \in DOMAIN toClient : Answered(p) => GoodReply(toClient[p])

Views ==
  [fs : Listings, subvolumes : Nat \cup {Null},
   snapshots : SUBSET [label : Fs, of : Reports], strip : [Fs -> Reports \cup {Null}]]
SlotRecords ==
  [shows : Reports \cup {Null}, asked : BOOLEAN, failed : BOOLEAN, stray : BOOLEAN]
PanelOK == panel \in Fs \cup {Null} /\ slots \in [Slots -> SlotRecords]

ClientOK ==
  /\ view \in Views /\ GoodListing(view.fs) /\ view.subvolumes \in (0..changes) \cup {Null}
  /\ pending \in Seq(Fs \cup {Null}) /\ Len(pending) <= Cardinality(Fs)
  /\ PanelOK

(* What an event announces, and what no event will: a list is owed while    *)
(* either is so.                                                            *)
Stirs(e, kind) == (e = "subvolume") = (kind = "subvolumes")

Unseen(kind) == (IF kind = "subvolumes" THEN "subvolumes" ELSE "fs") \in missed
Owed(kind) == (\E i \in DOMAIN bus : Stirs(bus[i], kind)) \/ Unseen(kind)
EventAfter(p, kind) == \E q \in DOMAIN toClient : q > p /\ Told(q) /\ Stirs(toClient[q].event, kind)
Announced(kind) == Owed(kind) \/ EventAfter(0, kind)

(* Another list is on its way, or will be asked for.                        *)
Queued(kind, q) == \E r \in DOMAIN toServer : r > q /\ toServer[r].kind = kind
Replied(kind, p) ==
  \E q \in DOMAIN toClient : q > p /\ Answered(q) /\ toClient[q].request.kind = kind
Coming(kind) == Announced(kind) \/ Queued(kind, 0) \/ Replied(kind, 0)

(* A reply that is out of date is followed by the event, or was missed; of  *)
(* the subvolumes, by one more reply.                                       *)
UpToDate(p) ==
  LET r == toClient[p].request IN
  r.kind \in Listed =>
    \/ toClient[p].result = Answer(r)
    \/ Owed(r.kind) \/ EventAfter(p, r.kind)
    \/ r.kind = "subvolumes" /\ Replied("subvolumes", p)

Fresh == \A p \in DOMAIN toClient : Answered(p) => UpToDate(p)

ListsFollow ==
  /\ view.fs = Listing \/ Coming("fs")
  /\ view.subvolumes = version[Subvolumes] \/ Coming("subvolumes")

(* A query names the filesystem at its position, or one more listing comes  *)
(* after it.                                                                *)
Names == MountedNames(Listing)
Right(r) ==
  /\ r.kind = "snapshots" => r.at \in DOMAIN Names /\ Names[r.at] = r.of
  /\ r.kind = "status" => r.at \in DOMAIN table /\ table[r.at] = r.of /\ r.of \in mounted

Overtaken ==
  /\ \A q \in DOMAIN toServer :
       Right(toServer[q]) \/ Announced("fs") \/ Queued("fs", q)
  /\ \A p \in DOMAIN toClient :
       Answered(p) =>
         Right(toClient[p].request) \/ Announced("fs") \/ Queued("fs", 0) \/ Replied("fs", p)

(* A query about a filesystem is under way.                                 *)
UnderWay(kind, f) ==
  \/ \E q \in DOMAIN toServer : toServer[q].kind = kind /\ toServer[q].of = f
  \/ \E p \in DOMAIN toClient :
       Answered(p) /\ toClient[p].request.kind = kind /\ toClient[p].request.of = f

Labelled(f) == {s \in view.snapshots : s.label = f}
Current(f) == {[label |-> f, of |-> <<f, version[<<f, "snapshots">>]>>]}

SnapshotsFollow ==
  ~Coming("fs") =>
    /\ DOMAIN pending = DOMAIN Names
    /\ \A i \in DOMAIN Names :
         \/ pending[i] = Names[i] /\ UnderWay("snapshots", Names[i])
         \/ pending[i] = Null /\ Labelled(Names[i]) = Current(Names[i])

StripFollows ==
  ~Coming("fs") =>
    \A f \in mounted :
      UnderWay("status", f) \/ view.strip[f] = <<f, version[<<f, "status">>]>>

(* The last query of a slot of the panel is about the filesystem of the     *)
(* panel that is open, unless that one has not asked.                       *)
SlotQueries(k) ==
  /\ \A q \in DOMAIN toServer : toServer[q].kind = k =>
       toServer[q].of = panel \/ Queued(k, q) \/ ~slots[k].asked
  /\ \A p \in DOMAIN toClient : Answered(p) /\ toClient[p].request.kind = k =>
       toClient[p].request.of = panel \/ Queued(k, 0) \/ Replied(k, p) \/ ~slots[k].asked

SlotShows(k) ==
  slots[k].shows # Null /\ slots[k].shows[1] # panel =>
    /\ slots[k].stray
    /\ slots[k].failed \/ ~slots[k].asked \/ Queued(k, 0) \/ Replied(k, 0)

PanelFollows == \A k \in Slots : SlotQueries(k) /\ SlotShows(k)

ViewInv ==
  /\ ServerOK /\ TravelOK /\ ClientOK
  /\ Fresh /\ ListsFollow /\ Overtaken /\ SnapshotsFollow /\ StripFollows
  /\ PanelFollows

-----------------------------------------------------------------------------
(* The entries of a list that are in a set.                                 *)
LEMMA KeptIs ==
  ASSUME NEW T, NEW s \in Seq(T), NEW S
  PROVE  /\ Kept(s, S) \in Seq(T)
         /\ \A k \in DOMAIN Kept(s, S) : \E i \in DOMAIN s : s[i] \in S /\ Kept(s, S)[k] = s[i]
         /\ \A i \in DOMAIN s : s[i] \in S => \E k \in DOMAIN Kept(s, S) : Kept(s, S)[k] = s[i]
         /\ Distinct(s) => Distinct(Kept(s, S))
<1> DEFINE at == {i \in DOMAIN s : s[i] \in S}
           upto(i) == {j \in at : j <= i}
           rank(i) == Cardinality(upto(i))
           pick(k) == CHOOSE i \in at : rank(i) = k
<1>1. DOMAIN s = 1..Len(s) /\ Len(s) \in Nat /\ \A i \in DOMAIN s : s[i] \in T
  OBVIOUS
<1>2. IsFiniteSet(at) /\ Cardinality(at) \in Nat
  <2>1. at \in SUBSET (1..Len(s))
    BY <1>1
  <2>2. IsFiniteSet(1..Len(s))
    BY <1>1, FS_Interval
  <2> QED
    BY <2>1, <2>2, FS_Subset, FS_CardinalityType
<1>3. ASSUME NEW i \in at
      PROVE  IsFiniteSet(upto(i)) /\ rank(i) \in 1..Cardinality(at)
  <2>1. upto(i) \in SUBSET at
    OBVIOUS
  <2>2. IsFiniteSet(upto(i)) /\ rank(i) <= Cardinality(at)
    BY <1>2, <2>1, FS_Subset
  <2>3. rank(i) \in Nat
    BY <2>2, FS_CardinalityType
  <2>4. upto(i) # {}
    <3>1. i <= i
      BY <1>1
    <3> QED
      BY <3>1
  <2>5. rank(i) # 0
    BY <2>2, <2>4, FS_EmptySet
  <2> HIDE DEF at, upto
  <2> QED
    BY <1>2, <2>2, <2>3, <2>5
<1>4. ASSUME NEW i \in at, NEW j \in at, rank(i) = rank(j)
      PROVE  i = j
  <2>1. ASSUME NEW a \in at, NEW b \in at, a < b
        PROVE  rank(a) # rank(b)
    <3>1. upto(a) \in SUBSET upto(b)
      BY <1>1, <2>1
    <3>2. b \in upto(b) /\ b \notin upto(a)
      BY <1>1, <2>1
    <3>3. upto(a) # upto(b)
      BY <3>2
    <3> HIDE DEF upto, at
    <3> QED
      BY <1>3, <3>1, <3>3, FS_Subset
  <2>2. i \in Int /\ j \in Int
    BY <1>1
  <2> HIDE DEF rank, at
  <2>3. i < j \/ j < i \/ i = j
    BY <2>2
  <2> QED
    BY <1>4, <2>1, <2>3
<1> DEFINE kept == Kept(s, S)
<1>5. kept = [k \in 1..Cardinality(at) |-> s[pick(k)]]
  BY DEF Kept
<1>6. ASSUME NEW i \in at
      PROVE  rank(i) \in 1..Cardinality(at) /\ pick(rank(i)) = i
  <2>1. rank(i) \in 1..Cardinality(at)
    BY <1>3
  <2> HIDE DEF rank, at
  <2>2. pick(rank(i)) \in at /\ rank(pick(rank(i))) = rank(i)
    OBVIOUS
  <2> QED
    BY <1>4, <2>1, <2>2
<1>7. {rank(i) : i \in at} = 1..Cardinality(at)
  <2> DEFINE f == [i \in at |-> rank(i)]
             N == 1..Cardinality(at)
  <2>1. f \in Injection(at, N)
    <3>1. f \in [at -> N]
      BY <1>3
    <3>2. \A a, b \in DOMAIN f : f[a] = f[b] => a = b
      <4> HIDE DEF rank, at
      <4> QED
        BY <1>4
    <3> HIDE DEF f
    <3> QED
      BY <3>1, <3>2 DEF Injection, IsInjective
  <2>2. IsFiniteSet(N) /\ Cardinality(N) = Cardinality(at)
    BY <1>2, FS_Interval
  <2>3. f \in Surjection(at, N)
    <3> HIDE DEF f, at, N
    <3> QED
      BY <2>1, <2>2, FS_Injection
  <2>4. \A k \in N : \E i \in at : f[i] = k
    <3> HIDE DEF f, at, N
    <3> QED
      BY <2>3 DEF Surjection
  <2>5. \A i \in at : f[i] = rank(i) /\ rank(i) \in N
    BY <1>3
  <2> HIDE DEF f, at, N, rank
  <2>6. {rank(i) : i \in at} = N
    BY <2>4, <2>5
  <2> QED
    BY <2>6 DEF N
<1>8. ASSUME NEW k \in 1..Cardinality(at)
      PROVE  pick(k) \in at /\ rank(pick(k)) = k
  <2> HIDE DEF rank, at
  <2> QED
    BY <1>7
<1>9. \A i \in at : i \in DOMAIN s /\ s[i] \in S
  OBVIOUS
<1>10. \A i \in DOMAIN s : s[i] \in S => i \in at
  OBVIOUS
<1> HIDE DEF rank, at, pick, kept
<1>11. DOMAIN kept = 1..Cardinality(at) /\ \A k \in DOMAIN kept : kept[k] = s[pick(k)]
  BY <1>5
<1>12. kept \in Seq(T)
  <2>1. kept \in [1..Cardinality(at) -> T]
    BY <1>1, <1>5, <1>8, <1>9
  <2> QED
    BY <1>2, <2>1
<1>13. \A k \in DOMAIN kept : \E i \in DOMAIN s : s[i] \in S /\ kept[k] = s[i]
  BY <1>8, <1>9, <1>11
<1>14. \A i \in DOMAIN s : s[i] \in S => \E k \in DOMAIN kept : kept[k] = s[i]
  BY <1>6, <1>10, <1>11
<1>15. Distinct(s) => Distinct(kept)
  BY <1>8, <1>9, <1>11 DEF Distinct
<1> QED
  BY <1>12, <1>13, <1>14, <1>15 DEF kept

(* A list without repetition is no longer than there are values.            *)
LEMMA DistinctIsShort ==
  ASSUME NEW T, IsFiniteSet(T), NEW s \in Seq(T), Distinct(s)
  PROVE  Len(s) <= Cardinality(T)
<1>1. s \in Injection(1..Len(s), T)
  BY DEF Injection, IsInjective, Distinct
<1>2. Cardinality(1..Len(s)) <= Cardinality(T)
  BY <1>1, FS_Injection
<1>3. Len(s) \in Nat
  OBVIOUS
<1>4. Cardinality(1..Len(s)) = Len(s)
  <2>1. 1 \in Int /\ Len(s) \in Int
    BY <1>3
  <2>2. Cardinality(1..Len(s)) = IF 1 > Len(s) THEN 0 ELSE Len(s) - 1 + 1
    BY <2>1, FS_Interval
  <2> QED
    BY <1>3, <2>2
<1> QED
  BY <1>2, <1>4

(* What the client makes of a listing.                                      *)
LEMMA MountedIs ==
  ASSUME NEW l, GoodListing(l)
  PROVE  /\ MountedNames(l) \in Seq(Fs) /\ Distinct(MountedNames(l))
         /\ \A k \in DOMAIN MountedNames(l) : MountedNames(l)[k] \in l.mounted
         /\ \A f \in l.mounted : \E k \in DOMAIN MountedNames(l) : MountedNames(l)[k] = f
         /\ Len(MountedNames(l)) <= Cardinality(Fs)
<1>1. l.names \in Seq(Fs) /\ Distinct(l.names)
      /\ \A f \in l.mounted : \E i \in DOMAIN l.names : l.names[i] = f
  BY DEF GoodListing, Listings, Among
<1>2. /\ MountedNames(l) \in Seq(Fs) /\ Distinct(MountedNames(l))
      /\ \A k \in DOMAIN MountedNames(l) : MountedNames(l)[k] \in l.mounted
      /\ \A f \in l.mounted : \E k \in DOMAIN MountedNames(l) : MountedNames(l)[k] = f
  <2>1. MountedNames(l) = Kept(l.names, l.mounted)
    BY DEF MountedNames
  <2> QED
    BY <1>1, <2>1, KeptIs
<1>3. Len(MountedNames(l)) <= Cardinality(Fs)
  BY <1>2, TuiViewAssumption, DistinctIsShort
<1> QED
  BY <1>2, <1>3

LEMMA RequestIs ==
  \A kind, f, at : /\ Request(kind, f, at).kind = kind
                   /\ Request(kind, f, at).of = f
                   /\ Request(kind, f, at).at = at
                   /\ kind \in Kinds /\ f \in Fs \cup {Null} /\ at \in Nat
                      => Request(kind, f, at) \in Requests
BY DEF Request, Requests

LEMMA SnapshotsIs ==
  ASSUME NEW l, GoodListing(l)
  PROVE  /\ Snapshots(MountedNames(l)) \in Seq(Requests)
         /\ DOMAIN Snapshots(MountedNames(l)) = DOMAIN MountedNames(l)
         /\ \A i \in DOMAIN MountedNames(l) :
              /\ Snapshots(MountedNames(l))[i].kind = "snapshots"
              /\ Snapshots(MountedNames(l))[i].of = MountedNames(l)[i]
              /\ Snapshots(MountedNames(l))[i].at = i
<1> DEFINE names == MountedNames(l)
<1>1. names \in Seq(Fs)
  BY MountedIs
<1> HIDE DEF names
<1>2. Snapshots(names) = [i \in 1..Len(names) |-> Request("snapshots", names[i], i)]
  BY <1>1 DEF Snapshots
<1>3. \A i \in 1..Len(names) :
        Request("snapshots", names[i], i) \in Requests
  BY <1>1, RequestIs DEF Kinds
<1>4. Snapshots(names) \in [1..Len(names) -> Requests] /\ Len(names) \in Nat
  BY <1>1, <1>2, <1>3
<1>5. Snapshots(names) \in Seq(Requests)
  BY <1>4
<1>6. DOMAIN names = 1..Len(names)
  BY <1>1
<1> QED
  BY <1>2, <1>5, <1>6, RequestIs DEF names

LEMMA StripIs ==
  ASSUME NEW l, GoodListing(l)
  PROVE  /\ Strip(l) \in Seq(Requests)
         /\ \A q \in DOMAIN Strip(l) :
              /\ Strip(l)[q].kind = "status"
              /\ Strip(l)[q].at \in DOMAIN l.names /\ l.names[Strip(l)[q].at] = Strip(l)[q].of
              /\ Strip(l)[q].of \in l.mounted
         /\ \A f \in l.mounted : \E q \in DOMAIN Strip(l) : Strip(l)[q].of = f
<1> DEFINE names == MountedNames(l)
           at(f) == CHOOSE i \in DOMAIN l.names : l.names[i] = f
<1>1. /\ names \in Seq(Fs)
      /\ \A k \in DOMAIN names : names[k] \in l.mounted
      /\ \A f \in l.mounted : \E k \in DOMAIN names : names[k] = f
  BY MountedIs
<1>2. \A f \in l.mounted : at(f) \in DOMAIN l.names /\ l.names[at(f)] = f
  BY DEF GoodListing, Among
<1>3. DOMAIN l.names \subseteq Nat
  BY DEF GoodListing, Listings
<1>4. Strip(l) = [i \in DOMAIN names |-> Request("status", names[i], at(names[i]))]
  BY DEF Strip
<1> HIDE DEF names, at
<1>5. DOMAIN names = 1..Len(names) /\ Len(names) \in Nat
  BY <1>1
<1>6. \A i \in DOMAIN names : Request("status", names[i], at(names[i])) \in Requests
  BY <1>1, <1>2, <1>3, RequestIs DEF Kinds
<1>7. Strip(l) \in [1..Len(names) -> Requests]
  BY <1>4, <1>5, <1>6
<1>8. Strip(l) \in Seq(Requests)
  BY <1>5, <1>7
<1> QED
  BY <1>1, <1>2, <1>4, <1>8, RequestIs

-----------------------------------------------------------------------------
(* Replies and events are told apart, and what a reply may say.             *)
LEMMA Apart ==
  /\ \A m \in Replies : /\ "request" \in DOMAIN m /\ "event" \notin DOMAIN m /\ m \notin Events
                        /\ m.request \in Requests /\ m.result \in Results
  /\ \A m \in Events : /\ "event" \in DOMAIN m /\ "request" \notin DOMAIN m
                       /\ m.event \in EventKinds
BY DEF Replies, Events

LEMMA NullApart ==
  Null \notin Fs /\ Null \notin Nat /\ Null \notin Listings /\ Null \notin Reports
BY TuiViewAssumption

LEMMA AnswerIs ==
  ASSUME NEW r
  PROVE  /\ r.kind = "fs" => Answer(r) = Listing
         /\ r.kind = "subvolumes" => Answer(r) = version[Subvolumes]
         /\ r.kind = "snapshots" /\ r.of \in mounted
              => Answer(r) = <<r.of, version[<<r.of, "snapshots">>]>>
         /\ r.kind \in {"status", "panel", "raw"} /\ r.of \in mounted
              => Answer(r) = <<r.of, version[<<r.of, "status">>]>>
         /\ r.kind \in About /\ r.of \notin mounted => Answer(r) = Null
         /\ r.kind = "tick" => Answer(r) = 0
BY DEF Answer, About

LEMMA SubjectHas ==
  ASSUME ServerOK
  PROVE  /\ mounted \subseteq Fs
         /\ version[Subvolumes] \in 0..changes
         /\ changes \in Nat /\ asked \in Nat
         /\ \A f \in mounted : /\ <<f, version[<<f, "snapshots">>]>> \in Reports
                               /\ <<f, version[<<f, "status">>]>> \in Reports
         /\ Listing \in Listings
<1>1. mounted \subseteq Fs /\ Listing \in Listings
  BY DEF ServerOK, GoodListing, Listing, Listings
<1>2. changes \in Nat /\ asked \in Nat
  BY TuiViewAssumption DEF ServerOK
<1>3. Subvolumes \in Subject /\ \A f \in Fs : <<f, "snapshots">> \in Subject /\ <<f, "status">> \in Subject
  BY DEF Subject
<1>4. version[Subvolumes] \in 0..changes
  BY <1>2, <1>3 DEF ServerOK
<1> QED
  BY <1>1, <1>2, <1>3, <1>4 DEF ServerOK, Reports

LEMMA AnswerGood ==
  ASSUME ServerOK, NEW r \in Requests, GoodRequest(r)
  PROVE  [request |-> r, result |-> Answer(r)] \in Replies
         /\ GoodReply([request |-> r, result |-> Answer(r)])
<1>1. r.kind \in Kinds /\ (r.kind \in About => r.of \in Fs)
  BY DEF Requests, GoodRequest
<1>2. CASE r.kind = "fs"
  <2>1. Answer(r) \in Listings /\ GoodListing(Answer(r))
    BY <1>2, AnswerIs, SubjectHas DEF ServerOK
  <2> QED
    BY <1>2, <2>1 DEF Replies, Results, GoodReply, GoodRequest, About
<1>3. CASE r.kind = "subvolumes"
  <2>1. Answer(r) \in 0..changes /\ changes \in Nat
    BY <1>3, AnswerIs, SubjectHas
  <2> QED
    BY <1>3, <2>1 DEF Replies, Results, GoodReply, GoodRequest, About
<1>4. CASE r.kind \in About
  <2>1. Answer(r) = Null \/ (Answer(r) \in Reports /\ Answer(r)[1] = r.of)
    <3>1. CASE r.of \notin mounted
      BY <1>4, <3>1, AnswerIs
    <3>2. CASE r.of \in mounted /\ r.kind = "snapshots"
      <4>1. Answer(r) = <<r.of, version[<<r.of, "snapshots">>]>>
        BY <3>2, AnswerIs
      <4>2. <<r.of, version[<<r.of, "snapshots">>]>> \in Reports
        BY <3>2, SubjectHas
      <4> QED
        BY <4>1, <4>2
    <3>3. CASE r.of \in mounted /\ r.kind \in {"status", "panel", "raw"}
      <4>1. Answer(r) = <<r.of, version[<<r.of, "status">>]>>
        BY <3>3, AnswerIs
      <4>2. <<r.of, version[<<r.of, "status">>]>> \in Reports
        BY <3>3, SubjectHas
      <4> QED
        BY <4>1, <4>2
    <3> QED
      BY <1>4, <3>1, <3>2, <3>3 DEF About
  <2> QED
    BY <1>4, <2>1 DEF Replies, Results, GoodReply, GoodRequest, About
<1>5. CASE r.kind = "tick"
  <2>1. Answer(r) = 0 /\ 0 \in Nat
    BY <1>5, AnswerIs
  <2>2. [request |-> r, result |-> Answer(r)] \in Replies
    BY <2>1 DEF Replies, Results
  <2> QED
    BY <1>5, <2>2 DEF GoodReply, GoodRequest, About
<1> QED
  BY <1>1, <1>2, <1>3, <1>4, <1>5 DEF Kinds, About

LEMMA RefusalGood ==
  ASSUME NEW r \in Requests, GoodRequest(r)
  PROVE  [request |-> r, result |-> Null] \in Replies
         /\ GoodReply([request |-> r, result |-> Null])
BY DEF Replies, Results, GoodReply

-----------------------------------------------------------------------------
LEMMA InitHolds == Init => ViewInv
<1> SUFFICES ASSUME Init
             PROVE  ViewInv
  OBVIOUS
<1> USE DEF Init
<1> DEFINE n == Cardinality(Fs)
<1>1. n \in Nat
  BY TuiViewAssumption, FS_CardinalityType
<1>2. table \in Seq(Fs) /\ Distinct(table) /\ Among(table) = Fs
  <2>1. table \in [1..n -> Fs] /\ Distinct(table) /\ DOMAIN table = 1..n
    BY DEF Distinct
  <2>2. table \in Injection(1..n, Fs)
    BY <2>1 DEF Injection, IsInjective, Distinct
  <2>3. Cardinality(1..n) = Cardinality(Fs)
    BY <1>1, FS_Interval
  <2>4. table \in Surjection(1..n, Fs)
    BY <2>2, <2>3, TuiViewAssumption, FS_Injection
  <2>5. Among(table) = Fs
    BY <2>1, <2>4 DEF Surjection, Among
  <2> QED
    BY <1>1, <2>1, <2>5
<1>3. GoodListing(Listing)
  BY <1>2 DEF GoodListing, Listing, Listings
<1>4. ServerOK
  BY <1>3, TuiViewAssumption DEF ServerOK, Subvolumes, Subject
<1>5. /\ toServer \in Seq(Requests) /\ DOMAIN toServer = {1, 2}
      /\ toServer[1].kind = "fs" /\ toServer[2].kind = "subvolumes"
  <2>1. ListFs \in Requests /\ ListSubvolumes \in Requests
    BY RequestIs DEF ListFs, ListSubvolumes, Kinds
  <2>2. toServer = <<ListFs, ListSubvolumes>>
    BY DEF RefreshAll
  <2>3. ListFs.kind = "fs" /\ ListSubvolumes.kind = "subvolumes"
    BY RequestIs DEF ListFs, ListSubvolumes
  <2> QED
    BY <2>1, <2>2, <2>3
<1>6. TravelOK
  BY <1>5 DEF TravelOK, GoodRequest, About
<1>7. ClientOK
  <2>1. [names |-> <<>>, mounted |-> {}] \in Listings
    BY DEF Listings
  <2>2. GoodListing([names |-> <<>>, mounted |-> {}])
    BY <2>1 DEF GoodListing, Distinct
  <2>3. view \in Views
    BY <2>1 DEF Views
  <2>4. PanelOK
    BY DEF PanelOK, SlotRecords, EmptySlot
  <2>5. view.fs = [names |-> <<>>, mounted |-> {}] /\ view.subvolumes = Null
    OBVIOUS
  <2>6. GoodListing(view.fs)
    BY <2>2, <2>5
  <2> QED
    BY <1>1, <2>3, <2>4, <2>5, <2>6 DEF ClientOK
<1>8. Queued("fs", 0) /\ Queued("subvolumes", 0)
  BY <1>5 DEF Queued
<1>9. Fresh /\ ListsFollow /\ SnapshotsFollow /\ StripFollows
  BY <1>8 DEF Fresh, ListsFollow, SnapshotsFollow, StripFollows, Coming
<1>10. Overtaken
  BY <1>5 DEF Overtaken, Right
<1>11. PanelFollows
  BY <1>5 DEF PanelFollows, SlotQueries, SlotShows, Slots, EmptySlot
<1> QED
  BY <1>4, <1>6, <1>7, <1>9, <1>10, <1>11 DEF ViewInv

-----------------------------------------------------------------------------
(* The traffic: what each kind of step does to what is under way.           *)
(* The server puts an event on the bus, or loses it.                        *)
LEMMA ChangeMoves ==
  ASSUME ServerOK, NEW e \in EventKinds, NEW also \in SUBSET {"fs", "subvolumes"},
         Changed(e, also)
  PROVE  /\ bus' \in Seq(EventKinds) /\ Len(bus') <= Len(bus) + 1
         /\ missed' \subseteq {"fs", "subvolumes"} /\ also \subseteq missed'
         /\ \A kind : Owed(kind) => Owed(kind)'
         /\ \A kind : Stirs(e, kind) => Owed(kind)'
         /\ \A kind : \A p : EventAfter(p, kind) <=> EventAfter(p, kind)'
         /\ \A kind : \A q : Queued(kind, q) <=> Queued(kind, q)'
         /\ \A kind : \A p : Replied(kind, p) <=> Replied(kind, p)'
         /\ \A kind : \A f : UnderWay(kind, f) <=> UnderWay(kind, f)'
<1>1. bus \in Seq(EventKinds) /\ Len(bus) \in Nat /\ missed \subseteq {"fs", "subvolumes"}
  BY DEF ServerOK
<1>2. UNCHANGED <<toServer, toClient>> /\ ListOf(e) \in {"fs", "subvolumes"}
  BY DEF Changed, ListOf
<1>3. ASSUME bus' = Append(bus, e), missed' = missed \cup also
      PROVE  /\ bus' \in Seq(EventKinds) /\ Len(bus') <= Len(bus) + 1
             /\ missed' \subseteq {"fs", "subvolumes"} /\ also \subseteq missed'
             /\ \A kind : Owed(kind) => Owed(kind)'
             /\ \A kind : Stirs(e, kind) => Owed(kind)'
  <2>1. /\ bus' \in Seq(EventKinds) /\ Len(bus') = Len(bus) + 1 /\ DOMAIN bus' = 1..Len(bus) + 1
        /\ \A i \in DOMAIN bus : i \in DOMAIN bus' /\ bus'[i] = bus[i]
        /\ Len(bus) + 1 \in DOMAIN bus' /\ bus'[Len(bus) + 1] = e
    BY <1>1, <1>3
  <2>2. \A kind : Owed(kind) => Owed(kind)'
    BY <1>3, <2>1 DEF Owed, Unseen
  <2>3. \A kind : Stirs(e, kind) => Owed(kind)'
    BY <2>1 DEF Owed
  <2>4. Len(bus') <= Len(bus) + 1
    BY <1>1, <2>1
  <2>5. missed' \subseteq {"fs", "subvolumes"} /\ also \subseteq missed'
    BY <1>1, <1>3
  <2> QED
    BY <2>1, <2>2, <2>3, <2>4, <2>5
<1>4. ASSUME bus' = bus, missed' = missed \cup also \cup {ListOf(e)}
      PROVE  /\ bus' \in Seq(EventKinds) /\ Len(bus') <= Len(bus) + 1
             /\ missed' \subseteq {"fs", "subvolumes"} /\ also \subseteq missed'
             /\ \A kind : Owed(kind) => Owed(kind)'
             /\ \A kind : Stirs(e, kind) => Owed(kind)'
  <2>1. Len(bus') <= Len(bus) + 1
    BY <1>1, <1>4
  <2>2. \A kind : Owed(kind) => Owed(kind)'
    BY <1>4 DEF Owed, Unseen
  <2>3. \A kind : Stirs(e, kind) => Owed(kind)'
    BY <1>4 DEF Owed, Unseen, Stirs, ListOf
  <2>4. missed' \subseteq {"fs", "subvolumes"} /\ also \subseteq missed'
    BY <1>1, <1>2, <1>4
  <2> QED
    BY <1>1, <1>4, <2>1, <2>2, <2>3, <2>4
<1>5. /\ bus' \in Seq(EventKinds) /\ Len(bus') <= Len(bus) + 1
      /\ missed' \subseteq {"fs", "subvolumes"} /\ also \subseteq missed'
      /\ \A kind : Owed(kind) => Owed(kind)'
      /\ \A kind : Stirs(e, kind) => Owed(kind)'
  BY <1>3, <1>4 DEF Changed
<1>6. \A kind : \A p : EventAfter(p, kind) <=> EventAfter(p, kind)'
  BY <1>2 DEF EventAfter, Told
<1>7. \A kind : \A q : Queued(kind, q) <=> Queued(kind, q)'
  BY <1>2 DEF Queued
<1>8. \A kind : \A p : Replied(kind, p) <=> Replied(kind, p)'
  BY <1>2 DEF Replied, Answered
<1>9. \A kind : \A f : UnderWay(kind, f) <=> UnderWay(kind, f)'
  BY <1>2 DEF UnderWay, Answered
<1> QED
  BY <1>5, <1>6, <1>7, <1>8, <1>9

(* The server answers the next request, or refuses it.                      *)
LEMMA ReplyMoves ==
  ASSUME TravelOK, NEW result, ReplyWith(result),
         NEW m \in Replies, m = [request |-> Head(toServer), result |-> result]
  PROVE  /\ toServer # <<>> /\ Head(toServer) = toServer[1] /\ 1 \in DOMAIN toServer
         /\ m.request = toServer[1] /\ m.result = result
         /\ toServer' \in Seq(Requests)
         /\ \A q \in DOMAIN toServer' : q + 1 \in DOMAIN toServer /\ toServer'[q] = toServer[q + 1]
         /\ toClient' \in Seq(Replies \cup Events)
         /\ DOMAIN toClient' = DOMAIN toClient \cup {Len(toClient) + 1}
         /\ \A p \in DOMAIN toClient : toClient'[p] = toClient[p]
         /\ toClient'[Len(toClient) + 1] = m
         /\ \A kind : \A p : EventAfter(p, kind) <=> EventAfter(p, kind)'
         /\ \A kind : \A q \in Nat : Queued(kind, q + 1) => Queued(kind, q)'
         /\ \A kind : \A p \in 0..Len(toClient) :
              Replied(kind, p) \/ Queued(kind, 0) => Replied(kind, p)' \/ Queued(kind, 0)'
         /\ \A kind : Replied(kind, 0)' \/ Queued(kind, 0)' => Replied(kind, 0) \/ Queued(kind, 0)
         /\ \A kind : \A f : UnderWay(kind, f) => UnderWay(kind, f)'
<1>1. toServer \in Seq(Requests) /\ toClient \in Seq(Replies \cup Events)
  BY DEF TravelOK
<1>2. /\ toServer # <<>> /\ toServer' = Tail(toServer) /\ toClient' = Append(toClient, m)
  BY DEF ReplyWith
<1>3. Len(toServer) \in Nat /\ Len(toServer) > 0 /\ DOMAIN toServer = 1..Len(toServer)
  BY <1>1, <1>2
<1>4. Head(toServer) = toServer[1] /\ 1 \in DOMAIN toServer /\ Head(toServer) \in Requests
  BY <1>1, <1>3
<1>5. m \in Replies /\ m.request = Head(toServer) /\ m.result = result
  OBVIOUS
<1>6. /\ toServer' \in Seq(Requests) /\ DOMAIN toServer' = 1..Len(toServer) - 1
      /\ \A q \in DOMAIN toServer' : q + 1 \in DOMAIN toServer /\ toServer'[q] = toServer[q + 1]
  BY <1>1, <1>2, <1>3
<1>7. \A q \in DOMAIN toServer : q > 1 => q - 1 \in DOMAIN toServer' /\ toServer'[q - 1] = toServer[q]
  BY <1>3, <1>6
<1> DEFINE n == Len(toClient) + 1
<1>8. /\ toClient' \in Seq(Replies \cup Events)
      /\ DOMAIN toClient' = DOMAIN toClient \cup {n}
      /\ \A p \in DOMAIN toClient : toClient'[p] = toClient[p]
      /\ toClient'[n] = m
      /\ \A p \in 0..Len(toClient) : n > p /\ p \in Nat
      /\ n > 0 /\ DOMAIN toClient = 1..Len(toClient) /\ Len(toClient) \in Nat
  BY <1>1, <1>2, <1>5
<1> HIDE DEF n
<1>9. m.request = toServer[1] /\ m \in Replies /\ m \notin Events
  BY <1>4, <1>5, Apart
<1>11. \A kind : \A p : EventAfter(p, kind) <=> EventAfter(p, kind)'
  BY <1>8, <1>9 DEF EventAfter, Told
<1>12. \A kind : \A q \in Nat : Queued(kind, q + 1) => Queued(kind, q)'
  <2> SUFFICES ASSUME NEW kind, NEW q \in Nat, Queued(kind, q + 1)
               PROVE  Queued(kind, q)'
    OBVIOUS
  <2>1. PICK r \in DOMAIN toServer : r > q + 1 /\ toServer[r].kind = kind
    BY DEF Queued
  <2>2. r > 1 /\ r - 1 > q
    BY <1>3, <2>1
  <2> QED
    BY <1>7, <2>1, <2>2 DEF Queued
<1>13. \A kind : \A p \in 0..Len(toClient) :
         Replied(kind, p) \/ Queued(kind, 0) => Replied(kind, p)' \/ Queued(kind, 0)'
  <2> SUFFICES ASSUME NEW kind, NEW p \in 0..Len(toClient), Replied(kind, p) \/ Queued(kind, 0)
               PROVE  Replied(kind, p)' \/ Queued(kind, 0)'
    OBVIOUS
  <2>1. CASE Replied(kind, p)
    BY <1>8, <2>1 DEF Replied, Answered
  <2>2. CASE Queued(kind, 0)
    <3>1. PICK r \in DOMAIN toServer : toServer[r].kind = kind
      BY <2>2 DEF Queued
    <3>2. CASE r = 1
      <4>1. n \in DOMAIN toClient' /\ n > p /\ toClient'[n] \in Replies /\ toClient'[n].request.kind = kind
        BY <1>8, <1>9, <3>1, <3>2
      <4> QED
        BY <4>1 DEF Replied, Answered
    <3>3. CASE r # 1
      <4>1. r > 1 /\ r - 1 > 0
        BY <1>3, <3>3
      <4> QED
        BY <1>7, <3>1, <4>1 DEF Queued
    <3> QED
      BY <3>2, <3>3
  <2> QED
    BY <2>1, <2>2
<1>14. \A kind : Replied(kind, 0)' \/ Queued(kind, 0)' => Replied(kind, 0) \/ Queued(kind, 0)
  <2> SUFFICES ASSUME NEW kind, Replied(kind, 0)' \/ Queued(kind, 0)'
               PROVE  Replied(kind, 0) \/ Queued(kind, 0)
    OBVIOUS
  <2>1. CASE Replied(kind, 0)'
    <3>1. PICK p \in DOMAIN toClient' : toClient'[p] \in Replies /\ toClient'[p].request.kind = kind
      BY <2>1 DEF Replied, Answered
    <3>2. CASE p = n
      BY <1>3, <1>4, <1>8, <1>9, <3>1, <3>2 DEF Queued
    <3>3. CASE p \in DOMAIN toClient
      BY <1>8, <3>1, <3>3 DEF Replied, Answered
    <3> QED
      BY <1>8, <3>2, <3>3
  <2>2. CASE Queued(kind, 0)'
    BY <1>3, <1>6, <2>2 DEF Queued
  <2> QED
    BY <2>1, <2>2
<1>15. \A kind : \A f : UnderWay(kind, f) => UnderWay(kind, f)'
  <2> SUFFICES ASSUME NEW kind, NEW f, UnderWay(kind, f)
               PROVE  UnderWay(kind, f)'
    OBVIOUS
  <2>1. CASE \E q \in DOMAIN toServer : toServer[q].kind = kind /\ toServer[q].of = f
    <3>1. PICK q \in DOMAIN toServer : toServer[q].kind = kind /\ toServer[q].of = f
      BY <2>1
    <3>2. CASE q = 1
      BY <1>8, <1>9, <3>1, <3>2 DEF UnderWay, Answered
    <3>3. CASE q # 1
      BY <1>3, <1>7, <3>1, <3>3 DEF UnderWay
    <3> QED
      BY <3>2, <3>3
  <2>2. CASE ~\E q \in DOMAIN toServer : toServer[q].kind = kind /\ toServer[q].of = f
    BY <1>8, <2>2 DEF UnderWay, Answered
  <2> QED
    BY <2>1, <2>2
<1> QED
  BY <1>2, <1>4, <1>5, <1>6, <1>8, <1>9, <1>11, <1>12, <1>13, <1>14, <1>15 DEF n

(* An event is sent to the client.                                          *)
LEMMA ForwardMoves ==
  ASSUME ServerOK, TravelOK, Forward
  PROVE  /\ bus' \in Seq(EventKinds) /\ Len(bus') <= Len(bus)
         /\ toClient' \in Seq(Replies \cup Events)
         /\ DOMAIN toClient' = DOMAIN toClient \cup {Len(toClient) + 1}
         /\ \A p \in DOMAIN toClient : toClient'[p] = toClient[p]
         /\ toClient'[Len(toClient) + 1] \in Events
         /\ \A kind : \A p \in 0..Len(toClient) :
              Owed(kind) \/ EventAfter(p, kind) => Owed(kind)' \/ EventAfter(p, kind)'
         /\ \A kind : Owed(kind)' \/ EventAfter(0, kind)' => Owed(kind) \/ EventAfter(0, kind)
         /\ \A kind : \A q : Queued(kind, q) <=> Queued(kind, q)'
         /\ \A kind : \A p : Replied(kind, p) <=> Replied(kind, p)'
         /\ \A kind : \A f : UnderWay(kind, f) <=> UnderWay(kind, f)'
<1>1. bus \in Seq(EventKinds) /\ toClient \in Seq(Replies \cup Events)
  BY DEF ServerOK, TravelOK
<1> DEFINE m == [event |-> Head(bus)]
<1>2. /\ bus # <<>> /\ bus' = Tail(bus) /\ toClient' = Append(toClient, m) /\ toServer' = toServer
      /\ missed' = missed
  BY DEF Forward
<1>3. Len(bus) \in Nat /\ Len(bus) > 0 /\ DOMAIN bus = 1..Len(bus) /\ 1 \in DOMAIN bus
      /\ Head(bus) = bus[1] /\ Head(bus) \in EventKinds
  BY <1>1, <1>2
<1>4. m \in Events /\ m.event = bus[1] /\ m \notin Replies
  BY <1>3, Apart DEF Events
<1> HIDE DEF m
<1>5. /\ bus' \in Seq(EventKinds) /\ DOMAIN bus' = 1..Len(bus) - 1 /\ Len(bus') <= Len(bus)
      /\ \A q \in DOMAIN bus' : q + 1 \in DOMAIN bus /\ bus'[q] = bus[q + 1]
  BY <1>1, <1>2, <1>3
<1>6. \A q \in DOMAIN bus : q # 1 => q - 1 \in DOMAIN bus' /\ bus'[q - 1] = bus[q]
  BY <1>3, <1>5
<1> DEFINE n == Len(toClient) + 1
<1>7. /\ toClient' \in Seq(Replies \cup Events)
      /\ DOMAIN toClient' = DOMAIN toClient \cup {n}
      /\ \A p \in DOMAIN toClient : toClient'[p] = toClient[p]
      /\ toClient'[n] = m
      /\ \A p \in 0..Len(toClient) : n > p /\ p \in Nat
      /\ n > 0 /\ DOMAIN toClient = 1..Len(toClient) /\ Len(toClient) \in Nat
  BY <1>1, <1>2, <1>4
<1> HIDE DEF n
<1>8. \A kind : \A p \in 0..Len(toClient) :
        Owed(kind) \/ EventAfter(p, kind) => Owed(kind)' \/ EventAfter(p, kind)'
  <2> SUFFICES ASSUME NEW kind, NEW p \in 0..Len(toClient), Owed(kind) \/ EventAfter(p, kind)
               PROVE  Owed(kind)' \/ EventAfter(p, kind)'
    OBVIOUS
  <2>1. CASE EventAfter(p, kind)
    BY <1>7, <2>1 DEF EventAfter, Told
  <2>2. CASE Unseen(kind)
    BY <1>2, <2>2 DEF Owed, Unseen
  <2>3. CASE \E i \in DOMAIN bus : Stirs(bus[i], kind)
    <3>1. PICK i \in DOMAIN bus : Stirs(bus[i], kind)
      BY <2>3
    <3>2. CASE i = 1
      BY <1>4, <1>7, <3>1, <3>2 DEF EventAfter, Told
    <3>3. CASE i # 1
      BY <1>6, <3>1, <3>3 DEF Owed
    <3> QED
      BY <3>2, <3>3
  <2> QED
    BY <2>1, <2>2, <2>3 DEF Owed
<1>9. \A kind : Owed(kind)' \/ EventAfter(0, kind)' => Owed(kind) \/ EventAfter(0, kind)
  <2> SUFFICES ASSUME NEW kind, Owed(kind)' \/ EventAfter(0, kind)'
               PROVE  Owed(kind) \/ EventAfter(0, kind)
    OBVIOUS
  <2>1. CASE Owed(kind)'
    BY <1>2, <1>5, <2>1 DEF Owed, Unseen
  <2>2. CASE EventAfter(0, kind)'
    BY <1>3, <1>4, <1>7, <2>2 DEF EventAfter, Told, Owed
  <2> QED
    BY <2>1, <2>2
<1>10. \A kind : \A q : Queued(kind, q) <=> Queued(kind, q)'
  BY <1>2 DEF Queued
<1>11. \A kind : \A p : Replied(kind, p) <=> Replied(kind, p)'
  BY <1>4, <1>7 DEF Replied, Answered
<1>12. \A kind : \A f : UnderWay(kind, f) <=> UnderWay(kind, f)'
  BY <1>2, <1>4, <1>7 DEF UnderWay, Answered
<1> QED
  BY <1>4, <1>5, <1>7, <1>8, <1>9, <1>10, <1>11, <1>12 DEF n

(* Requests are added to those under way.                                   *)
LEMMA AskMoves ==
  ASSUME TravelOK, NEW rs \in Seq(Requests), toServer' = toServer \o rs
  PROVE  /\ toServer' \in Seq(Requests)
         /\ \A q \in DOMAIN toServer : q \in DOMAIN toServer' /\ toServer'[q] = toServer[q]
         /\ \A q \in DOMAIN toServer' :
              q \in DOMAIN toServer \/ \E r \in DOMAIN rs : toServer'[q] = rs[r]
         /\ \A kind : \A q : Queued(kind, q) => Queued(kind, q)'
         /\ \A r \in DOMAIN rs : \A kind : rs[r].kind = kind => \A q \in 0..Len(toServer) : Queued(kind, q)'
         /\ \A r \in DOMAIN rs : \E q \in DOMAIN toServer' : toServer'[q] = rs[r]
<1>1. toServer \in Seq(Requests)
  BY DEF TravelOK
<1> DEFINE n == Len(toServer)
           m == Len(rs)
<1>2. n \in Nat /\ m \in Nat /\ DOMAIN toServer = 1..n /\ DOMAIN rs = 1..m
  BY <1>1
<1>3. /\ toServer' \in Seq(Requests) /\ DOMAIN toServer' = 1..n + m
      /\ \A q \in 1..n : toServer'[q] = toServer[q]
      /\ \A r \in 1..m : toServer'[n + r] = rs[r]
  BY <1>1
<1> HIDE DEF n, m
<1>4. \A q \in 1..n : q \in 1..n + m
  BY <1>2
<1>5. ASSUME NEW q \in 1..n + m, q \notin 1..n
      PROVE  \E r \in 1..m : toServer'[q] = rs[r]
  <2>1. q - n \in 1..m /\ n + (q - n) = q
    BY <1>2, <1>5
  <2> QED
    BY <1>3, <2>1
<1>6. \A kind : \A q : Queued(kind, q) => Queued(kind, q)'
  BY <1>2, <1>3, <1>4 DEF Queued
<1>7. ASSUME NEW r \in 1..m
      PROVE  n + r \in 1..n + m /\ \A q \in 0..n : n + r > q
  BY <1>2
<1>8. \A r \in DOMAIN rs : \A kind : rs[r].kind = kind => \A q \in 0..n : Queued(kind, q)'
  BY <1>2, <1>3, <1>7 DEF Queued
<1>9. \A r \in DOMAIN rs : \E q \in DOMAIN toServer' : toServer'[q] = rs[r]
  BY <1>2, <1>3, <1>7
<1>10. \A q \in DOMAIN toServer' : q \in DOMAIN toServer \/ \E r \in DOMAIN rs : toServer'[q] = rs[r]
  BY <1>2, <1>3, <1>5
<1>11. \A q \in DOMAIN toServer : q \in DOMAIN toServer' /\ toServer'[q] = toServer[q]
  BY <1>2, <1>3, <1>4
<1> QED
  BY <1>1, <1>3, <1>6, <1>8, <1>9, <1>10, <1>11 DEF n

(* The client takes what comes next.                                        *)
LEMMA TakeMoves ==
  ASSUME TravelOK, Incoming
  PROVE  /\ 1 \in DOMAIN toClient /\ Head(toClient) = toClient[1]
         /\ Head(toClient) \in Replies \cup Events
         /\ toClient' \in Seq(Replies \cup Events)
         /\ DOMAIN toClient' \subseteq Nat
         /\ \A p \in DOMAIN toClient' : p + 1 \in DOMAIN toClient /\ toClient'[p] = toClient[p + 1]
         /\ \A p \in DOMAIN toClient : p # 1 => p - 1 \in DOMAIN toClient' /\ toClient'[p - 1] = toClient[p]
         /\ \A kind : \A p \in Nat : EventAfter(p + 1, kind) => EventAfter(p, kind)'
         /\ \A kind : \A p \in Nat : Replied(kind, p + 1) => Replied(kind, p)'
         /\ \A kind : EventAfter(0, kind) =>
              EventAfter(0, kind)' \/ (Head(toClient) \in Events /\ Stirs(Head(toClient).event, kind))
         /\ \A kind : Replied(kind, 0) =>
              Replied(kind, 0)' \/ (Head(toClient) \in Replies /\ Head(toClient).request.kind = kind)
<1>1. toClient \in Seq(Replies \cup Events) /\ toClient # <<>> /\ toClient' = Tail(toClient)
  BY DEF TravelOK, Incoming
<1> DEFINE n == Len(toClient)
<1>2. n \in Nat /\ n > 0 /\ DOMAIN toClient = 1..n
      /\ 1 \in DOMAIN toClient /\ Head(toClient) = toClient[1]
      /\ Head(toClient) \in Replies \cup Events
  BY <1>1
<1>3. /\ toClient' \in Seq(Replies \cup Events) /\ DOMAIN toClient' = 1..n - 1
      /\ \A p \in DOMAIN toClient' : p + 1 \in DOMAIN toClient /\ toClient'[p] = toClient[p + 1]
  BY <1>1, <1>2
<1> HIDE DEF n
<1>4. \A p \in DOMAIN toClient : p # 1 => p - 1 \in DOMAIN toClient' /\ toClient'[p - 1] = toClient[p]
  BY <1>2, <1>3
<1>5. \A kind : \A p \in Nat : EventAfter(p + 1, kind) => EventAfter(p, kind)'
  <2> SUFFICES ASSUME NEW kind, NEW p \in Nat, EventAfter(p + 1, kind)
               PROVE  EventAfter(p, kind)'
    OBVIOUS
  <2>1. PICK q \in DOMAIN toClient :
          q > p + 1 /\ toClient[q] \in Events /\ Stirs(toClient[q].event, kind)
    BY DEF EventAfter, Told
  <2>2. q # 1 /\ q - 1 > p
    BY <1>2, <2>1
  <2> QED
    BY <1>4, <2>1, <2>2 DEF EventAfter, Told
<1>6. \A kind : \A p \in Nat : Replied(kind, p + 1) => Replied(kind, p)'
  <2> SUFFICES ASSUME NEW kind, NEW p \in Nat, Replied(kind, p + 1)
               PROVE  Replied(kind, p)'
    OBVIOUS
  <2>1. PICK q \in DOMAIN toClient :
          q > p + 1 /\ toClient[q] \in Replies /\ toClient[q].request.kind = kind
    BY DEF Replied, Answered
  <2>2. q # 1 /\ q - 1 > p
    BY <1>2, <2>1
  <2> QED
    BY <1>4, <2>1, <2>2 DEF Replied, Answered
<1>7. \A p \in DOMAIN toClient : p # 1 => p - 1 > 0
  BY <1>2
<1>8. \A kind : EventAfter(0, kind) =>
        EventAfter(0, kind)' \/ (Head(toClient) \in Events /\ Stirs(Head(toClient).event, kind))
  BY <1>2, <1>4, <1>7 DEF EventAfter, Told
<1>9. \A kind : Replied(kind, 0) =>
        Replied(kind, 0)' \/ (Head(toClient) \in Replies /\ Head(toClient).request.kind = kind)
  BY <1>2, <1>4, <1>7 DEF Replied, Answered
<1>10. DOMAIN toClient' \subseteq Nat
  BY <1>2, <1>3
<1> QED
  BY <1>2, <1>3, <1>4, <1>5, <1>6, <1>8, <1>9, <1>10

LEMMA TakeUnderWay ==
  ASSUME TravelOK, Incoming, NEW rs \in Seq(Requests), toServer' = toServer \o rs,
         NEW kind, NEW f, UnderWay(kind, f)
  PROVE  \/ UnderWay(kind, f)'
         \/ /\ Head(toClient) \in Replies
            /\ Head(toClient).request.kind = kind /\ Head(toClient).request.of = f
<1>1. toClient \in Seq(Replies \cup Events) /\ toClient # <<>> /\ toClient' = Tail(toClient)
  BY DEF TravelOK, Incoming
<1>2. Head(toClient) = toClient[1]
  BY TakeMoves
<1>3. \A p \in DOMAIN toClient : p # 1 => p - 1 \in DOMAIN toClient' /\ toClient'[p - 1] = toClient[p]
  BY <1>1
<1>4. CASE \E q \in DOMAIN toServer : toServer[q].kind = kind /\ toServer[q].of = f
  BY <1>4, AskMoves DEF UnderWay
<1>5. CASE \E p \in DOMAIN toClient :
             /\ toClient[p] \in Replies
             /\ toClient[p].request.kind = kind /\ toClient[p].request.of = f
  BY <1>2, <1>3, <1>5 DEF UnderWay, Answered
<1> QED
  BY <1>4, <1>5 DEF UnderWay, Answered

-----------------------------------------------------------------------------
(* What the client's steps keep of the traffic, whatever the view becomes:  *)
(* the requests of a step are well formed, name what is at their positions  *)
(* unless one more listing comes, and answer an event with its list.        *)
Lists == {"fs", "subvolumes"}

LEMMA SameServer ==
  ASSUME ServerOK, UNCHANGED serverVars, <<changes', asked'>> \in Budget
  PROVE  /\ ServerOK'
         /\ \A kind : Owed(kind) <=> Owed(kind)'
BY DEF ServerOK, serverVars, GoodListing, Listing, Among, Distinct, Owed, Unseen

LEMMA HandleKeeps ==
  ASSUME ServerOK, TravelOK, Fresh, Overtaken, Incoming, UNCHANGED <<serverVars, asked>>,
         NEW rs \in Seq(Requests), toServer' = toServer \o rs,
         \A r \in DOMAIN rs : GoodRequest(rs[r]),
         Head(toClient) \in Events =>
           \A kind \in Lists : Stirs(Head(toClient).event, kind) => \E r \in DOMAIN rs : rs[r].kind = kind,
         Announced("fs")' \/ \A r \in DOMAIN rs : Right(rs[r])
  PROVE  /\ ServerOK' /\ TravelOK' /\ Fresh' /\ Overtaken'
         /\ \A kind \in Lists : Coming(kind) =>
              Coming(kind)' \/ (Head(toClient) \in Replies /\ Head(toClient).request.kind = kind)
<1>1. /\ toServer \in Seq(Requests) /\ Len(toServer) \in Nat /\ DOMAIN toServer = 1..Len(toServer)
      /\ toClient \in Seq(Replies \cup Events) /\ DOMAIN toClient \subseteq Nat
  BY DEF TravelOK
<1>2. UNCHANGED <<table, mounted, version, changes, bus, missed, asked>>
  BY DEF serverVars
<1>3. ServerOK' /\ \A kind : Owed(kind) <=> Owed(kind)'
  BY <1>2, SameServer DEF ServerOK
<1>4. ASSUME NEW kind \in Lists, Announced(kind)
      PROVE  Announced(kind)' \/ \A q \in 0..Len(toServer) : Queued(kind, q)'
  <2>1. CASE Owed(kind)
    BY <1>3, <2>1 DEF Announced
  <2>2. CASE EventAfter(0, kind)'
    BY <2>2 DEF Announced
  <2>3. CASE Head(toClient) \in Events /\ Stirs(Head(toClient).event, kind)
    <3>1. PICK r \in DOMAIN rs : rs[r].kind = kind
      BY <2>3
    <3> QED
      BY <3>1, AskMoves
  <2> QED
    BY <1>4, <2>1, <2>2, <2>3, TakeMoves DEF Announced
<1>5. ASSUME NEW kind \in Lists, Coming(kind),
             ~(Head(toClient) \in Replies /\ Head(toClient).request.kind = kind)
      PROVE  Coming(kind)'
  <2>1. CASE Announced(kind)
    <3>1. 0 \in 0..Len(toServer)
      BY <1>1
    <3> QED
      BY <1>4, <2>1, <3>1 DEF Coming
  <2>2. CASE Queued(kind, 0)
    BY <2>2, AskMoves DEF Coming
  <2>3. CASE Replied(kind, 0)
    BY <1>5, <2>3, TakeMoves DEF Coming
  <2> QED
    BY <1>5, <2>1, <2>2, <2>3 DEF Coming
<1>6. TravelOK'
  <2>1. toServer' \in Seq(Requests) /\ toClient' \in Seq(Replies \cup Events)
    BY AskMoves, TakeMoves
  <2>2. ASSUME NEW q \in DOMAIN toServer'
        PROVE  GoodRequest(toServer[q])'
    <3>1. CASE q \in DOMAIN toServer
      BY <3>1, AskMoves DEF TravelOK, GoodRequest
    <3>2. CASE q \notin DOMAIN toServer
      <4>1. PICK r \in DOMAIN rs : toServer'[q] = rs[r]
        BY <3>2, AskMoves
      <4> QED
        BY <4>1 DEF GoodRequest
    <3> QED
      BY <3>1, <3>2
  <2>3. ASSUME NEW p \in DOMAIN toClient', Answered(p)'
        PROVE  GoodReply(toClient[p])'
    <3>1. p + 1 \in DOMAIN toClient /\ toClient'[p] = toClient[p + 1] /\ toClient[p + 1] \in Replies
      BY <2>3, TakeMoves DEF Answered
    <3>2. GoodReply(toClient[p + 1])
      BY <3>1 DEF TravelOK, Answered
    <3> QED
      BY <1>2, <3>1, <3>2 DEF GoodReply, GoodRequest, GoodListing, Among, Distinct
  <2> QED
    BY <2>1, <2>2, <2>3 DEF TravelOK
<1>7. Fresh'
  <2> SUFFICES ASSUME NEW p \in DOMAIN toClient', Answered(p)'
               PROVE  UpToDate(p)'
    BY DEF Fresh
  <2>1. /\ p + 1 \in DOMAIN toClient /\ toClient'[p] = toClient[p + 1]
        /\ toClient[p + 1] \in Replies /\ p \in Nat
    BY TakeMoves DEF Answered
  <2>2. PICK m : m = toClient[p + 1]
    OBVIOUS
  <2>3. PICK k : k = m.request.kind
    OBVIOUS
  <2> SUFFICES ASSUME k \in Listed
               PROVE  \/ m.result = Answer(m.request)' \/ Owed(k)' \/ EventAfter(p, k)'
                      \/ k = "subvolumes" /\ Replied("subvolumes", p)'
    BY <2>1, <2>2, <2>3 DEF UpToDate, Answer, Listing, Owed, Unseen, EventAfter, Told
  <2>4. \/ m.result = Answer(m.request) \/ Owed(k) \/ EventAfter(p + 1, k)
        \/ k = "subvolumes" /\ Replied("subvolumes", p + 1)
    BY <2>1, <2>2, <2>3 DEF Fresh, UpToDate, Answered
  <2>5. Answer(m.request)' = Answer(m.request)
    BY <1>2 DEF Answer, Listing
  <2>6. EventAfter(p + 1, k) => EventAfter(p, k)'
    BY <2>1, TakeMoves
  <2>7. Replied("subvolumes", p + 1) => Replied("subvolumes", p)'
    BY <2>1, TakeMoves
  <2> QED
    BY <1>3, <2>4, <2>5, <2>6, <2>7
<1>9. Overtaken'
  <2>1. CASE Announced("fs")'
    BY <2>1 DEF Overtaken
  <2>2. CASE ~Announced("fs")'
    <3>1. \A r \in DOMAIN rs : Right(rs[r])
      BY <2>2
    <3>2. Announced("fs") => \A q \in 0..Len(toServer) : Queued("fs", q)'
      BY <1>4, <2>2 DEF Lists
    <3>3. ASSUME NEW q \in DOMAIN toServer'
          PROVE  Right(toServer[q])' \/ Queued("fs", q)'
      <4>1. CASE q \in DOMAIN toServer
        <5>1. toServer'[q] = toServer[q] /\ q \in 0..Len(toServer)
          BY <1>1, <4>1, AskMoves
        <5>2. Right(toServer[q]) \/ Announced("fs") \/ Queued("fs", q)
          BY <4>1 DEF Overtaken
        <5>3. CASE Right(toServer[q])
          BY <1>2, <5>1, <5>3 DEF Right, Names, Listing
        <5> QED
          BY <3>2, <5>1, <5>2, <5>3, AskMoves
      <4>2. CASE q \notin DOMAIN toServer
        <5>1. PICK r \in DOMAIN rs : toServer'[q] = rs[r]
          BY <4>2, AskMoves
        <5>2. Right(rs[r])
          BY <3>1
        <5> QED
          BY <1>2, <5>1, <5>2 DEF Right, Names, Listing
      <4> QED
        BY <4>1, <4>2
    <3>4. ASSUME NEW p \in DOMAIN toClient', Answered(p)'
          PROVE  Right(toClient[p].request)' \/ Queued("fs", 0)' \/ Replied("fs", p)'
      <4>1. /\ p + 1 \in DOMAIN toClient /\ toClient'[p] = toClient[p + 1]
            /\ toClient[p + 1] \in Replies /\ p \in Nat /\ 0 \in 0..Len(toServer)
        BY <1>1, <3>4, TakeMoves DEF Answered
      <4>2. Right(toClient[p + 1].request) \/ Announced("fs") \/ Queued("fs", 0) \/ Replied("fs", p + 1)
        BY <4>1 DEF Overtaken, Answered
      <4>3. CASE Right(toClient[p + 1].request)
        BY <1>2, <4>1, <4>3 DEF Right, Names, Listing
      <4> QED
        BY <3>2, <4>1, <4>2, <4>3, AskMoves, TakeMoves
    <3> QED
      BY <3>3, <3>4 DEF Overtaken
  <2> QED
    BY <2>1, <2>2
<1> QED
  BY <1>3, <1>5, <1>6, <1>7, <1>9

(* The reply that is taken is up to date and names what is at its position, *)
(* or more is to come.                                                      *)
LEMMA TakenIsFresh ==
  ASSUME TravelOK, Fresh, Overtaken, Incoming, UNCHANGED <<bus, missed>>,
         NEW rs \in Seq(Requests), toServer' = toServer \o rs,
         Head(toClient) \in Replies
  PROVE  /\ Head(toClient).request \in Requests /\ GoodReply(Head(toClient))
         /\ Head(toClient).request.kind = "subvolumes" =>
              Head(toClient).result = Answer(Head(toClient).request) \/ Coming("subvolumes")'
         /\ Head(toClient).request.kind \in FanOut =>
              Head(toClient).result = Answer(Head(toClient).request) \/ Announced("fs")'
         /\ Head(toClient).request.kind \in FanOut =>
              \/ Head(toClient).result = Answer(Head(toClient).request) /\ Right(Head(toClient).request)
              \/ Coming("fs")'
<1> DEFINE m == Head(toClient)
           kind == m.request.kind
<1>1. 1 \in DOMAIN toClient /\ m = toClient[1] /\ m \in Replies /\ DOMAIN toClient \subseteq Nat
  BY TakeMoves DEF TravelOK
<1>2. GoodReply(m) /\ m.request \in Requests
  BY <1>1, Apart DEF TravelOK, Answered
<1>3. kind \in Listed =>
        \/ m.result = Answer(m.request) \/ Owed(kind) \/ EventAfter(1, kind)
        \/ kind = "subvolumes" /\ Replied("subvolumes", 1)
  BY <1>1 DEF Fresh, UpToDate, Answered
<1> HIDE DEF kind
<1>4. PICK k : k = kind
  OBVIOUS
<1>5. /\ Owed(k) \/ EventAfter(1, k) => Owed(k)' \/ EventAfter(0, k)'
      /\ Replied("subvolumes", 1) => Replied("subvolumes", 0)'
  <2>1. Owed(k) => Owed(k)'
    BY DEF Owed, Unseen
  <2>2. EventAfter(0 + 1, k) => EventAfter(0, k)'
    BY TakeMoves
  <2>3. Replied("subvolumes", 0 + 1) => Replied("subvolumes", 0)'
    BY TakeMoves
  <2> QED
    BY <2>1, <2>2, <2>3
<1>6. k # "subvolumes" => /\ Owed(k)' => Owed("fs")'
                          /\ EventAfter(0, k)' => EventAfter(0, "fs")'
  BY DEF Owed, Unseen, EventAfter, Stirs
<1>7. /\ kind = "subvolumes" => m.result = Answer(m.request) \/ Coming("subvolumes")'
      /\ kind \in FanOut => m.result = Answer(m.request) \/ Announced("fs")'
  <2>1. "subvolumes" \in Listed /\ FanOut \subseteq Listed /\ "subvolumes" \notin FanOut
    BY DEF Listed, FanOut
  <2>2. ASSUME k = "subvolumes"
        PROVE  m.result = Answer(m.request) \/ Coming("subvolumes")'
    BY <1>3, <1>4, <1>5, <2>1, <2>2 DEF Coming, Announced
  <2>3. ASSUME k \in FanOut
        PROVE  m.result = Answer(m.request) \/ Announced("fs")'
    BY <1>3, <1>4, <1>5, <1>6, <2>1, <2>3 DEF Announced
  <2> QED
    BY <1>4, <2>2, <2>3
<1>8. Right(m.request) \/ Announced("fs") \/ Queued("fs", 0) \/ Replied("fs", 1)
  BY <1>1 DEF Overtaken, Answered
<1>9. Announced("fs") => Announced("fs")'
  <2>1. Owed("fs") => Owed("fs")'
    BY DEF Owed, Unseen
  <2> QED
    BY <1>1, <2>1, Apart, TakeMoves DEF Announced
<1>10. Queued("fs", 0) \/ Replied("fs", 1) => Queued("fs", 0)' \/ Replied("fs", 0)'
  <2>1. Replied("fs", 0 + 1) => Replied("fs", 0)'
    BY TakeMoves
  <2> QED
    BY <2>1, AskMoves
<1> QED
  BY <1>2, <1>7, <1>8, <1>9, <1>10 DEF Coming, kind

(* The queries of a slot of the panel, as the client goes on.               *)
LEMMA SlotKeeps ==
  ASSUME TravelOK, NEW k \in Slots, SlotQueries(k), Incoming,
         panel' = panel, slots'[k].asked = slots[k].asked,
         NEW rs \in Seq(Requests), toServer' = toServer \o rs,
         \A r \in DOMAIN rs : rs[r].kind # k
  PROVE  /\ SlotQueries(k)'
         /\ Queued(k, 0) \/ Replied(k, 0) =>
              \/ Queued(k, 0)' \/ Replied(k, 0)' \/ ~slots[k].asked
              \/ /\ Head(toClient) \in Replies /\ Head(toClient).request.kind = k
                 /\ Head(toClient).request.of = panel
         /\ Head(toClient) \in Replies /\ Head(toClient).request.kind = k
               /\ Head(toClient).request.of # panel
             => Queued(k, 0)' \/ Replied(k, 0)' \/ ~slots[k].asked
<1>1. ASSUME NEW q \in DOMAIN toServer', toServer'[q].kind = k
      PROVE  toServer'[q].of = panel' \/ Queued(k, q)' \/ ~slots'[k].asked
  <2>1. q \in DOMAIN toServer /\ toServer'[q] = toServer[q]
    BY <1>1, AskMoves
  <2>2. toServer[q].of = panel \/ Queued(k, q) \/ ~slots[k].asked
    BY <1>1, <2>1 DEF SlotQueries
  <2> QED
    BY <2>1, <2>2, AskMoves
<1>2. ASSUME NEW p \in DOMAIN toClient', toClient'[p] \in Replies, toClient'[p].request.kind = k
      PROVE  toClient'[p].request.of = panel' \/ Queued(k, 0)' \/ Replied(k, p)' \/ ~slots'[k].asked
  <2>1. p + 1 \in DOMAIN toClient /\ toClient'[p] = toClient[p + 1] /\ p \in Nat
    BY TakeMoves
  <2>2. toClient[p + 1].request.of = panel \/ Queued(k, 0) \/ Replied(k, p + 1) \/ ~slots[k].asked
    BY <1>2, <2>1 DEF SlotQueries, Answered
  <2> QED
    BY <2>1, <2>2, AskMoves, TakeMoves
<1>3. SlotQueries(k)'
  BY <1>1, <1>2 DEF SlotQueries, Answered
<1>4. Head(toClient) \in Replies /\ Head(toClient).request.kind = k
          /\ Head(toClient).request.of # panel
      => Queued(k, 0)' \/ Replied(k, 0)' \/ ~slots[k].asked
  <2> SUFFICES ASSUME Head(toClient) \in Replies, Head(toClient).request.kind = k,
                      Head(toClient).request.of # panel
               PROVE  Queued(k, 0)' \/ Replied(k, 0)' \/ ~slots[k].asked
    OBVIOUS
  <2>1. 1 \in DOMAIN toClient /\ Head(toClient) = toClient[1]
    BY TakeMoves
  <2>2. Queued(k, 0) \/ Replied(k, 1) \/ ~slots[k].asked
    BY <2>1 DEF SlotQueries, Answered
  <2>3. Replied(k, 1) => Replied(k, 0)'
    <3>1. Replied(k, 0 + 1) => Replied(k, 0)'
      BY TakeMoves
    <3> QED
      BY <3>1
  <2> QED
    BY <2>2, <2>3, AskMoves
<1>5. Queued(k, 0) => Queued(k, 0)'
  BY AskMoves
<1>6. Replied(k, 0) =>
        Replied(k, 0)' \/ (Head(toClient) \in Replies /\ Head(toClient).request.kind = k)
  BY TakeMoves
<1> QED
  BY <1>3, <1>4, <1>5, <1>6

(* A step that leaves the panel alone.                                      *)
LEMMA PanelStays ==
  ASSUME TravelOK, PanelFollows, Incoming, UNCHANGED <<panel, slots>>,
         NEW rs \in Seq(Requests), toServer' = toServer \o rs,
         \A r \in DOMAIN rs : rs[r].kind \notin Slots,
         Head(toClient) \in Replies => Head(toClient).request.kind \notin Slots
  PROVE  PanelFollows'
<1> SUFFICES ASSUME NEW k \in Slots
             PROVE  SlotQueries(k)' /\ SlotShows(k)'
  BY DEF PanelFollows
<1>1. SlotQueries(k) /\ SlotShows(k) /\ \A r \in DOMAIN rs : rs[r].kind # k
  BY DEF PanelFollows
<1>2. /\ SlotQueries(k)'
      /\ Queued(k, 0) \/ Replied(k, 0) => Queued(k, 0)' \/ Replied(k, 0)' \/ ~slots[k].asked
  BY <1>1, SlotKeeps
<1> QED
  BY <1>1, <1>2 DEF SlotShows

(* The part of the view that a step leaves alone.                           *)
LEMMA ViewKeeps ==
  ASSUME ViewInv, Incoming, UNCHANGED serverVars,
         NEW rs \in Seq(Requests), toServer' = toServer \o rs,
         Coming("fs") => Coming("fs")',
         Head(toClient) \in Replies /\ Head(toClient).request.kind \in {"snapshots", "status"} =>
           Head(toClient).result = Null
  PROVE  /\ pending' = pending /\ view'.snapshots = view.snapshots => SnapshotsFollow'
         /\ view'.strip = view.strip => StripFollows'
<1> USE DEF ViewInv
<1>1. UNCHANGED <<table, mounted, version, bus, missed>>
  BY DEF serverVars
<1>2. ASSUME NEW kind \in {"snapshots", "status"}, NEW f \in mounted, UnderWay(kind, f), ~Coming("fs")'
      PROVE  UnderWay(kind, f)'
  <2> SUFFICES ASSUME Head(toClient) \in Replies, Head(toClient).request.kind = kind,
                      Head(toClient).request.of = f
               PROVE  FALSE
    BY <1>2, TakeUnderWay
  <2>1. Head(toClient).result = Answer(Head(toClient).request) /\ Head(toClient).result = Null
    <3>1. kind \in FanOut
      BY DEF FanOut
    <3> QED
      BY <1>1, <1>2, <3>1, TakenIsFresh
  <2>2. Answer(Head(toClient).request) \in Reports
    <3>1. CASE kind = "snapshots"
      BY <3>1, AnswerIs, SubjectHas
    <3>2. CASE kind = "status"
      BY <3>2, AnswerIs, SubjectHas
    <3> QED
      BY <3>1, <3>2
  <2> QED
    BY <2>1, <2>2, NullApart
<1>3. Names' = Names /\ \A i \in DOMAIN Names : Names[i] \in mounted
  <2>1. Names' = Names
    BY <1>1 DEF Names, Listing, MountedNames
  <2>2. GoodListing(Listing) /\ Listing.mounted = mounted
    BY DEF ServerOK, Listing
  <2>3. \A i \in DOMAIN MountedNames(Listing) : MountedNames(Listing)[i] \in Listing.mounted
    BY <2>2, MountedIs
  <2> QED
    BY <2>1, <2>2, <2>3 DEF Names
<1>4. ASSUME pending' = pending, view'.snapshots = view.snapshots, ~Coming("fs")'
      PROVE  /\ DOMAIN pending' = DOMAIN Names'
             /\ \A i \in DOMAIN Names' :
                  \/ pending'[i] = Names'[i] /\ UnderWay("snapshots", Names[i])'
                  \/ pending'[i] = Null /\ Labelled(Names[i])' = Current(Names[i])'
  <2>1. DOMAIN pending = DOMAIN Names
    BY <1>4 DEF SnapshotsFollow
  <2>2. ASSUME NEW i \in DOMAIN Names'
        PROVE  \/ pending'[i] = Names'[i] /\ UnderWay("snapshots", Names[i])'
               \/ pending'[i] = Null /\ Labelled(Names[i])' = Current(Names[i])'
    <3>1. PICK f : f = Names[i]
      OBVIOUS
    <3>2. i \in DOMAIN Names /\ f \in mounted /\ f = Names'[i]
      BY <1>3, <3>1
    <3>3. \/ pending[i] = f /\ UnderWay("snapshots", f)
          \/ pending[i] = Null /\ Labelled(f) = Current(f)
      BY <1>4, <3>1, <3>2 DEF SnapshotsFollow
    <3>4. CASE pending[i] = f /\ UnderWay("snapshots", f)
      <4>1. UnderWay("snapshots", f)'
        BY <1>2, <1>4, <3>2, <3>4
      <4> QED
        BY <1>4, <3>2, <3>4, <4>1 DEF UnderWay
    <3>5. CASE pending[i] = Null /\ Labelled(f) = Current(f)
      BY <1>1, <1>4, <3>2, <3>5 DEF Labelled, Current
    <3> QED
      BY <3>3, <3>4, <3>5
  <2> QED
    BY <1>3, <1>4, <2>1, <2>2
<1>5. ASSUME view'.strip = view.strip, ~Coming("fs")', NEW f \in mounted'
      PROVE  UnderWay("status", f)' \/ view'.strip[f] = <<f, version'[<<f, "status">>]>>
  <2>1. UnderWay("status", f) \/ view.strip[f] = <<f, version[<<f, "status">>]>>
    BY <1>1, <1>5 DEF StripFollows
  <2> QED
    BY <1>1, <1>2, <1>5, <2>1
<1> QED
  BY <1>4, <1>5 DEF SnapshotsFollow, StripFollows

(* A step of the client that asks for nothing.                              *)
LEMMA NothingAsked ==
  ASSUME TravelOK, toServer' = toServer
  PROVE  <<>> \in Seq(Requests) /\ toServer' = toServer \o <<>> /\ DOMAIN <<>> = {}
BY DEF TravelOK

-----------------------------------------------------------------------------
(* The handlers.                                                            *)
LEMMA OnEventKeeps == ViewInv /\ OnEvent => ViewInv'
<1> SUFFICES ASSUME ViewInv, OnEvent
             PROVE  ViewInv'
  OBVIOUS
<1> USE DEF ViewInv
<1> DEFINE e == Head(toClient).event
           rs == Refresh(e)
<1>1. Incoming /\ UNCHANGED <<serverVars, clientVars>> /\ toServer' = toServer \o rs
  BY DEF OnEvent, Ask
<1>2. Head(toClient) \in Events /\ Head(toClient) \notin Replies /\ e \in EventKinds
  BY <1>1, TakeMoves, Apart DEF OnEvent
<1>3. /\ rs \in Seq(Requests) /\ DOMAIN rs = {1}
      /\ e = "subvolume" => rs[1].kind = "subvolumes"
      /\ e # "subvolume" => rs[1].kind = "fs"
  <2>1. ListFs \in Requests /\ ListSubvolumes \in Requests
        /\ ListFs.kind = "fs" /\ ListSubvolumes.kind = "subvolumes"
    BY RequestIs DEF ListFs, ListSubvolumes, Kinds
  <2> HIDE DEF e
  <2>2. CASE e = "subvolume"
    BY <2>1, <2>2 DEF Refresh
  <2>3. CASE e # "subvolume"
    BY <2>1, <2>3 DEF Refresh
  <2> QED
    BY <2>2, <2>3
<1>4. \A r \in DOMAIN rs : GoodRequest(rs[r]) /\ Right(rs[r]) /\ rs[r].kind \notin Slots
  BY <1>3 DEF GoodRequest, Right, About, Slots
<1>5. \A kind \in Lists : Stirs(e, kind) => \E r \in DOMAIN rs : rs[r].kind = kind
  BY <1>3 DEF Lists, Stirs
<1> HIDE DEF rs
<1>6. /\ ServerOK' /\ TravelOK' /\ Fresh' /\ Overtaken'
      /\ \A kind \in Lists : Coming(kind) => Coming(kind)'
  BY <1>1, <1>2, <1>3, <1>4, <1>5, HandleKeeps DEF clientVars
<1>7. Coming("fs") => Coming("fs")'
  BY <1>6 DEF Lists
<1>8. SnapshotsFollow' /\ StripFollows'
  BY <1>1, <1>2, <1>3, <1>7, ViewKeeps DEF clientVars
<1>9. ListsFollow'
  BY <1>1, <1>6 DEF ListsFollow, clientVars, serverVars, Listing, Lists
<1>10. ClientOK'
  BY <1>1 DEF ClientOK, PanelOK, clientVars, serverVars, GoodListing, Among, Distinct
<1>11. PanelFollows'
  BY <1>1, <1>2, <1>3, <1>4, PanelStays DEF clientVars
<1> QED
  BY <1>6, <1>8, <1>9, <1>10, <1>11

LEMMA OnTickKeeps == ViewInv /\ OnTick => ViewInv'
<1> SUFFICES ASSUME ViewInv, OnTick
             PROVE  ViewInv'
  OBVIOUS
<1> USE DEF ViewInv
<1> DEFINE m == Head(toClient)
<1>1. /\ Incoming /\ UNCHANGED <<serverVars, toServer, clientVars>>
      /\ m.request.kind = "tick" /\ "request" \in DOMAIN m
  BY DEF OnTick, IsReply
<1> DEFINE rs == <<>>
<1>2. rs \in Seq(Requests) /\ toServer' = toServer \o rs /\ DOMAIN rs = {}
  BY <1>1, NothingAsked
<1>3. m \in Replies /\ m \notin Events
  BY <1>1, TakeMoves, Apart
<1> HIDE DEF rs
<1>4. m.request.kind \notin Lists /\ m.request.kind \notin Slots
  BY <1>1 DEF Lists, Slots
<1>5. /\ ServerOK' /\ TravelOK' /\ Fresh' /\ Overtaken'
      /\ \A kind \in Lists : Coming(kind) => Coming(kind)'
  BY <1>1, <1>2, <1>3, <1>4, HandleKeeps DEF clientVars
<1>6. Coming("fs") => Coming("fs")'
  BY <1>5 DEF Lists
<1>7. SnapshotsFollow' /\ StripFollows'
  BY <1>1, <1>2, <1>6, ViewKeeps DEF clientVars
<1>8. ListsFollow'
  BY <1>1, <1>5 DEF ListsFollow, clientVars, serverVars, Listing, Lists
<1>9. ClientOK'
  BY <1>1 DEF ClientOK, PanelOK, clientVars, serverVars, GoodListing, Among, Distinct
<1>10. PanelFollows'
  BY <1>1, <1>2, <1>4, PanelStays DEF clientVars
<1> QED
  BY <1>5, <1>7, <1>8, <1>9, <1>10

(* A list that is refused was missed, or one more is on its way.            *)
LEMMA OnErrorKeeps == ViewInv /\ OnError => ViewInv'
<1> SUFFICES ASSUME ViewInv, OnError
             PROVE  ViewInv'
  OBVIOUS
<1> USE DEF ViewInv
<1> DEFINE m == Head(toClient)
<1>1. /\ Incoming /\ UNCHANGED <<serverVars, toServer, view, pending, panel, asked>>
      /\ m.result = Null /\ "request" \in DOMAIN m
      /\ slots' = [k \in Slots |->
                     IF m.request.kind = k /\ m.request.of = panel
                     THEN [slots[k] EXCEPT !.failed = TRUE] ELSE slots[k]]
  BY DEF OnError, Result
<1> DEFINE rs == <<>>
<1>2. rs \in Seq(Requests) /\ toServer' = toServer \o rs /\ DOMAIN rs = {}
  BY <1>1, NothingAsked
<1>3. m \in Replies /\ m \notin Events
  BY <1>1, TakeMoves, Apart
<1> HIDE DEF rs
<1>4. /\ m.request.kind = "fs" => Coming("fs")'
      /\ m.request.kind = "subvolumes" => Coming("subvolumes")'
  <2>1. UNCHANGED <<bus, missed>>
    BY <1>1 DEF serverVars
  <2>2. /\ m.request.kind = "subvolumes" => m.result = Answer(m.request) \/ Coming("subvolumes")'
        /\ m.request.kind \in FanOut => m.result = Answer(m.request) \/ Announced("fs")'
    BY <1>1, <1>2, <1>3, <2>1, TakenIsFresh
  <2>3. m.request.kind = "fs" => Answer(m.request) \in Listings
    BY AnswerIs, SubjectHas
  <2>4. m.request.kind = "subvolumes" => Answer(m.request) \in Nat
    <3>1. m.request.kind = "subvolumes" => Answer(m.request) = version[Subvolumes]
      BY AnswerIs
    <3>2. version[Subvolumes] \in Nat
      BY SubjectHas
    <3> QED
      BY <3>1, <3>2
  <2> QED
    BY <1>1, <2>2, <2>3, <2>4, NullApart DEF Coming, FanOut
<1>5. /\ ServerOK' /\ TravelOK' /\ Fresh' /\ Overtaken'
      /\ \A kind \in Lists : Coming(kind) => Coming(kind)'
  <2>1. /\ ServerOK' /\ TravelOK' /\ Fresh' /\ Overtaken'
        /\ \A kind \in Lists : Coming(kind) => Coming(kind)' \/ m.request.kind = kind
    BY <1>1, <1>2, <1>3, HandleKeeps
  <2> QED
    BY <1>4, <2>1 DEF Lists
<1>6. Coming("fs") => Coming("fs")'
  BY <1>5 DEF Lists
<1>7. SnapshotsFollow' /\ StripFollows'
  BY <1>1, <1>2, <1>6, ViewKeeps
<1>8. ListsFollow'
  BY <1>1, <1>5 DEF ListsFollow, serverVars, Listing, Lists
<1>9. ASSUME NEW k \in Slots
      PROVE  /\ slots'[k] \in SlotRecords /\ slots'[k].asked = slots[k].asked
             /\ slots'[k].shows = slots[k].shows /\ slots'[k].stray = slots[k].stray
             /\ slots[k].failed => slots'[k].failed
             /\ m.request.kind = k /\ m.request.of = panel => slots'[k].failed
  <2>1. slots[k] \in SlotRecords
    BY DEF ClientOK, PanelOK
  <2>2. slots'[k] = IF m.request.kind = k /\ m.request.of = panel
                    THEN [slots[k] EXCEPT !.failed = TRUE] ELSE slots[k]
    BY <1>1
  <2> HIDE DEF m
  <2> QED
    BY <2>1, <2>2 DEF SlotRecords
<1>10. ClientOK'
  <2>1. slots' \in [Slots -> SlotRecords]
    <3>1. \A k \in Slots : slots'[k] \in SlotRecords
      BY <1>9
    <3> QED
      BY <1>1, <3>1
  <2> QED
    BY <1>1, <2>1 DEF ClientOK, PanelOK, serverVars, GoodListing, Among, Distinct
<1>11. PanelFollows'
  <2> SUFFICES ASSUME NEW k \in Slots
               PROVE  SlotQueries(k)' /\ SlotShows(k)'
    BY DEF PanelFollows
  <2>1. SlotQueries(k) /\ SlotShows(k)
    BY DEF PanelFollows
  <2>2. /\ SlotQueries(k)'
        /\ Queued(k, 0) \/ Replied(k, 0) =>
              \/ Queued(k, 0)' \/ Replied(k, 0)' \/ ~slots[k].asked
              \/ m.request.kind = k /\ m.request.of = panel
    BY <1>1, <1>2, <1>9, <2>1, SlotKeeps
  <2> HIDE DEF m
  <2> QED
    BY <1>1, <1>9, <2>1, <2>2 DEF SlotShows
<1> QED
  BY <1>5, <1>7, <1>8, <1>10, <1>11

LEMMA OnSubvolumesKeeps == ViewInv /\ OnSubvolumes => ViewInv'
<1> SUFFICES ASSUME ViewInv, OnSubvolumes
             PROVE  ViewInv'
  OBVIOUS
<1> USE DEF ViewInv
<1> DEFINE m == Head(toClient)
<1>1. /\ Incoming /\ UNCHANGED <<serverVars, toServer, pending, panel, slots, asked>>
      /\ m.request.kind = "subvolumes" /\ "request" \in DOMAIN m /\ m.result # Null
      /\ view' = [view EXCEPT !.subvolumes = m.result]
  BY DEF OnSubvolumes, IsReply, Result
<1> DEFINE rs == <<>>
<1>2. rs \in Seq(Requests) /\ toServer' = toServer \o rs /\ DOMAIN rs = {}
  BY <1>1, NothingAsked
<1>3. m \in Replies /\ m \notin Events
  BY <1>1, TakeMoves, Apart
<1>4. GoodReply(m) /\ (m.result = Answer(m.request) \/ Coming("subvolumes")')
  BY <1>1, <1>2, <1>3, TakenIsFresh DEF serverVars
<1>5. m.result \in 0..changes /\ changes \in Nat /\ Answer(m.request) = version[Subvolumes]
  BY <1>1, <1>4, SubjectHas, AnswerIs DEF GoodReply
<1> HIDE DEF rs
<1>6. /\ ServerOK' /\ TravelOK' /\ Fresh' /\ Overtaken'
      /\ \A kind \in Lists : Coming(kind) => Coming(kind)' \/ m.request.kind = kind
  BY <1>1, <1>2, <1>3, HandleKeeps
<1>7. Coming("fs") => Coming("fs")'
  BY <1>1, <1>6 DEF Lists
<1>8. /\ view' \in Views /\ view'.fs = view.fs /\ view'.snapshots = view.snapshots
      /\ view'.strip = view.strip /\ view'.subvolumes = m.result
  BY <1>1, <1>5 DEF ClientOK, Views
<1>9. SnapshotsFollow' /\ StripFollows'
  BY <1>1, <1>2, <1>7, <1>8, ViewKeeps
<1>10. ListsFollow'
  <2>1. view'.fs = Listing' \/ Coming("fs")'
    BY <1>1, <1>7, <1>8 DEF ListsFollow, serverVars, Listing
  <2>2. view'.subvolumes = version'[Subvolumes] \/ Coming("subvolumes")'
    BY <1>1, <1>4, <1>5, <1>8 DEF serverVars
  <2> QED
    BY <2>1, <2>2 DEF ListsFollow
<1>11. ClientOK'
  BY <1>1, <1>5, <1>8 DEF ClientOK, PanelOK, serverVars, GoodListing, Among, Distinct
<1>12. PanelFollows'
  BY <1>1, <1>2, PanelStays DEF Slots
<1> QED
  BY <1>6, <1>9, <1>10, <1>11, <1>12

LEMMA OnPanelKeeps == ViewInv /\ OnPanel => ViewInv'
<1> SUFFICES ASSUME ViewInv, OnPanel
             PROVE  ViewInv'
  OBVIOUS
<1> USE DEF ViewInv
<1> DEFINE m == Head(toClient)
<1>0. PICK k \in Slots :
        /\ IsReply(k) /\ Result # Null
        /\ slots' = [slots EXCEPT ![k].shows = Result, ![k].stray = @ \/ Result[1] # panel]
  BY DEF OnPanel
<1>1. /\ Incoming /\ UNCHANGED <<serverVars, toServer, view, pending, panel, asked>>
      /\ m.request.kind = k /\ "request" \in DOMAIN m /\ m.result # Null
      /\ slots' = [slots EXCEPT ![k].shows = m.result, ![k].stray = @ \/ m.result[1] # panel]
  BY <1>0 DEF OnPanel, IsReply, Result
<1> DEFINE rs == <<>>
<1>2. rs \in Seq(Requests) /\ toServer' = toServer \o rs /\ DOMAIN rs = {}
  BY <1>1, NothingAsked
<1>3. m \in Replies /\ m \notin Events
  BY <1>1, TakeMoves, Apart
<1>4. m.result \in Reports /\ m.result[1] = m.request.of
  <2>1. GoodReply(m)
    BY <1>1, <1>2, <1>3, TakenIsFresh DEF serverVars
  <2> QED
    BY <1>1, <2>1 DEF GoodReply, About, Slots
<1> HIDE DEF rs
<1>5. /\ ServerOK' /\ TravelOK' /\ Fresh' /\ Overtaken'
      /\ \A kind \in Lists : Coming(kind) => Coming(kind)'
  <2>1. \A kind \in Lists : m.request.kind # kind
    BY <1>1 DEF Lists, Slots
  <2> QED
    BY <1>1, <1>2, <1>3, <2>1, HandleKeeps
<1>6. Coming("fs") => Coming("fs")'
  BY <1>5 DEF Lists
<1>7. SnapshotsFollow' /\ StripFollows'
  <2>1. m.request.kind \notin {"snapshots", "status"}
    BY <1>1 DEF Slots
  <2> QED
    BY <1>1, <1>2, <1>6, <2>1, ViewKeeps
<1>8. ListsFollow'
  BY <1>1, <1>5 DEF ListsFollow, serverVars, Listing, Lists
<1>9. /\ slots' \in [Slots -> SlotRecords]
      /\ slots'[k].asked = slots[k].asked /\ slots'[k].shows = m.result
      /\ m.result[1] # panel => slots'[k].stray = TRUE
      /\ \A j \in Slots : j # k => slots'[j] = slots[j]
  <2>1. slots \in [Slots -> SlotRecords] /\ slots[k] \in SlotRecords
    BY DEF ClientOK, PanelOK
  <2> DEFINE new == [slots[k] EXCEPT !.shows = m.result, !.stray = @ \/ m.result[1] # panel]
  <2>2. slots' = [slots EXCEPT ![k] = new]
    BY <1>1
  <2>3. /\ new \in SlotRecords /\ new.asked = slots[k].asked /\ new.shows = m.result
        /\ m.result[1] # panel => new.stray = TRUE
    BY <1>4, <2>1 DEF SlotRecords
  <2> HIDE DEF new
  <2> QED
    BY <2>1, <2>2, <2>3
<1>10. ClientOK'
  BY <1>1, <1>9 DEF ClientOK, PanelOK, serverVars, GoodListing, Among, Distinct
<1>11. SlotQueries(k) /\ SlotShows(k)
  BY DEF PanelFollows
<1>12. SlotQueries(k)'
       /\ (m.request.of # panel => Queued(k, 0)' \/ Replied(k, 0)' \/ ~slots[k].asked)
  BY <1>1, <1>2, <1>3, <1>9, <1>11, SlotKeeps
<1>13. SlotShows(k)'
  BY <1>1, <1>4, <1>9, <1>12 DEF SlotShows
<1>14. ASSUME NEW j \in Slots, j # k
       PROVE  SlotQueries(j)' /\ SlotShows(j)'
  <2>1. SlotQueries(j) /\ SlotShows(j) /\ m.request.kind # j /\ slots'[j] = slots[j]
    BY <1>1, <1>9, <1>14 DEF PanelFollows
  <2>2. /\ SlotQueries(j)'
        /\ Queued(j, 0) \/ Replied(j, 0) => Queued(j, 0)' \/ Replied(j, 0)' \/ ~slots[j].asked
    BY <1>1, <1>2, <2>1, SlotKeeps
  <2> QED
    BY <1>1, <2>1, <2>2 DEF SlotShows
<1>15. PanelFollows'
  BY <1>12, <1>13, <1>14 DEF PanelFollows
<1> QED
  BY <1>5, <1>7, <1>8, <1>10, <1>15

(* A listing of filesystems: either it is the current one, and what it asks *)
(* for is right, or one more comes.                                         *)
LEMMA OnFsKeeps == ViewInv /\ OnFs => ViewInv'
<1> SUFFICES ASSUME ViewInv, OnFs
             PROVE  ViewInv'
  OBVIOUS
<1> USE DEF ViewInv
<1> DEFINE m == Head(toClient)
           l == m.result
           queries == Snapshots(MountedNames(l))
           strip == Strip(l)
           rs == queries \o strip
<1>1. /\ Incoming /\ UNCHANGED <<serverVars, panel, slots, asked>>
      /\ m.request.kind = "fs" /\ "request" \in DOMAIN m /\ l # Null
      /\ view' = [view EXCEPT !.fs = l,
                              !.snapshots = IF MountedNames(l) = <<>> THEN {} ELSE @]
      /\ pending' = MountedNames(l)
      /\ toServer' = toServer \o rs
  BY DEF OnFs, IsReply, Result, Ask
<1>2. m \in Replies /\ m \notin Events
  BY <1>1, TakeMoves, Apart
<1>3. GoodListing(l)
  <2>1. 1 \in DOMAIN toClient /\ m = toClient[1]
    BY <1>1, TakeMoves
  <2> QED
    BY <1>1, <1>2, <2>1 DEF TravelOK, Answered, GoodReply
<1>4. /\ queries \in Seq(Requests) /\ strip \in Seq(Requests)
      /\ rs \in Seq(Requests)
      /\ \A r \in DOMAIN rs :
           \/ \E i \in DOMAIN queries : rs[r] = queries[i]
           \/ \E i \in DOMAIN strip : rs[r] = strip[i]
      /\ \A i \in DOMAIN queries : \E r \in DOMAIN rs : rs[r] = queries[i]
      /\ \A i \in DOMAIN strip : \E r \in DOMAIN rs : rs[r] = strip[i]
  <2>1. queries \in Seq(Requests) /\ strip \in Seq(Requests)
    BY <1>3, SnapshotsIs, StripIs
  <2> HIDE DEF queries, strip
  <2> DEFINE a == Len(queries)
             b == Len(strip)
  <2>2. a \in Nat /\ b \in Nat /\ DOMAIN queries = 1..a /\ DOMAIN strip = 1..b
    BY <2>1
  <2>3. /\ rs \in Seq(Requests) /\ DOMAIN rs = 1..a + b
        /\ \A i \in 1..a : rs[i] = queries[i]
        /\ \A i \in 1..b : rs[a + i] = strip[i]
    BY <2>1
  <2> HIDE DEF a, b, rs
  <2>4. ASSUME NEW r \in 1..a + b, r \notin 1..a
        PROVE  \E i \in 1..b : rs[r] = strip[i]
    <3>1. r - a \in 1..b /\ a + (r - a) = r
      BY <2>2, <2>4
    <3> QED
      BY <2>3, <3>1
  <2>5. \A i \in 1..a : i \in 1..a + b
    BY <2>2
  <2>6. \A i \in 1..b : a + i \in 1..a + b
    BY <2>2
  <2> QED
    BY <2>1, <2>2, <2>3, <2>4, <2>5, <2>6
<1>5. UNCHANGED <<table, mounted, version, changes, bus, missed>>
  BY <1>1 DEF serverVars
<1>6. /\ \A i \in DOMAIN queries : queries[i].kind = "snapshots" /\ queries[i].of \in Fs
      /\ \A i \in DOMAIN strip : strip[i].kind = "status" /\ strip[i].of \in Fs
  <2>1. l.mounted \subseteq Fs
    BY <1>3 DEF GoodListing, Listings
  <2> QED
    BY <1>3, <2>1, SnapshotsIs, StripIs, MountedIs
<1>7. \A r \in DOMAIN rs : /\ rs[r].kind \in {"snapshots", "status"} /\ rs[r].of \in Fs
  <2> SUFFICES ASSUME NEW r \in DOMAIN rs
               PROVE  /\ rs[r].kind \in {"snapshots", "status"} /\ rs[r].of \in Fs
    OBVIOUS
  <2> HIDE DEF rs, queries, strip
  <2>1. CASE \E i \in DOMAIN queries : rs[r] = queries[i]
    <3>1. PICK i \in DOMAIN queries : rs[r] = queries[i]
      BY <2>1
    <3>2. queries[i].kind = "snapshots" /\ queries[i].of \in Fs
      BY <1>6
    <3> QED
      BY <3>1, <3>2
  <2>2. CASE \E i \in DOMAIN strip : rs[r] = strip[i]
    <3>1. PICK i \in DOMAIN strip : rs[r] = strip[i]
      BY <2>2
    <3>2. strip[i].kind = "status" /\ strip[i].of \in Fs
      BY <1>6
    <3> QED
      BY <3>1, <3>2
  <2> QED
    BY <1>4, <2>1, <2>2
<1>8. l = Listing \/ Announced("fs")'
  <2>1. m.result = Answer(m.request) \/ Announced("fs")'
    <3>1. Head(toClient) \in Replies /\ UNCHANGED <<bus, missed>> /\ rs \in Seq(Requests)
          /\ m.request.kind \in FanOut
      BY <1>1, <1>2, <1>4, <1>5 DEF FanOut
    <3> HIDE DEF rs
    <3> QED
      BY <1>1, <3>1, TakenIsFresh
  <2> QED
    BY <1>1, <2>1, AnswerIs
<1>9. Announced("fs")' \/ \A r \in DOMAIN rs : Right(rs[r])
  <2> SUFFICES ASSUME l = Listing, NEW r \in DOMAIN rs
               PROVE  Right(rs[r])
    BY <1>8
  <2>1. MountedNames(l) = Names /\ l.names = table /\ l.mounted = mounted
    BY DEF Names, Listing
  <2>2. CASE \E i \in DOMAIN queries : rs[r] = queries[i]
    <3>1. PICK i \in DOMAIN queries : rs[r] = queries[i]
      BY <2>2
    <3>2. i \in DOMAIN Names /\ queries[i].kind = "snapshots" /\ queries[i].of = Names[i] /\ queries[i].at = i
      BY <1>3, <2>1, <3>1, SnapshotsIs
    <3> HIDE DEF rs, queries
    <3> QED
      BY <3>1, <3>2 DEF Right
  <2>3. CASE \E i \in DOMAIN strip : rs[r] = strip[i]
    <3>1. PICK i \in DOMAIN strip : rs[r] = strip[i]
      BY <2>3
    <3>2. /\ strip[i].kind = "status" /\ strip[i].at \in DOMAIN table
          /\ table[strip[i].at] = strip[i].of /\ strip[i].of \in mounted
      BY <1>3, <2>1, <3>1, StripIs
    <3> HIDE DEF rs, strip
    <3> QED
      BY <3>1, <3>2 DEF Right
  <2> QED
    BY <1>4, <2>2, <2>3
<1>10. /\ ServerOK' /\ TravelOK' /\ Fresh' /\ Overtaken'
       /\ \A kind \in Lists : Coming(kind) => Coming(kind)' \/ m.request.kind = kind
  <2>1. \A r \in DOMAIN rs : GoodRequest(rs[r])
    BY <1>7 DEF GoodRequest
  <2>2. rs \in Seq(Requests)
    BY <1>4
  <2> HIDE DEF rs
  <2> QED
    BY <1>1, <1>2, <1>9, <2>1, <2>2, HandleKeeps
<1>11. Coming("subvolumes") => Coming("subvolumes")'
  BY <1>1, <1>10 DEF Lists
<1>12. /\ view' \in Views /\ view'.fs = l
       /\ view'.strip = view.strip /\ view'.subvolumes = view.subvolumes
  <2>1. l \in Listings
    BY <1>3 DEF GoodListing
  <2> HIDE DEF l
  <2>2. {} \in SUBSET [label : Fs, of : Reports]
    OBVIOUS
  <2> QED
    BY <1>1, <2>1, <2>2 DEF ClientOK, Views
<1>13. ListsFollow'
  <2>1. view'.fs = Listing' \/ Coming("fs")'
    BY <1>5, <1>8, <1>12 DEF Listing, Coming
  <2>2. view'.subvolumes = version'[Subvolumes] \/ Coming("subvolumes")'
    BY <1>5, <1>11, <1>12 DEF ListsFollow
  <2> QED
    BY <2>1, <2>2 DEF ListsFollow
<1>14. ClientOK'
  <2>1. pending' \in Seq(Fs \cup {Null}) /\ Len(pending') <= Cardinality(Fs)
    BY <1>1, <1>3, MountedIs
  <2>2. GoodListing(view'.fs) /\ view'.subvolumes \in (0..changes') \cup {Null} /\ PanelOK'
    BY <1>1, <1>3, <1>5, <1>12 DEF ClientOK, PanelOK
  <2> QED
    BY <1>12, <2>1, <2>2 DEF ClientOK, GoodListing, Distinct, Among
<1>15. ASSUME l = Listing
       PROVE  /\ \A i \in DOMAIN Names : UnderWay("snapshots", Names[i])'
              /\ \A f \in mounted : UnderWay("status", f)'
  <2>1. MountedNames(l) = Names /\ l.mounted = mounted
    BY <1>15 DEF Names, Listing
  <2>2. rs \in Seq(Requests)
    BY <1>4
  <2>3. ASSUME NEW i \in DOMAIN Names
        PROVE  \E q \in DOMAIN toServer' : toServer'[q].kind = "snapshots" /\ toServer'[q].of = Names[i]
    <3>1. i \in DOMAIN queries /\ queries[i].kind = "snapshots" /\ queries[i].of = Names[i]
      BY <1>3, <2>1, <2>3, SnapshotsIs
    <3>2. PICK r \in DOMAIN rs : rs[r] = queries[i]
      BY <1>4, <3>1
    <3> HIDE DEF rs, queries
    <3>3. \E q \in DOMAIN toServer' : toServer'[q] = rs[r]
      BY <1>1, <2>2, AskMoves
    <3> QED
      BY <3>1, <3>2, <3>3
  <2>4. ASSUME NEW f \in mounted
        PROVE  \E q \in DOMAIN toServer' : toServer'[q].kind = "status" /\ toServer'[q].of = f
    <3>1. PICK i \in DOMAIN strip : strip[i].of = f /\ strip[i].kind = "status"
      BY <1>3, <2>1, StripIs
    <3>2. PICK r \in DOMAIN rs : rs[r] = strip[i]
      BY <1>4
    <3> HIDE DEF rs, strip
    <3>3. \E q \in DOMAIN toServer' : toServer'[q] = rs[r]
      BY <1>1, <2>2, AskMoves
    <3> QED
      BY <3>1, <3>2, <3>3
  <2>5. ASSUME NEW i \in DOMAIN Names
        PROVE  UnderWay("snapshots", Names[i])'
    <3>1. Names' = Names
      BY <1>5 DEF Names, Listing
    <3> QED
      BY <2>3, <2>5, <3>1 DEF UnderWay
  <2>6. \A f \in mounted : UnderWay("status", f)'
    BY <2>4 DEF UnderWay
  <2> QED
    BY <2>5, <2>6
<1>16. SnapshotsFollow'
  <2> SUFFICES ASSUME ~Coming("fs")'
               PROVE  /\ DOMAIN pending' = DOMAIN Names'
                      /\ \A i \in DOMAIN Names' :
                           pending'[i] = Names'[i] /\ UnderWay("snapshots", Names[i])'
    BY DEF SnapshotsFollow
  <2>1. l = Listing
    BY <1>8 DEF Coming
  <2>2. Names' = Names /\ pending' = Names
    BY <1>1, <1>5, <2>1 DEF Names, Listing
  <2> QED
    BY <1>15, <2>1, <2>2
<1>17. StripFollows'
  <2> SUFFICES ASSUME ~Coming("fs")'
               PROVE  \A f \in mounted' : UnderWay("status", f)'
    BY DEF StripFollows
  <2>1. l = Listing
    BY <1>8 DEF Coming
  <2> QED
    BY <1>5, <1>15, <2>1
<1>18. PanelFollows'
  <2>1. rs \in Seq(Requests) /\ \A r \in DOMAIN rs : rs[r].kind \notin Slots
    BY <1>4, <1>7 DEF Slots
  <2>2. m.request.kind \notin Slots
    BY <1>1 DEF Slots
  <2> HIDE DEF rs
  <2> QED
    BY <1>1, <2>1, <2>2, PanelStays
<1> QED
  BY <1>10, <1>13, <1>14, <1>16, <1>17, <1>18

(* A listing of snapshots: if no more listings of filesystems come, it is   *)
(* the one of the filesystem at its position, and current.                  *)
LEMMA OnSnapshotsKeeps == ViewInv /\ OnSnapshots => ViewInv'
<1> SUFFICES ASSUME ViewInv, OnSnapshots
             PROVE  ViewInv'
  OBVIOUS
<1> USE DEF ViewInv
<1> DEFINE m == Head(toClient)
           i == m.request.at
           known == i \in DOMAIN pending /\ pending[i] # Null
           entry == [label |-> IF OwnLabel THEN m.result[1] ELSE pending[i], of |-> m.result]
<1>1. /\ Incoming /\ UNCHANGED <<serverVars, toServer, panel, slots, asked>>
      /\ m.request.kind = "snapshots" /\ "request" \in DOMAIN m /\ m.result # Null
      /\ known => /\ view' = [view EXCEPT !.snapshots = {s \in view.snapshots : s.label # pending[i]} \cup {entry}]
                  /\ pending' = [pending EXCEPT ![i] = Null]
      /\ ~known => view' = view /\ pending' = pending
  BY DEF OnSnapshots, IsReply, Result, ReplacedListing
<1> DEFINE rs == <<>>
<1>2. rs \in Seq(Requests) /\ toServer' = toServer \o rs /\ DOMAIN rs = {}
  BY <1>1, NothingAsked
<1>3. m \in Replies /\ m \notin Events
  BY <1>1, TakeMoves, Apart
<1>4. UNCHANGED <<table, mounted, version, changes, bus, missed>>
  BY <1>1 DEF serverVars
<1>5. m.result \in Reports /\ m.result[1] = m.request.of /\ m.result[1] \in Fs /\ m.request \in Requests
  <2>1. GoodReply(m) /\ m.request \in Requests
    BY <1>2, <1>3, <1>4, TakenIsFresh, <1>1
  <2>2. m.result \in Reports /\ m.result[1] = m.request.of
    BY <1>1, <2>1 DEF GoodReply, About
  <2> QED
    BY <2>1, <2>2 DEF Reports
<1>6. (m.result = Answer(m.request) /\ Right(m.request)) \/ Coming("fs")'
  BY <1>1, <1>2, <1>3, <1>4, TakenIsFresh DEF FanOut
<1>7. /\ ServerOK' /\ TravelOK' /\ Fresh' /\ Overtaken'
      /\ \A kind \in Lists : Coming(kind) => Coming(kind)'
  <2>1. \A kind \in Lists : m.request.kind # kind
    BY <1>1 DEF Lists
  <2> HIDE DEF rs
  <2> QED
    BY <1>1, <1>2, <1>3, <2>1, HandleKeeps
<1>8. Coming("fs") => Coming("fs")'
  BY <1>7 DEF Lists
<1>9. pending \in Seq(Fs \cup {Null}) /\ Len(pending) <= Cardinality(Fs)
  BY DEF ClientOK
<1>10. known => pending[i] \in Fs /\ entry \in [label : Fs, of : Reports]
  <2>1. known => pending[i] \in Fs
    BY <1>9
  <2> QED
    BY <1>5, <2>1
<1> HIDE DEF rs, entry
<1>11. /\ view' \in Views /\ view'.fs = view.fs /\ view'.strip = view.strip
       /\ view'.subvolumes = view.subvolumes
       /\ known => view'.snapshots = {s \in view.snapshots : s.label # pending[i]} \cup {entry}
       /\ ~known => view'.snapshots = view.snapshots
  <2>1. view \in Views
    BY DEF ClientOK
  <2>2. CASE known
    <3> DEFINE new == {s \in view.snapshots : s.label # pending[i]} \cup {entry}
    <3>1. new \in SUBSET [label : Fs, of : Reports]
      BY <1>10, <2>1, <2>2 DEF Views
    <3>2. view' = [view EXCEPT !.snapshots = new]
      BY <1>1, <2>2
    <3> HIDE DEF new
    <3>3. /\ view' \in Views /\ view'.fs = view.fs /\ view'.strip = view.strip
          /\ view'.subvolumes = view.subvolumes /\ view'.snapshots = new
      BY <2>1, <3>1, <3>2 DEF Views
    <3> QED
      BY <2>2, <3>3 DEF new
  <2>3. CASE ~known
    BY <1>1, <2>1, <2>3
  <2> QED
    BY <2>2, <2>3
<1>12. /\ pending' \in Seq(Fs \cup {Null}) /\ Len(pending') <= Cardinality(Fs)
       /\ DOMAIN pending' = DOMAIN pending
       /\ \A j \in DOMAIN pending : j # i => pending'[j] = pending[j]
       /\ i \in DOMAIN pending => pending'[i] = Null
  <2>1. CASE known
    BY <1>1, <1>9, <2>1
  <2>2. CASE ~known
    BY <1>1, <1>9, <2>2
  <2> QED
    BY <2>1, <2>2
<1>13. ClientOK'
  BY <1>1, <1>4, <1>11, <1>12 DEF ClientOK, PanelOK, GoodListing, Among, Distinct
<1>14. ListsFollow'
  BY <1>4, <1>7, <1>11 DEF ListsFollow, Listing, Lists
<1>15. ASSUME ~Coming("fs")'
       PROVE  /\ i \in DOMAIN Names /\ Names[i] = m.request.of /\ Names[i] \in mounted
              /\ DOMAIN pending = DOMAIN Names
              /\ \A f : f = Names[i] => Labelled(f)' = Current(f)'
  <2>1. Right(m.request) /\ m.result = Answer(m.request)
    BY <1>6, <1>15
  <2>2. i \in DOMAIN Names /\ Names[i] = m.request.of
    BY <1>1, <2>1 DEF Right
  <2>3. Names[i] \in mounted
    BY <2>2, MountedIs DEF Names, ServerOK, Listing
  <2>4. /\ DOMAIN pending = DOMAIN Names
        /\ \/ pending[i] = Names[i]
           \/ pending[i] = Null /\ Labelled(Names[i]) = Current(Names[i])
    BY <1>8, <1>15, <2>2 DEF SnapshotsFollow
  <2>5. m.result = <<Names[i], version[<<Names[i], "snapshots">>]>>
    BY <1>1, <2>1, <2>2, <2>3, AnswerIs
  <2>6. PICK f : f = Names[i]
    OBVIOUS
  <2>7. Labelled(f)' = Current(f)'
    <3>1. CASE known
      <4>1. pending[i] = f
        BY <2>4, <2>6, <3>1
      <4>2. entry = [label |-> f, of |-> <<f, version[<<f, "snapshots">>]>>]
        BY <1>5, <2>2, <2>5, <2>6, <4>1 DEF entry
      <4>3. view'.snapshots = {s \in view.snapshots : s.label # f} \cup {entry}
        BY <1>11, <3>1, <4>1
      <4>4. entry.label = f
        BY <4>2
      <4>5. {s \in view'.snapshots : s.label = f} = {entry}
        BY <4>3, <4>4
      <4> QED
        BY <1>4, <4>2, <4>5 DEF Labelled, Current
    <3>2. CASE ~known
      <4>1. pending[i] = Null
        BY <2>2, <2>4, <3>2
      <4>2. Labelled(f) = Current(f)
        <5>1. f # Null
          BY <2>3, <2>6, SubjectHas, NullApart
        <5> QED
          BY <2>4, <2>6, <4>1, <5>1
      <4> QED
        BY <1>4, <1>11, <3>2, <4>2 DEF Labelled, Current
    <3> QED
      BY <3>1, <3>2
  <2> QED
    BY <2>2, <2>3, <2>4, <2>6, <2>7
<1>16. SnapshotsFollow'
  <2> SUFFICES ASSUME ~Coming("fs")'
               PROVE  /\ DOMAIN pending' = DOMAIN Names'
                      /\ \A j \in DOMAIN Names' :
                           \/ pending'[j] = Names'[j] /\ UnderWay("snapshots", Names[j])'
                           \/ pending'[j] = Null /\ Labelled(Names[j])' = Current(Names[j])'
    BY DEF SnapshotsFollow
  <2>1. Names' = Names
    BY <1>4 DEF Names, Listing
  <2>2. DOMAIN pending' = DOMAIN Names
    BY <1>12, <1>15
  <2>3. ASSUME NEW j \in DOMAIN Names, j # i
        PROVE  \/ pending'[j] = Names'[j] /\ UnderWay("snapshots", Names[j])'
               \/ pending'[j] = Null /\ Labelled(Names[j])' = Current(Names[j])'
    <3>1. PICK f : f = Names[j]
      OBVIOUS
    <3>2. pending'[j] = pending[j]
      BY <1>12, <1>15, <2>3
    <3>3. f # m.request.of
      BY <1>15, <2>3, <3>1, MountedIs DEF Names, Distinct, ServerOK
    <3>4. \/ pending[j] = f /\ UnderWay("snapshots", f)
          \/ pending[j] = Null /\ Labelled(f) = Current(f)
      BY <1>8, <2>3, <3>1 DEF SnapshotsFollow
    <3>5. CASE pending[j] = f /\ UnderWay("snapshots", f)
      <4>1. UnderWay("snapshots", f)'
        BY <1>1, <1>2, <3>3, <3>5, TakeUnderWay
      <4> QED
        BY <2>1, <3>1, <3>2, <3>5, <4>1 DEF UnderWay
    <3>6. CASE pending[j] = Null /\ Labelled(f) = Current(f)
      <4>1. Labelled(f)' = Labelled(f)
        <5>1. CASE known
          <6>1. pending[i] = m.request.of
            BY <1>8, <1>15, <5>1 DEF SnapshotsFollow
          <6>2. entry.label = m.request.of
            BY <1>5, <6>1 DEF entry
          <6>3. view'.snapshots = {s \in view.snapshots : s.label # m.request.of} \cup {entry}
            BY <1>11, <5>1, <6>1
          <6> QED
            BY <3>3, <6>2, <6>3 DEF Labelled
        <5>2. CASE ~known
          BY <1>11, <5>2 DEF Labelled
        <5> QED
          BY <5>1, <5>2
      <4>2. Current(f)' = Current(f)
        BY <1>4 DEF Current
      <4> QED
        BY <2>1, <3>1, <3>2, <3>6, <4>1, <4>2 DEF Labelled, Current
    <3> QED
      BY <3>4, <3>5, <3>6
  <2>4. ASSUME NEW j \in DOMAIN Names, j = i
        PROVE  pending'[j] = Null /\ Labelled(Names[j])' = Current(Names[j])'
    <3>1. PICK f : f = Names[j]
      OBVIOUS
    <3>2. pending'[j] = Null /\ Labelled(f)' = Current(f)'
      BY <1>12, <1>15, <2>4, <3>1
    <3> QED
      BY <2>1, <3>1, <3>2 DEF Labelled, Current
  <2> HIDE DEF i
  <2> QED
    BY <2>1, <2>2, <2>3, <2>4
<1>17. StripFollows'
  <2> SUFFICES ASSUME ~Coming("fs")', NEW f \in mounted'
               PROVE  UnderWay("status", f)' \/ view'.strip[f] = <<f, version'[<<f, "status">>]>>
    BY DEF StripFollows
  <2>1. UnderWay("status", f) \/ view.strip[f] = <<f, version[<<f, "status">>]>>
    BY <1>4, <1>8 DEF StripFollows
  <2>2. ASSUME UnderWay("status", f)
        PROVE  UnderWay("status", f)'
    <3>1. UnderWay("status", f)' \/ Head(toClient).request.kind = "status"
      BY <1>1, <1>2, <2>2, TakeUnderWay
    <3> QED
      BY <1>1, <3>1
  <2> QED
    BY <1>4, <1>11, <2>1, <2>2
<1>18. PanelFollows'
  BY <1>1, <1>2, PanelStays DEF Slots
<1> QED
  BY <1>7, <1>13, <1>14, <1>16, <1>17, <1>18

(* A status: if no more listings of filesystems come, it is the one of the  *)
(* filesystem at its position in the list that is shown, and current.       *)
LEMMA OnStripKeeps == ViewInv /\ OnStrip => ViewInv'
<1> SUFFICES ASSUME ViewInv, OnStrip
             PROVE  ViewInv'
  OBVIOUS
<1> USE DEF ViewInv
<1> DEFINE m == Head(toClient)
           i == m.request.at
           shown == i \in DOMAIN view.fs.names
<1>1. /\ Incoming /\ UNCHANGED <<serverVars, toServer, pending, panel, slots, asked>>
      /\ m.request.kind = "status" /\ "request" \in DOMAIN m /\ m.result # Null
      /\ shown => view' = [view EXCEPT !.strip[view.fs.names[i]] = m.result]
      /\ ~shown => view' = view
  BY DEF OnStrip, IsReply, Result
<1> DEFINE rs == <<>>
<1>2. rs \in Seq(Requests) /\ toServer' = toServer \o rs /\ DOMAIN rs = {}
  BY <1>1, NothingAsked
<1>3. m \in Replies /\ m \notin Events
  BY <1>1, TakeMoves, Apart
<1>4. UNCHANGED <<table, mounted, version, changes, bus, missed>>
  BY <1>1 DEF serverVars
<1>5. m.result \in Reports
  <2>1. GoodReply(m)
    BY <1>1, <1>2, <1>3, <1>4, TakenIsFresh
  <2> QED
    BY <1>1, <2>1 DEF GoodReply, About
<1>6. (m.result = Answer(m.request) /\ Right(m.request)) \/ Coming("fs")'
  BY <1>1, <1>2, <1>3, <1>4, TakenIsFresh DEF FanOut
<1>7. /\ ServerOK' /\ TravelOK' /\ Fresh' /\ Overtaken'
      /\ \A kind \in Lists : Coming(kind) => Coming(kind)'
  <2>1. \A kind \in Lists : m.request.kind # kind
    BY <1>1 DEF Lists
  <2> HIDE DEF rs
  <2> QED
    BY <1>1, <1>2, <1>3, <2>1, HandleKeeps
<1>8. Coming("fs") => Coming("fs")'
  BY <1>7 DEF Lists
<1> HIDE DEF rs
<1>9. /\ view \in Views /\ view.strip \in [Fs -> Reports \cup {Null}]
      /\ shown => view.fs.names[i] \in Fs
  <2>1. view \in Views /\ view.fs.names \in Seq(Fs)
    BY DEF ClientOK, Views, Listings
  <2> QED
    BY <2>1 DEF Views
<1>10. /\ view' \in Views /\ view'.fs = view.fs /\ view'.snapshots = view.snapshots
       /\ view'.subvolumes = view.subvolumes
       /\ shown => /\ view'.strip[view.fs.names[i]] = m.result
                   /\ \A f \in Fs : f # view.fs.names[i] => view'.strip[f] = view.strip[f]
       /\ ~shown => view'.strip = view.strip
  <2>1. CASE shown
    <3> DEFINE new == [view.strip EXCEPT ![view.fs.names[i]] = m.result]
    <3>1. /\ new \in [Fs -> Reports \cup {Null}] /\ new[view.fs.names[i]] = m.result
          /\ \A f \in Fs : f # view.fs.names[i] => new[f] = view.strip[f]
      BY <1>5, <1>9, <2>1
    <3>2. view' = [view EXCEPT !.strip = new]
      BY <1>1, <2>1
    <3> HIDE DEF new
    <3>3. /\ view' \in Views /\ view'.fs = view.fs /\ view'.strip = new
          /\ view'.subvolumes = view.subvolumes /\ view'.snapshots = view.snapshots
      BY <1>9, <3>1, <3>2 DEF Views
    <3> QED
      BY <2>1, <3>1, <3>3
  <2>2. CASE ~shown
    BY <1>1, <1>9, <2>2
  <2> QED
    BY <2>1, <2>2
<1>11. ClientOK'
  <2>1. UNCHANGED <<pending, panel, slots, changes, view.fs, view.subvolumes>> /\ view' \in Views
    BY <1>1, <1>4, <1>10
  <2>2. GoodListing(view.fs)'
    BY <2>1 DEF ClientOK, GoodListing
  <2> QED
    BY <2>1, <2>2 DEF ClientOK, PanelOK
<1>12. ListsFollow'
  BY <1>4, <1>7, <1>10 DEF ListsFollow, Listing, Lists
<1>13. SnapshotsFollow'
  <2> SUFFICES ASSUME ~Coming("fs")'
               PROVE  /\ DOMAIN pending' = DOMAIN Names'
                      /\ \A j \in DOMAIN Names' :
                           \/ pending'[j] = Names'[j] /\ UnderWay("snapshots", Names[j])'
                           \/ pending'[j] = Null /\ Labelled(Names[j])' = Current(Names[j])'
    BY DEF SnapshotsFollow
  <2>1. Names' = Names
    BY <1>4 DEF Names, Listing
  <2>2. DOMAIN pending' = DOMAIN Names
    BY <1>1, <1>8 DEF SnapshotsFollow
  <2>3. ASSUME NEW j \in DOMAIN Names
        PROVE  \/ pending'[j] = Names'[j] /\ UnderWay("snapshots", Names[j])'
               \/ pending'[j] = Null /\ Labelled(Names[j])' = Current(Names[j])'
    <3>1. PICK f : f = Names[j]
      OBVIOUS
    <3>2. \/ pending[j] = f /\ UnderWay("snapshots", f)
          \/ pending[j] = Null /\ Labelled(f) = Current(f)
      BY <1>8, <3>1 DEF SnapshotsFollow
    <3>3. CASE pending[j] = f /\ UnderWay("snapshots", f)
      <4>1. UnderWay("snapshots", f)' \/ m.request.kind = "snapshots"
        BY <1>1, <1>2, <3>3, TakeUnderWay
      <4>2. UnderWay("snapshots", f)'
        BY <1>1, <4>1
      <4> QED
        BY <1>1, <2>1, <3>1, <3>3, <4>2 DEF UnderWay
    <3>4. CASE pending[j] = Null /\ Labelled(f) = Current(f)
      <4>1. Labelled(f)' = Labelled(f) /\ Current(f)' = Current(f)
        BY <1>4, <1>10 DEF Labelled, Current
      <4> QED
        BY <1>1, <2>1, <3>1, <3>4, <4>1 DEF Labelled, Current
    <3> QED
      BY <3>2, <3>3, <3>4
  <2> QED
    BY <2>1, <2>2, <2>3
<1>14. StripFollows'
  <2> SUFFICES ASSUME ~Coming("fs")', NEW f \in mounted'
               PROVE  UnderWay("status", f)' \/ view'.strip[f] = <<f, version'[<<f, "status">>]>>
    BY DEF StripFollows
  <2>1. Right(m.request) /\ m.result = Answer(m.request)
    BY <1>6
  <2>2. i \in DOMAIN table /\ table[i] = m.request.of /\ m.request.of \in mounted
    BY <1>1, <2>1 DEF Right
  <2>3. view.fs = Listing
    BY <1>8 DEF ListsFollow
  <2>4. shown /\ view.fs.names[i] = m.request.of
    BY <2>2, <2>3 DEF Listing
  <2>5. m.result = <<m.request.of, version[<<m.request.of, "status">>]>>
    BY <1>1, <2>1, <2>2, AnswerIs
  <2>6. CASE f = m.request.of
    <3>1. view'.strip[f] = m.result
      BY <1>10, <2>4, <2>6
    <3>2. m.result = <<f, version[<<f, "status">>]>>
      BY <2>5, <2>6
    <3> QED
      BY <1>4, <3>1, <3>2
  <2>7. CASE f # m.request.of
    <3>1. f \in Fs /\ f \in mounted
      BY <1>4, SubjectHas
    <3>2. view'.strip[f] = view.strip[f]
      BY <1>10, <2>4, <2>7, <3>1
    <3>3. UnderWay("status", f) \/ view.strip[f] = <<f, version[<<f, "status">>]>>
      BY <1>8, <3>1 DEF StripFollows
    <3>4. ASSUME UnderWay("status", f)
          PROVE  UnderWay("status", f)'
      <4>1. UnderWay("status", f)' \/ m.request.of = f
        BY <1>1, <1>2, <3>4, TakeUnderWay
      <4> QED
        BY <2>7, <4>1
    <3> QED
      BY <1>4, <3>2, <3>3, <3>4
  <2> QED
    BY <2>6, <2>7
<1>15. PanelFollows'
  BY <1>1, <1>2, PanelStays DEF Slots
<1> QED
  BY <1>7, <1>11, <1>12, <1>13, <1>14, <1>15

-----------------------------------------------------------------------------
(* The user asks for more.                                                  *)
LEMMA AskKeeps ==
  ASSUME ViewInv, UNCHANGED <<serverVars, toClient, view, pending>>,
         <<changes, asked'>> \in Budget,
         NEW rs \in Seq(Requests), toServer' = toServer \o rs,
         \A r \in DOMAIN rs : GoodRequest(rs[r]) /\ Right(rs[r])
  PROVE  /\ ServerOK' /\ TravelOK' /\ Fresh' /\ Overtaken'
         /\ ListsFollow' /\ SnapshotsFollow' /\ StripFollows'
         /\ PanelOK' => ClientOK'
<1> USE DEF ViewInv
<1>1. /\ UNCHANGED <<table, mounted, version, changes, bus, missed, toClient, view, pending>>
      /\ toServer \in Seq(Requests) /\ DOMAIN toServer \subseteq Nat
  BY DEF serverVars, TravelOK
<1>2. ServerOK' /\ \A kind : Owed(kind) <=> Owed(kind)'
  BY <1>1, SameServer
<1>3. /\ \A kind : \A p : EventAfter(p, kind) <=> EventAfter(p, kind)'
      /\ \A kind : \A p : Replied(kind, p) <=> Replied(kind, p)'
  BY <1>1 DEF EventAfter, Replied, Told, Answered
<1>4. \A kind : Coming(kind) => Coming(kind)'
  BY <1>2, <1>3, AskMoves DEF Coming, Announced
<1>5. ASSUME NEW q \in DOMAIN toServer'
      PROVE  GoodRequest(toServer[q])' /\ (Right(toServer[q])' \/ Announced("fs")' \/ Queued("fs", q)')
  <2>1. CASE q \in DOMAIN toServer
    <3>1. toServer'[q] = toServer[q]
      BY <2>1, AskMoves
    <3>2. GoodRequest(toServer[q]) /\ (Right(toServer[q]) \/ Announced("fs") \/ Queued("fs", q))
      BY <2>1 DEF TravelOK, Overtaken
    <3>3. GoodRequest(toServer[q])'
      BY <3>1, <3>2 DEF GoodRequest
    <3>4. Right(toServer[q]) => Right(toServer[q])'
      BY <1>1, <3>1 DEF Right, Names, Listing
    <3>5. Queued("fs", q) => Queued("fs", q)'
      BY AskMoves
    <3> QED
      BY <1>2, <1>3, <3>2, <3>3, <3>4, <3>5 DEF Announced
  <2>2. CASE q \notin DOMAIN toServer
    <3>1. PICK r \in DOMAIN rs : toServer'[q] = rs[r]
      BY <2>2, AskMoves
    <3>2. GoodRequest(rs[r]) /\ Right(rs[r])
      OBVIOUS
    <3> QED
      BY <1>1, <3>1, <3>2 DEF GoodRequest, Right, Names, Listing
  <2> QED
    BY <2>1, <2>2
<1>6. TravelOK'
  <2>1. toServer' \in Seq(Requests)
    BY AskMoves
  <2>2. \A p \in DOMAIN toClient' : Answered(p)' => GoodReply(toClient[p])'
    BY <1>1 DEF TravelOK, Answered, GoodReply, GoodRequest, GoodListing, Among, Distinct
  <2> QED
    BY <1>1, <1>5, <2>1, <2>2 DEF TravelOK
<1>7. Fresh'
  <2> SUFFICES ASSUME NEW p \in DOMAIN toClient, toClient[p] \in Replies
               PROVE  UpToDate(p)'
    BY <1>1 DEF Fresh, Answered
  <2>1. UpToDate(p)
    BY DEF Fresh, Answered
  <2> DEFINE rq == toClient[p].request
  <2>2. Answer(rq)' = Answer(rq) /\ rq' = rq /\ toClient'[p] = toClient[p]
    BY <1>1 DEF Answer, Listing
  <2>3. /\ Owed(rq.kind) => Owed(rq.kind)'
        /\ EventAfter(p, rq.kind) => EventAfter(p, rq.kind)'
        /\ Replied("subvolumes", p) => Replied("subvolumes", p)'
    BY <1>1 DEF Owed, Unseen, EventAfter, Told, Replied, Answered
  <2> QED
    BY <2>1, <2>2, <2>3 DEF UpToDate
<1>8. Overtaken'
  <2>1. ASSUME NEW p \in DOMAIN toClient', Answered(p)'
        PROVE  (Right(toClient[p].request) \/ Announced("fs") \/ Queued("fs", 0) \/ Replied("fs", p))'
    <3>1. Right(toClient[p].request) \/ Announced("fs") \/ Queued("fs", 0) \/ Replied("fs", p)
      BY <1>1, <2>1 DEF Overtaken, Answered
    <3>2. Right(toClient[p].request) => Right(toClient[p].request)'
      BY <1>1 DEF Right, Names, Listing
    <3> QED
      BY <1>2, <1>3, <3>1, <3>2, AskMoves DEF Announced
  <2> QED
    BY <1>5, <2>1 DEF Overtaken
<1>9. ListsFollow'
  BY <1>1, <1>4 DEF ListsFollow, Listing
<1>10. \A kind : \A f : UnderWay(kind, f) => UnderWay(kind, f)'
  BY <1>1, AskMoves DEF UnderWay, Answered
<1>11. SnapshotsFollow'
  <2> SUFFICES ASSUME ~Coming("fs")'
               PROVE  /\ DOMAIN pending' = DOMAIN Names'
                      /\ \A j \in DOMAIN Names' :
                           \/ pending'[j] = Names'[j] /\ UnderWay("snapshots", Names[j])'
                           \/ pending'[j] = Null /\ Labelled(Names[j])' = Current(Names[j])'
    BY DEF SnapshotsFollow
  <2>1. Names' = Names
    BY <1>1 DEF Names, Listing
  <2>2. ASSUME NEW j \in DOMAIN Names
        PROVE  \/ pending'[j] = Names'[j] /\ UnderWay("snapshots", Names[j])'
               \/ pending'[j] = Null /\ Labelled(Names[j])' = Current(Names[j])'
    <3>1. PICK f : f = Names[j]
      OBVIOUS
    <3>2. \/ pending[j] = f /\ UnderWay("snapshots", f)
          \/ pending[j] = Null /\ Labelled(f) = Current(f)
      BY <1>4, <3>1 DEF SnapshotsFollow
    <3>3. UnderWay("snapshots", f) => UnderWay("snapshots", f)'
      BY <1>10
    <3>4. Labelled(f)' = Labelled(f) /\ Current(f)' = Current(f)
      BY <1>1 DEF Labelled, Current
    <3> QED
      BY <1>1, <2>1, <3>1, <3>2, <3>3, <3>4 DEF UnderWay, Labelled, Current
  <2> QED
    BY <1>1, <1>4, <2>1, <2>2 DEF SnapshotsFollow
<1>12. StripFollows'
  BY <1>1, <1>4, <1>10 DEF StripFollows
<1>13. PanelOK' => ClientOK'
  BY <1>1 DEF ClientOK, GoodListing, Among, Distinct
<1> QED
  BY <1>2, <1>3, <1>6, <1>7, <1>8, <1>9, <1>11, <1>12, <1>13

(* A slot of the panel that does not ask, and one that does.                *)
LEMMA SlotStays ==
  ASSUME TravelOK, NEW k \in Slots, SlotQueries(k), SlotShows(k),
         UNCHANGED <<toClient, panel>>, slots'[k] = slots[k],
         NEW rs \in Seq(Requests), toServer' = toServer \o rs,
         \A r \in DOMAIN rs : rs[r].kind # k
  PROVE  SlotQueries(k)' /\ SlotShows(k)'
<1>1. /\ \A q : Queued(k, q) => Queued(k, q)'
      /\ \A p : Replied(k, p) => Replied(k, p)'
  BY AskMoves DEF Replied, Answered
<1>2. ASSUME NEW q \in DOMAIN toServer', toServer'[q].kind = k
      PROVE  toServer'[q].of = panel' \/ Queued(k, q)' \/ ~slots'[k].asked
  <2>1. q \in DOMAIN toServer /\ toServer'[q] = toServer[q]
    <3>1. \A r \in DOMAIN rs : toServer'[q] # rs[r]
      BY <1>2
    <3> QED
      BY <3>1, AskMoves
  <2> QED
    BY <1>1, <1>2, <2>1 DEF SlotQueries
<1>3. \A p \in DOMAIN toClient' : Answered(p)' /\ toClient'[p].request.kind = k =>
        toClient'[p].request.of = panel' \/ Queued(k, 0)' \/ Replied(k, p)' \/ ~slots'[k].asked
  BY <1>1 DEF SlotQueries, Answered
<1>4. SlotQueries(k)'
  BY <1>2, <1>3 DEF SlotQueries
<1>5. SlotShows(k)'
  BY <1>1 DEF SlotShows
<1> QED
  BY <1>4, <1>5

LEMMA SlotAsks ==
  ASSUME TravelOK, NEW k \in Slots, UNCHANGED toClient,
         NEW rs \in Seq(Requests), DOMAIN rs = {1}, toServer' = toServer \o rs,
         rs[1].kind = k, rs[1].of = panel', slots'[k].shows = Null
  PROVE  SlotQueries(k)' /\ SlotShows(k)'
<1>1. \A q \in 0..Len(toServer) : Queued(k, q)'
  BY AskMoves
<1>2. Len(toServer) \in Nat /\ DOMAIN toServer = 1..Len(toServer)
  BY DEF TravelOK
<1>3. ASSUME NEW q \in DOMAIN toServer', toServer'[q].kind = k
      PROVE  toServer'[q].of = panel' \/ Queued(k, q)' \/ ~slots'[k].asked
  <2>1. CASE q \in DOMAIN toServer
    BY <1>1, <1>2, <2>1
  <2>2. CASE q \notin DOMAIN toServer
    <3>1. toServer'[q] = rs[1]
      BY <2>2, AskMoves
    <3> QED
      BY <3>1
  <2> QED
    BY <2>1, <2>2
<1>4. Queued(k, 0)'
  BY <1>1, <1>2
<1>5. SlotQueries(k)'
  BY <1>3, <1>4 DEF SlotQueries
<1>6. SlotShows(k)'
  BY DEF SlotShows
<1> QED
  BY <1>5, <1>6

(* The lists are asked for, or what a tick shows.                           *)
LEMMA AskStays ==
  ASSUME ViewInv, UNCHANGED <<serverVars, toClient, view, pending, panel, slots>>,
         <<changes, asked'>> \in Budget,
         NEW rs \in Seq(Requests), toServer' = toServer \o rs,
         \A r \in DOMAIN rs : rs[r].kind \in {"fs", "subvolumes", "tick"}
  PROVE  ViewInv'
<1> USE DEF ViewInv
<1>1. \A r \in DOMAIN rs : GoodRequest(rs[r]) /\ Right(rs[r]) /\ rs[r].kind \notin Slots
  BY DEF GoodRequest, Right, About, Slots
<1>2. PanelOK'
  BY DEF ClientOK, PanelOK
<1>3. /\ ServerOK' /\ TravelOK' /\ ClientOK' /\ Fresh' /\ Overtaken'
      /\ ListsFollow' /\ SnapshotsFollow' /\ StripFollows'
  BY <1>1, <1>2, AskKeeps
<1>4. PanelFollows'
  <2> SUFFICES ASSUME NEW k \in Slots
               PROVE  SlotQueries(k)' /\ SlotShows(k)'
    BY DEF PanelFollows
  <2>1. SlotQueries(k) /\ SlotShows(k) /\ \A r \in DOMAIN rs : rs[r].kind # k
    BY <1>1 DEF PanelFollows
  <2> QED
    BY <2>1, SlotStays
<1> QED
  BY <1>3, <1>4

LEMMA UserRefreshKeeps == ViewInv /\ UserRefresh => ViewInv'
<1> SUFFICES ASSUME ViewInv, UserRefresh
             PROVE  ViewInv'
  OBVIOUS
<1> DEFINE rs == RefreshAll
<1>1. /\ UNCHANGED <<serverVars, toClient, view, pending, panel, slots>>
      /\ asked' = asked + 1 /\ <<changes, asked + 1>> \in Budget /\ toServer' = toServer \o rs
  BY DEF UserRefresh, Ask
<1>2. /\ rs \in Seq(Requests) /\ DOMAIN rs = {1, 2}
      /\ rs[1].kind = "fs" /\ rs[2].kind = "subvolumes"
  <2>1. ListFs \in Requests /\ ListSubvolumes \in Requests
        /\ ListFs.kind = "fs" /\ ListSubvolumes.kind = "subvolumes"
    BY RequestIs DEF ListFs, ListSubvolumes, Kinds
  <2> QED
    BY <2>1 DEF RefreshAll
<1> HIDE DEF rs
<1> QED
  BY <1>1, <1>2, AskStays

LEMMA TickKeeps == ViewInv /\ Tick => ViewInv'
<1> SUFFICES ASSUME ViewInv, Tick
             PROVE  ViewInv'
  OBVIOUS
<1> DEFINE rs == <<Request("tick", Null, 0)>>
<1>1. UNCHANGED <<serverVars, toClient, view, pending, panel, slots, asked>> /\ toServer' = toServer \o rs
  BY DEF Tick, Ask, clientVars
<1>2. rs \in Seq(Requests) /\ DOMAIN rs = {1} /\ rs[1].kind = "tick"
  <2>1. Request("tick", Null, 0) \in Requests /\ Request("tick", Null, 0).kind = "tick"
    BY RequestIs DEF Kinds
  <2> QED
    BY <2>1
<1> HIDE DEF rs
<1>3. <<changes, asked'>> \in Budget
  BY <1>1 DEF ViewInv, ServerOK
<1> QED
  BY <1>1, <1>2, <1>3, AskStays

LEMMA OpenFsStatusKeeps ==
  ASSUME ViewInv, NEW f \in Fs, OpenFsStatus(f)
  PROVE  ViewInv'
<1> USE DEF ViewInv
<1> DEFINE rs == <<Request("panel", f, 0)>>
<1>1. /\ UNCHANGED <<serverVars, toClient, view, pending>>
      /\ asked' = asked + 1 /\ <<changes, asked + 1>> \in Budget /\ toServer' = toServer \o rs
      /\ panel' = f /\ slots' = [k \in Slots |-> EmptySlot(k = "panel")]
  BY DEF OpenFsStatus, Ask, ClearedSlots
<1>2. rs \in Seq(Requests) /\ DOMAIN rs = {1} /\ rs[1].kind = "panel" /\ rs[1].of = f
  <2>1. Request("panel", f, 0) \in Requests /\ Request("panel", f, 0).kind = "panel"
        /\ Request("panel", f, 0).of = f
    BY RequestIs DEF Kinds
  <2> QED
    BY <2>1
<1> HIDE DEF rs
<1>3. \A r \in DOMAIN rs : GoodRequest(rs[r]) /\ Right(rs[r])
  BY <1>2 DEF GoodRequest, Right, About
<1>4. \A k \in Slots : slots'[k] = EmptySlot(k = "panel") /\ slots'[k].shows = Null
  BY <1>1 DEF EmptySlot
<1>5. PanelOK'
  BY <1>1 DEF PanelOK, EmptySlot, SlotRecords
<1>6. /\ ServerOK' /\ TravelOK' /\ ClientOK' /\ Fresh' /\ Overtaken'
      /\ ListsFollow' /\ SnapshotsFollow' /\ StripFollows'
  BY <1>1, <1>2, <1>3, <1>5, AskKeeps
<1>7. "panel" \in Slots /\ "raw" \in Slots /\ \A k \in Slots : k = "panel" \/ k = "raw"
  BY DEF Slots
<1>8. SlotQueries("panel")' /\ SlotShows("panel")'
  <2>1. slots'["panel"].shows = Null
    BY <1>4, <1>7
  <2> QED
    BY <1>1, <1>2, <1>7, <2>1, SlotAsks
<1>9. SlotQueries("raw")' /\ SlotShows("raw")'
  <2>1. slots'["raw"].shows = Null
    BY <1>4, <1>7
  <2>2. slots'["raw"].asked = FALSE
    <3>1. slots'["raw"] = EmptySlot(FALSE)
      BY <1>1, <1>7
    <3> QED
      BY <3>1 DEF EmptySlot
  <2> QED
    BY <2>1, <2>2 DEF SlotQueries, SlotShows
<1>10. PanelFollows'
  BY <1>7, <1>8, <1>9 DEF PanelFollows
<1> QED
  BY <1>6, <1>10

LEMMA AskRawKeeps == ViewInv /\ AskRaw => ViewInv'
<1> SUFFICES ASSUME ViewInv, AskRaw
             PROVE  ViewInv'
  OBVIOUS
<1> USE DEF ViewInv
<1> DEFINE rs == <<Request("raw", panel, 0)>>
<1>1. /\ UNCHANGED <<serverVars, toClient, view, pending, panel>> /\ panel # Null
      /\ asked' = asked + 1 /\ <<changes, asked + 1>> \in Budget /\ toServer' = toServer \o rs
      /\ slots' = [slots EXCEPT !["raw"] = EmptySlot(TRUE)]
  BY DEF AskRaw, Ask
<1>2. panel \in Fs /\ slots \in [Slots -> SlotRecords]
  BY <1>1 DEF ClientOK, PanelOK
<1>3. rs \in Seq(Requests) /\ DOMAIN rs = {1} /\ rs[1].kind = "raw" /\ rs[1].of = panel
  <2>1. Request("raw", panel, 0) \in Requests /\ Request("raw", panel, 0).kind = "raw"
        /\ Request("raw", panel, 0).of = panel
    BY <1>2, RequestIs DEF Kinds
  <2> QED
    BY <2>1
<1> HIDE DEF rs
<1>4. \A r \in DOMAIN rs : GoodRequest(rs[r]) /\ Right(rs[r]) /\ rs[r].kind # "panel"
  BY <1>2, <1>3 DEF GoodRequest, Right, About
<1>5. "panel" \in Slots /\ "raw" \in Slots /\ \A k \in Slots : k = "panel" \/ k = "raw"
  BY DEF Slots
<1>6. PanelOK' /\ slots'["panel"] = slots["panel"] /\ slots'["raw"].shows = Null
  <2>1. EmptySlot(TRUE) \in SlotRecords /\ EmptySlot(TRUE).shows = Null
    BY DEF EmptySlot, SlotRecords
  <2> QED
    BY <1>1, <1>2, <1>5, <2>1 DEF PanelOK
<1>7. /\ ServerOK' /\ TravelOK' /\ ClientOK' /\ Fresh' /\ Overtaken'
      /\ ListsFollow' /\ SnapshotsFollow' /\ StripFollows'
  BY <1>1, <1>3, <1>4, <1>6, AskKeeps
<1>8. SlotQueries("panel")' /\ SlotShows("panel")'
  <2>1. SlotQueries("panel") /\ SlotShows("panel")
    BY <1>5 DEF PanelFollows
  <2> QED
    BY <1>1, <1>3, <1>4, <1>5, <1>6, <2>1, SlotStays
<1>9. SlotQueries("raw")' /\ SlotShows("raw")'
  BY <1>1, <1>3, <1>5, <1>6, SlotAsks
<1>10. PanelFollows'
  BY <1>5, <1>8, <1>9 DEF PanelFollows
<1> QED
  BY <1>7, <1>10

-----------------------------------------------------------------------------
(* The connection: an answer, an event on its way.                          *)
LEMMA CourseKeeps ==
  ASSUME ViewInv, UNCHANGED <<table, mounted, version, clientVars>>,
         Coming("fs") => Coming("fs")', Coming("subvolumes") => Coming("subvolumes")',
         \A kind : \A f : UnderWay(kind, f) => UnderWay(kind, f)'
  PROVE  ListsFollow' /\ SnapshotsFollow' /\ StripFollows'
<1> USE DEF ViewInv
<1>1. UNCHANGED <<table, mounted, version, view, pending>>
  BY DEF clientVars
<1>2. ListsFollow'
  BY <1>1 DEF ListsFollow, Listing
<1>3. SnapshotsFollow'
  <2> SUFFICES ASSUME ~Coming("fs")'
               PROVE  /\ DOMAIN pending' = DOMAIN Names'
                      /\ \A j \in DOMAIN Names' :
                           \/ pending'[j] = Names'[j] /\ UnderWay("snapshots", Names[j])'
                           \/ pending'[j] = Null /\ Labelled(Names[j])' = Current(Names[j])'
    BY DEF SnapshotsFollow
  <2>1. Names' = Names
    BY <1>1 DEF Names, Listing
  <2>2. ASSUME NEW j \in DOMAIN Names
        PROVE  \/ pending'[j] = Names'[j] /\ UnderWay("snapshots", Names[j])'
               \/ pending'[j] = Null /\ Labelled(Names[j])' = Current(Names[j])'
    <3>1. PICK f : f = Names[j]
      OBVIOUS
    <3>2. \/ pending[j] = f /\ UnderWay("snapshots", f)
          \/ pending[j] = Null /\ Labelled(f) = Current(f)
      BY <3>1 DEF SnapshotsFollow
    <3>3. UnderWay("snapshots", f) => UnderWay("snapshots", f)'
      OBVIOUS
    <3>4. Labelled(f)' = Labelled(f) /\ Current(f)' = Current(f)
      BY <1>1 DEF Labelled, Current
    <3> QED
      BY <1>1, <2>1, <3>1, <3>2, <3>3, <3>4 DEF UnderWay, Labelled, Current
  <2> QED
    BY <1>1, <2>1, <2>2 DEF SnapshotsFollow
<1>4. StripFollows'
  BY <1>1 DEF StripFollows
<1> QED
  BY <1>2, <1>3, <1>4

(* What is missed is caught up with by a list that was answered; the one of *)
(* filesystems only when no query of an earlier one is under way.           *)
LEMMA ReplyKeeps ==
  ASSUME ViewInv, NEW result, ReplyWith(result),
         NEW m \in Replies, m = [request |-> Head(toServer), result |-> result], GoodReply(m),
         changes' \in {changes, changes + 1}, <<changes', asked>> \in Budget,
         missed' \subseteq {"fs", "subvolumes"},
         m.request.kind \in Listed => result = Answer(m.request) \/ Unseen(m.request.kind)',
         "fs" \in missed => "fs" \in missed' \/ (m.request.kind = "fs" /\ Alone),
         "subvolumes" \in missed => "subvolumes" \in missed' \/ m.request.kind = "subvolumes"
  PROVE  ViewInv'
<1> USE DEF ViewInv
<1>1. UNCHANGED <<table, mounted, version, bus, view, pending, panel, slots, asked>>
  BY DEF ReplyWith, clientVars
<1> DEFINE n == Len(toClient) + 1
<1>3. /\ toServer # <<>> /\ m.request = toServer[1] /\ 1 \in DOMAIN toServer
      /\ m.result = result
      /\ toServer' \in Seq(Requests)
      /\ \A q \in DOMAIN toServer' : q + 1 \in DOMAIN toServer /\ toServer'[q] = toServer[q + 1]
      /\ toClient' \in Seq(Replies \cup Events)
      /\ DOMAIN toClient' = DOMAIN toClient \cup {n}
      /\ \A p \in DOMAIN toClient : toClient'[p] = toClient[p]
      /\ toClient'[n] = m
  BY ReplyMoves
<1>4. /\ toServer \in Seq(Requests) /\ toClient \in Seq(Replies \cup Events)
      /\ DOMAIN toClient = 1..Len(toClient) /\ Len(toClient) \in Nat
      /\ DOMAIN toServer' \subseteq Nat
  BY <1>3 DEF TravelOK
<1>5. n > 0 /\ \A p \in DOMAIN toClient : n > p
  BY <1>4
<1> HIDE DEF n
<1>6. /\ \A kind : \A p : EventAfter(p, kind) <=> EventAfter(p, kind)'
      /\ \A kind : \A q \in Nat : Queued(kind, q + 1) => Queued(kind, q)'
      /\ \A kind : \A p \in 0..Len(toClient) :
           Replied(kind, p) \/ Queued(kind, 0) => Replied(kind, p)' \/ Queued(kind, 0)'
      /\ \A kind : \A f : UnderWay(kind, f) => UnderWay(kind, f)'
  BY ReplyMoves
<1>7. 0 \in 0..Len(toClient) /\ \A p \in DOMAIN toClient : p \in 0..Len(toClient)
  BY <1>4
<1> DEFINE Cleared == m.request.kind = "fs" /\ Alone
<1>8. ASSUME NEW kind, Owed(kind)
      PROVE  \/ Owed(kind)'
             \/ kind # "subvolumes" /\ Cleared
             \/ kind = "subvolumes" /\ m.request.kind = "subvolumes"
  <2>1. CASE \E i \in DOMAIN bus : Stirs(bus[i], kind)
    BY <1>1, <2>1 DEF Owed
  <2>2. CASE Unseen(kind)
    BY <2>2 DEF Owed, Unseen
  <2> QED
    BY <1>8, <2>1, <2>2 DEF Owed
<1>9. /\ Cleared => \A q \in DOMAIN toServer : q > 1 => toServer[q].kind \notin FanOut
      /\ Cleared => \A p \in DOMAIN toClient :
                      Answered(p) => toClient[p].request.kind \notin FanOut
  BY Apart DEF Alone, Answered
<1>10. \A kind : m.request.kind = kind => /\ Replied(kind, 0)'
                                         /\ \A p \in DOMAIN toClient : Replied(kind, p)'
  BY <1>3, <1>5 DEF Replied, Answered
<1> HIDE DEF Cleared
<1>11. Announced("fs") => Announced("fs")' \/ Cleared
  BY <1>6, <1>8 DEF Announced
<1>12. /\ Coming("fs") => Coming("fs")'
       /\ Coming("subvolumes") => Coming("subvolumes")'
  <2>1. Cleared => Replied("fs", 0)'
    BY <1>10 DEF Cleared
  <2>2. Coming("fs") => Coming("fs")'
    BY <1>6, <1>7, <1>11, <2>1 DEF Coming
  <2>3. Announced("subvolumes") => Announced("subvolumes")' \/ m.request.kind = "subvolumes"
    BY <1>6, <1>8 DEF Announced
  <2>4. Coming("subvolumes") => Coming("subvolumes")'
    BY <1>6, <1>7, <1>10, <2>3 DEF Coming
  <2> QED
    BY <2>2, <2>4
<1>13. ListsFollow' /\ SnapshotsFollow' /\ StripFollows'
  BY <1>1, <1>6, <1>12, CourseKeeps DEF clientVars
<1>14. changes \in Nat /\ changes <= changes' /\ (0..changes) \subseteq (0..changes')
  BY SubjectHas
<1>15. ServerOK'
  <2>1. version[Subvolumes] \in 0..changes /\ Len(bus) \in Nat /\ Len(bus) <= changes /\ changes' \in Nat
    BY <1>14, SubjectHas DEF ServerOK
  <2>2. version'[Subvolumes] <= changes' /\ Len(bus') <= changes'
    BY <1>1, <1>14, <2>1
  <2> QED
    BY <1>1, <2>2 DEF ServerOK, GoodListing, Listing, Among, Distinct
<1>16. ClientOK'
  BY <1>1, <1>14 DEF ClientOK, PanelOK, GoodListing, Among, Distinct
<1>17. ASSUME NEW p \in DOMAIN toClient'
       PROVE  \/ p = n /\ toClient'[p] = m
              \/ p \in DOMAIN toClient /\ toClient'[p] = toClient[p]
  <2>1. p = n \/ p \in DOMAIN toClient
    BY <1>3
  <2>2. toClient'[n] = m
    BY <1>3
  <2>3. p \in DOMAIN toClient => toClient'[p] = toClient[p]
    BY <1>3
  <2> QED
    BY <2>1, <2>2, <2>3
<1>18. \A x : GoodReply(x) => GoodReply(x)'
  BY <1>14 DEF GoodReply, GoodRequest, GoodListing, Among, Distinct
<1>19. TravelOK'
  <2>1. \A q \in DOMAIN toServer' : GoodRequest(toServer[q])'
    BY <1>3 DEF TravelOK, GoodRequest
  <2>2. ASSUME NEW p \in DOMAIN toClient', Answered(p)'
        PROVE  GoodReply(toClient[p])'
    <3>1. PICK x : x = toClient'[p]
      OBVIOUS
    <3>2. GoodReply(x)
      BY <1>17, <2>2, <3>1 DEF TravelOK, Answered
    <3>3. GoodReply(x)'
      BY <1>18, <3>2
    <3> QED
      BY <3>1, <3>3 DEF GoodReply, GoodRequest
  <2> QED
    BY <1>3, <2>1, <2>2 DEF TravelOK
<1>20. \A rq : Answer(rq)' = Answer(rq)
  BY <1>1 DEF Answer, Listing
<1>21. Fresh'
  <2> SUFFICES ASSUME NEW p \in DOMAIN toClient', Answered(p)'
               PROVE  UpToDate(p)'
    BY DEF Fresh
  <2>1. CASE p = n /\ toClient'[p] = m
    BY <1>3, <1>20, <2>1 DEF UpToDate, Owed, Unseen
  <2>2. CASE p \in DOMAIN toClient /\ toClient'[p] = toClient[p]
    <3>1. PICK x : x = toClient[p]
      OBVIOUS
    <3>2. PICK k : k = x.request.kind
      OBVIOUS
    <3> SUFFICES ASSUME k \in Listed
                 PROVE  \/ x.result = Answer(x.request)' \/ Owed(k)' \/ EventAfter(p, k)'
                        \/ k = "subvolumes" /\ Replied("subvolumes", p)'
      BY <2>2, <3>1, <3>2 DEF UpToDate, Answer, Listing, Owed, Unseen, EventAfter, Told
    <3>3. \/ x.result = Answer(x.request) \/ Owed(k) \/ EventAfter(p, k)
          \/ k = "subvolumes" /\ Replied("subvolumes", p)
      BY <2>2, <3>1, <3>2 DEF Fresh, UpToDate, Answered
    <3>4. CASE x.result = Answer(x.request)
      BY <1>20, <3>4
    <3>5. CASE Owed(k)
      <4>1. k # "subvolumes" => ~Cleared
        BY <1>9, <2>2, <3>1, <3>2 DEF Listed, Answered
      <4> QED
        BY <1>8, <1>10, <2>2, <3>5, <4>1
    <3>6. CASE EventAfter(p, k)
      BY <1>6, <3>6
    <3>7. CASE k = "subvolumes" /\ Replied("subvolumes", p)
      BY <1>3, <2>2, <3>7 DEF Replied, Answered
    <3> QED
      BY <3>3, <3>4, <3>5, <3>6, <3>7
  <2> QED
    BY <1>17, <2>1, <2>2
<1>22. /\ \A rq : Right(rq) => Right(rq)'
       /\ \A rq : rq.kind \notin FanOut => Right(rq)'
  BY <1>1 DEF Right, Names, Listing, FanOut
<1>23. Overtaken'
  <2>1. ASSUME NEW q \in DOMAIN toServer'
        PROVE  (Right(toServer[q]) \/ Announced("fs") \/ Queued("fs", q))'
    <3>1. q + 1 \in DOMAIN toServer /\ toServer'[q] = toServer[q + 1] /\ q \in Nat /\ q + 1 > 1
      <4>1. DOMAIN toServer' = 1..Len(toServer')
        BY <1>3
      <4> QED
        BY <1>3, <1>4, <4>1
    <3>2. PICK x : x = toServer[q + 1]
      OBVIOUS
    <3>3. Right(x) \/ Announced("fs") \/ Queued("fs", q + 1)
      BY <3>1, <3>2 DEF Overtaken
    <3>4. Cleared => x.kind \notin FanOut
      BY <1>9, <3>1, <3>2
    <3>5. Right(x)' \/ Announced("fs")' \/ Queued("fs", q)'
      BY <1>6, <1>11, <1>22, <3>1, <3>3, <3>4
    <3> QED
      BY <3>1, <3>2, <3>5 DEF Right
  <2>2. ASSUME NEW p \in DOMAIN toClient', Answered(p)'
        PROVE  (Right(toClient[p].request) \/ Announced("fs") \/ Queued("fs", 0) \/ Replied("fs", p))'
    <3>1. CASE p = n /\ toClient'[p] = m
      <4>1. PICK x : x = toServer[1]
        OBVIOUS
      <4>2. Right(x) \/ Announced("fs") \/ Queued("fs", 1)
        BY <1>3, <4>1 DEF Overtaken
      <4>3. Queued("fs", 0 + 1) => Queued("fs", 0)'
        BY <1>6
      <4>4. Cleared => Right(x)'
        BY <1>3, <4>1 DEF Cleared, Right
      <4>5. Right(x)' \/ Announced("fs")' \/ Queued("fs", 0)'
        BY <1>11, <1>22, <4>2, <4>3, <4>4
      <4> QED
        BY <1>3, <3>1, <4>1, <4>5 DEF Right
    <3>2. CASE p \in DOMAIN toClient /\ toClient'[p] = toClient[p]
      <4>1. PICK x : x = toClient[p].request
        OBVIOUS
      <4>2. Right(x) \/ Announced("fs") \/ Queued("fs", 0) \/ Replied("fs", p)
        BY <2>2, <3>2, <4>1 DEF Overtaken, Answered
      <4>3. p \in 0..Len(toClient)
        BY <1>7, <3>2
      <4>4. Cleared => x.kind \notin FanOut
        BY <1>9, <2>2, <3>2, <4>1 DEF Answered
      <4>5. Right(x)' \/ Announced("fs")' \/ Queued("fs", 0)' \/ Replied("fs", p)'
        BY <1>6, <1>11, <1>22, <4>2, <4>3, <4>4
      <4> QED
        BY <3>2, <4>1, <4>5 DEF Right
    <3> QED
      BY <1>17, <3>1, <3>2
  <2> QED
    BY <2>1, <2>2 DEF Overtaken
<1>24. ASSUME NEW k \in Slots
       PROVE  SlotQueries(k)' /\ SlotShows(k)'
  <2>0. SlotQueries(k) /\ SlotShows(k)
    BY DEF PanelFollows
  <2>1. ASSUME NEW q \in DOMAIN toServer', toServer'[q].kind = k
        PROVE  toServer'[q].of = panel' \/ Queued(k, q)' \/ ~slots'[k].asked
    <3>1. q + 1 \in DOMAIN toServer /\ toServer'[q] = toServer[q + 1] /\ q \in Nat
      BY <1>3, <1>4
    <3>2. toServer[q + 1].of = panel \/ Queued(k, q + 1) \/ ~slots[k].asked
      BY <2>0, <2>1, <3>1 DEF SlotQueries
    <3> QED
      BY <1>1, <1>6, <3>1, <3>2
  <2>2. ASSUME NEW p \in DOMAIN toClient', Answered(p)', toClient'[p].request.kind = k
        PROVE  toClient'[p].request.of = panel' \/ Queued(k, 0)' \/ Replied(k, p)' \/ ~slots'[k].asked
    <3>1. CASE p = n /\ toClient'[p] = m
      <4>1. toServer[1].of = panel \/ Queued(k, 1) \/ ~slots[k].asked
        BY <1>3, <2>0, <2>2, <3>1 DEF SlotQueries
      <4>2. Queued(k, 0 + 1) => Queued(k, 0)'
        BY <1>6
      <4> QED
        BY <1>1, <1>3, <3>1, <4>1, <4>2
    <3>2. CASE p \in DOMAIN toClient /\ toClient'[p] = toClient[p]
      <4>1. toClient[p].request.of = panel \/ Queued(k, 0) \/ Replied(k, p) \/ ~slots[k].asked
        BY <2>0, <2>2, <3>2 DEF SlotQueries, Answered
      <4>2. p \in 0..Len(toClient)
        BY <1>7, <3>2
      <4> QED
        BY <1>1, <1>6, <3>2, <4>1, <4>2
    <3> QED
      BY <1>17, <3>1, <3>2
  <2>3. SlotQueries(k)'
    BY <2>1, <2>2 DEF SlotQueries
  <2>4. Queued(k, 0) \/ Replied(k, 0) => Queued(k, 0)' \/ Replied(k, 0)'
    BY <1>6, <1>7
  <2>5. SlotShows(k)'
    BY <1>1, <2>0, <2>4 DEF SlotShows
  <2> QED
    BY <2>3, <2>5
<1>25. PanelFollows'
  BY <1>24 DEF PanelFollows
<1> QED
  BY <1>13, <1>15, <1>16, <1>19, <1>21, <1>23, <1>25

LEMMA ServeKeeps == ViewInv /\ Serve => ViewInv'
<1> SUFFICES ASSUME ViewInv, Serve
             PROVE  ViewInv'
  OBVIOUS
<1> DEFINE rq == Head(toServer)
           m == [request |-> rq, result |-> Answer(rq)]
<1>1. ReplyWith(Answer(rq)) /\ missed' = CaughtUp(rq.kind) /\ changes' = changes
  BY DEF Serve
<1>2. rq \in Requests /\ GoodRequest(rq)
  <2>1. toServer \in Seq(Requests) /\ toServer # <<>>
    BY <1>1 DEF ViewInv, TravelOK, ReplyWith
  <2>2. rq = toServer[1] /\ 1 \in DOMAIN toServer /\ rq \in Requests
    BY <2>1
  <2> QED
    BY <2>2 DEF ViewInv, TravelOK
<1>3. m \in Replies /\ GoodReply(m) /\ m.request = rq
  BY <1>2, AnswerGood DEF ViewInv
<1>4. missed \subseteq {"fs", "subvolumes"} /\ <<changes', asked>> \in Budget
  BY <1>1 DEF ViewInv, ServerOK
<1>5. /\ missed' \subseteq {"fs", "subvolumes"}
      /\ "fs" \in missed => "fs" \in missed' \/ (rq.kind = "fs" /\ Alone)
      /\ "subvolumes" \in missed => "subvolumes" \in missed' \/ rq.kind = "subvolumes"
  <2> HIDE DEF rq
  <2> QED
    BY <1>1, <1>4 DEF CaughtUp, Serves, FanOut
<1>6. PICK result : result = Answer(rq)
  OBVIOUS
<1>7. PICK x : x = m
  OBVIOUS
<1> HIDE DEF m
<1>8. ReplyWith(result) /\ x \in Replies /\ GoodReply(x) /\ x.request = rq
      /\ x = [request |-> Head(toServer), result |-> result] /\ result = Answer(x.request)
  BY <1>1, <1>3, <1>6, <1>7 DEF m
<1> QED
  BY <1>1, <1>4, <1>5, <1>8, ReplyKeeps

LEMMA RefuseKeeps == ViewInv /\ Refuse => ViewInv'
<1> SUFFICES ASSUME ViewInv, Refuse
             PROVE  ViewInv'
  OBVIOUS
<1> DEFINE rq == Head(toServer)
           m == [request |-> rq, result |-> Null]
<1>1. /\ ReplyWith(Null) /\ missed' = missed \cup Serves(rq.kind)
      /\ changes' = changes + 1 /\ <<changes', asked>> \in Budget
  BY DEF Refuse
<1>2. rq \in Requests /\ GoodRequest(rq)
  <2>1. toServer \in Seq(Requests) /\ toServer # <<>>
    BY <1>1 DEF ViewInv, TravelOK, ReplyWith
  <2>2. rq = toServer[1] /\ 1 \in DOMAIN toServer /\ rq \in Requests
    BY <2>1
  <2> QED
    BY <2>2 DEF ViewInv, TravelOK
<1>3. m \in Replies /\ GoodReply(m) /\ m.request = rq
  BY <1>2, RefusalGood
<1>4. missed \subseteq {"fs", "subvolumes"}
  BY DEF ViewInv, ServerOK
<1>5. PICK x : x = m
  OBVIOUS
<1>6. PICK k : k = rq.kind
  OBVIOUS
<1>7. /\ missed' \subseteq {"fs", "subvolumes"} /\ missed \subseteq missed'
      /\ k \in Listed => Unseen(k)'
  <2>1. missed' = missed \cup Serves(k) /\ Serves(k) \subseteq {"fs", "subvolumes"}
    BY <1>1, <1>6 DEF Serves
  <2>2. k \in Listed => Unseen(k)'
    BY <2>1 DEF Unseen, Serves, Listed, FanOut
  <2> QED
    BY <1>4, <2>1, <2>2
<1> HIDE DEF m
<1>8. x \in Replies /\ GoodReply(x) /\ x.request.kind = k
      /\ x = [request |-> Head(toServer), result |-> Null]
  BY <1>3, <1>5, <1>6 DEF m
<1>9. x.request.kind \in Listed => Unseen(x.request.kind)'
  BY <1>7, <1>8 DEF Unseen
<1>10. /\ "fs" \in missed => "fs" \in missed'
       /\ "subvolumes" \in missed => "subvolumes" \in missed'
  BY <1>7
<1> QED
  BY <1>1, <1>7, <1>8, <1>9, <1>10, ReplyKeeps

LEMMA ForwardKeeps == ViewInv /\ Forward => ViewInv'
<1> SUFFICES ASSUME ViewInv, Forward
             PROVE  ViewInv'
  OBVIOUS
<1> USE DEF ViewInv
<1>1. UNCHANGED <<table, mounted, version, changes, missed, toServer, view, pending, panel, slots, asked>>
  BY DEF Forward, clientVars
<1> DEFINE n == Len(toClient) + 1
<1>2. /\ bus' \in Seq(EventKinds) /\ Len(bus') <= Len(bus)
      /\ toClient' \in Seq(Replies \cup Events)
      /\ DOMAIN toClient' = DOMAIN toClient \cup {n}
      /\ \A p \in DOMAIN toClient : toClient'[p] = toClient[p]
      /\ toClient'[n] \in Events
      /\ \A kind : \A p \in 0..Len(toClient) :
           Owed(kind) \/ EventAfter(p, kind) => Owed(kind)' \/ EventAfter(p, kind)'
      /\ \A kind : \A q : Queued(kind, q) <=> Queued(kind, q)'
      /\ \A kind : \A p : Replied(kind, p) <=> Replied(kind, p)'
      /\ \A kind : \A f : UnderWay(kind, f) <=> UnderWay(kind, f)'
  BY ForwardMoves
<1>3. /\ toClient \in Seq(Replies \cup Events)
      /\ DOMAIN toClient = 1..Len(toClient) /\ Len(toClient) \in Nat
      /\ bus \in Seq(EventKinds) /\ Len(bus) <= changes /\ changes \in Nat
  BY SubjectHas DEF TravelOK, ServerOK
<1> HIDE DEF n
<1>4. 0 \in 0..Len(toClient) /\ \A p \in DOMAIN toClient : p \in 0..Len(toClient)
  BY <1>3
<1>5. \A kind : Announced(kind) => Announced(kind)'
  BY <1>2, <1>4 DEF Announced
<1>6. \A kind : Coming(kind) => Coming(kind)'
  BY <1>2, <1>5 DEF Coming
<1>7. ListsFollow' /\ SnapshotsFollow' /\ StripFollows'
  BY <1>1, <1>2, <1>6, CourseKeeps DEF clientVars
<1>8. ServerOK'
  <2>1. Len(bus') <= changes'
    BY <1>1, <1>2, <1>3
  <2> QED
    BY <1>1, <1>2, <2>1 DEF ServerOK, GoodListing, Listing, Among, Distinct
<1>9. ClientOK'
  BY <1>1 DEF ClientOK, PanelOK, GoodListing, Among, Distinct
<1>10. ASSUME NEW p \in DOMAIN toClient', toClient'[p] \in Replies
       PROVE  p \in DOMAIN toClient /\ toClient'[p] = toClient[p] /\ p \in 0..Len(toClient)
  BY <1>2, <1>4, <1>10, Apart
<1>11. TravelOK'
  <2>1. ASSUME NEW p \in DOMAIN toClient', Answered(p)'
        PROVE  GoodReply(toClient[p])'
    <3>1. p \in DOMAIN toClient /\ toClient'[p] = toClient[p] /\ toClient[p] \in Replies
      BY <1>10, <2>1 DEF Answered
    <3>2. GoodReply(toClient[p])
      BY <3>1 DEF TravelOK, Answered
    <3> QED
      BY <1>1, <3>1, <3>2 DEF GoodReply, GoodRequest, GoodListing, Among, Distinct
  <2> QED
    BY <1>1, <1>2, <2>1 DEF TravelOK, GoodRequest
<1>12. Fresh'
  <2> SUFFICES ASSUME NEW p \in DOMAIN toClient', Answered(p)'
               PROVE  UpToDate(p)'
    BY DEF Fresh
  <2>1. /\ p \in DOMAIN toClient /\ toClient'[p] = toClient[p] /\ toClient[p] \in Replies
        /\ p \in 0..Len(toClient)
    BY <1>10 DEF Answered
  <2>2. PICK k : k = toClient[p].request.kind
    OBVIOUS
  <2>3. k \in Listed =>
          \/ toClient[p].result = Answer(toClient[p].request) \/ Owed(k) \/ EventAfter(p, k)
          \/ k = "subvolumes" /\ Replied("subvolumes", p)
    BY <2>1, <2>2 DEF Fresh, UpToDate, Answered
  <2>4. Answer(toClient[p].request)' = Answer(toClient[p].request)
    BY <1>1, <2>1 DEF Answer, Listing
  <2>5. k \in Listed =>
          \/ toClient'[p].result = Answer(toClient[p].request)' \/ Owed(k)' \/ EventAfter(p, k)'
          \/ k = "subvolumes" /\ Replied("subvolumes", p)'
    BY <1>2, <2>1, <2>3, <2>4
  <2> QED
    BY <2>1, <2>2, <2>5 DEF UpToDate, Owed, Unseen, EventAfter, Told
<1>13. Overtaken'
  <2>1. ASSUME NEW q \in DOMAIN toServer'
        PROVE  (Right(toServer[q]) \/ Announced("fs") \/ Queued("fs", q))'
    <3>1. Right(toServer[q]) \/ Announced("fs") \/ Queued("fs", q)
      BY <1>1 DEF Overtaken
    <3>2. CASE Right(toServer[q])
      BY <1>1, <3>2 DEF Right, Names, Listing
    <3> QED
      BY <1>2, <1>5, <3>1, <3>2
  <2>2. ASSUME NEW p \in DOMAIN toClient', Answered(p)'
        PROVE  (Right(toClient[p].request) \/ Announced("fs") \/ Queued("fs", 0) \/ Replied("fs", p))'
    <3>1. p \in DOMAIN toClient /\ toClient'[p] = toClient[p] /\ toClient[p] \in Replies
      BY <1>10, <2>2 DEF Answered
    <3>2. Right(toClient[p].request) \/ Announced("fs") \/ Queued("fs", 0) \/ Replied("fs", p)
      BY <3>1 DEF Overtaken, Answered
    <3>3. CASE Right(toClient[p].request)
      BY <1>1, <3>1, <3>3 DEF Right, Names, Listing
    <3> QED
      BY <1>2, <1>5, <3>2, <3>3
  <2> QED
    BY <2>1, <2>2 DEF Overtaken
<1>14. ASSUME NEW k \in Slots
       PROVE  SlotQueries(k)' /\ SlotShows(k)'
  <2>1. SlotQueries(k) /\ SlotShows(k)
    BY DEF PanelFollows
  <2>2. ASSUME NEW p \in DOMAIN toClient', toClient'[p] \in Replies, toClient'[p].request.kind = k
        PROVE  toClient'[p].request.of = panel' \/ Queued(k, 0)' \/ Replied(k, p)' \/ ~slots'[k].asked
    <3>1. p \in DOMAIN toClient /\ toClient'[p] = toClient[p] /\ toClient[p] \in Replies
      BY <1>10, <2>2
    <3>2. toClient[p].request.of = panel \/ Queued(k, 0) \/ Replied(k, p) \/ ~slots[k].asked
      BY <2>1, <2>2, <3>1 DEF SlotQueries, Answered
    <3> QED
      BY <1>1, <1>2, <3>1, <3>2
  <2>3. SlotQueries(k)'
    BY <1>1, <1>2, <2>1, <2>2 DEF SlotQueries, Answered
  <2>4. SlotShows(k)'
    BY <1>1, <1>2, <2>1 DEF SlotShows
  <2> QED
    BY <2>3, <2>4
<1>15. PanelFollows'
  BY <1>14 DEF PanelFollows
<1> QED
  BY <1>7, <1>8, <1>9, <1>11, <1>12, <1>13, <1>15

-----------------------------------------------------------------------------
(* The server's changes: each is announced by its event, or missed.         *)
LEMMA ChangeKeeps ==
  ASSUME ViewInv, NEW e \in EventKinds, NEW also \in SUBSET {"fs", "subvolumes"},
         Changed(e, also),
         GoodListing(Listing)', version' \in [Subject -> Nat], version'[Subvolumes] <= changes + 1,
         e = "subvolume" => UNCHANGED <<table, mounted>>
                            /\ \A f \in Fs : /\ version'[<<f, "snapshots">>] = version[<<f, "snapshots">>]
                                             /\ version'[<<f, "status">>] = version[<<f, "status">>],
         e # "subvolume" => version'[Subvolumes] = version[Subvolumes] \/ "subvolumes" \in also
  PROVE  ViewInv'
<1> USE DEF ViewInv
<1>1. /\ changes' = changes + 1 /\ <<changes + 1, asked>> \in Budget
      /\ UNCHANGED <<toServer, toClient, view, pending, panel, slots, asked>>
  BY DEF Changed, clientVars
<1>2. /\ bus' \in Seq(EventKinds) /\ Len(bus') <= Len(bus) + 1
      /\ missed' \subseteq {"fs", "subvolumes"} /\ also \subseteq missed'
      /\ \A kind : Owed(kind) => Owed(kind)'
      /\ \A kind : Stirs(e, kind) => Owed(kind)'
      /\ \A kind : \A p : EventAfter(p, kind) <=> EventAfter(p, kind)'
      /\ \A kind : \A q : Queued(kind, q) <=> Queued(kind, q)'
      /\ \A kind : \A p : Replied(kind, p) <=> Replied(kind, p)'
      /\ \A kind : \A f : UnderWay(kind, f) <=> UnderWay(kind, f)'
  BY ChangeMoves
<1>3. changes \in Nat /\ Len(bus) \in Nat /\ Len(bus) <= changes
  BY SubjectHas DEF ServerOK
<1>4. ServerOK'
  <2>0. Len(bus') \in Nat
    BY <1>2
  <2>1. Len(bus') <= changes' /\ version'[Subvolumes] <= changes' /\ <<changes', asked'>> \in Budget
    BY <1>1, <1>2, <1>3, <2>0
  <2> QED
    BY <1>2, <2>1 DEF ServerOK
<1>5. 0..changes \subseteq 0..changes'
  BY <1>1, <1>3
<1>6. ClientOK'
  BY <1>1, <1>5 DEF ClientOK, PanelOK, GoodListing, Among, Distinct
<1>7. TravelOK'
  <2>1. ASSUME NEW p \in DOMAIN toClient, toClient[p] \in Replies
        PROVE  GoodReply(toClient[p])'
    <3>1. GoodReply(toClient[p])
      BY <2>1 DEF TravelOK, Answered
    <3> QED
      BY <1>1, <1>5, <3>1 DEF GoodReply, GoodRequest, GoodListing, Among, Distinct
  <2> QED
    BY <1>1, <2>1 DEF TravelOK, GoodRequest, Answered
<1>8. \A kind : Announced(kind) => Announced(kind)'
  BY <1>2 DEF Announced
<1>9. \A kind : Coming(kind) => Coming(kind)'
  BY <1>2, <1>8 DEF Coming
<1>10. e # "subvolume" => \A kind : kind # "subvolumes" => Owed(kind)'
  BY <1>2 DEF Stirs
<1>11. e = "subvolume" => Owed("subvolumes")'
  BY <1>2 DEF Stirs
<1>12. mounted \subseteq Fs
  BY SubjectHas
<1>13. PanelFollows'
  BY <1>1, <1>2 DEF PanelFollows, SlotQueries, SlotShows, Answered
<1>14. e # "subvolume" => version'[Subvolumes] = version[Subvolumes] \/ Owed("subvolumes")'
  BY <1>2 DEF Owed, Unseen
<1>18. Fresh'
  <2> SUFFICES ASSUME NEW p \in DOMAIN toClient', Answered(p)'
               PROVE  UpToDate(p)'
    BY DEF Fresh
  <2>1. p \in DOMAIN toClient /\ toClient' = toClient /\ toClient[p] \in Replies
    BY <1>1 DEF Answered
  <2>2. PICK m : m = toClient[p]
    OBVIOUS
  <2>3. PICK k : k = m.request.kind
    OBVIOUS
  <2> SUFFICES ASSUME k \in Listed
               PROVE  \/ m.result = Answer(m.request)' \/ Owed(k)' \/ EventAfter(p, k)'
                      \/ k = "subvolumes" /\ Replied("subvolumes", p)'
    BY <2>1, <2>2, <2>3 DEF UpToDate, Answer, Listing, Owed, Unseen, EventAfter, Told
  <2>4. \/ m.result = Answer(m.request) \/ Owed(k) \/ EventAfter(p, k)
        \/ k = "subvolumes" /\ Replied("subvolumes", p)
    BY <2>1, <2>2, <2>3 DEF Fresh, UpToDate, Answered
  <2>5. CASE m.result = Answer(m.request) /\ ~Owed(k)'
    <3>1. CASE e = "subvolume"
      <4>1. k # "subvolumes"
        BY <1>11, <2>5, <3>1
      <4>2. UNCHANGED <<table, mounted>>
            /\ \A f \in mounted : /\ version'[<<f, "snapshots">>] = version[<<f, "snapshots">>]
                                 /\ version'[<<f, "status">>] = version[<<f, "status">>]
        BY <1>12, <3>1
      <4>3. Answer(m.request)' = Answer(m.request)
        BY <2>3, <4>1, <4>2 DEF Answer, Listing
      <4> QED
        BY <2>5, <4>3
    <3>2. CASE e # "subvolume"
      <4>1. k = "subvolumes"
        BY <1>10, <2>5, <3>2
      <4>2. version'[Subvolumes] = version[Subvolumes]
        BY <1>14, <2>5, <3>2, <4>1
      <4> QED
        BY <2>3, <2>5, <4>1, <4>2 DEF Answer
    <3> QED
      BY <3>1, <3>2
  <2> QED
    BY <1>2, <2>4, <2>5
<1>15. ListsFollow'
  <2>1. view'.fs = Listing' \/ Coming("fs")'
    <3>1. CASE e = "subvolume"
      BY <1>1, <1>9, <3>1 DEF ListsFollow, Listing
    <3>2. CASE e # "subvolume"
      BY <1>10, <3>2 DEF Coming, Announced
    <3> QED
      BY <3>1, <3>2
  <2>2. view'.subvolumes = version'[Subvolumes] \/ Coming("subvolumes")'
    <3>1. CASE e = "subvolume"
      BY <1>11, <3>1 DEF Coming, Announced
    <3>2. CASE e # "subvolume"
      BY <1>1, <1>9, <1>14, <3>2 DEF ListsFollow, Coming, Announced
    <3> QED
      BY <3>1, <3>2
  <2> QED
    BY <2>1, <2>2 DEF ListsFollow
<1>16. CASE e # "subvolume"
  <2>1. Announced("fs")' /\ Coming("fs")'
    BY <1>10, <1>16 DEF Announced, Coming
  <2>2. Overtaken' /\ SnapshotsFollow' /\ StripFollows'
    BY <2>1 DEF Overtaken, SnapshotsFollow, StripFollows
  <2> QED
    BY <1>4, <1>6, <1>7, <1>13, <1>15, <1>18, <2>2
<1>17. CASE e = "subvolume"
  <2>1. UNCHANGED <<table, mounted>>
        /\ \A f \in mounted : /\ version'[<<f, "snapshots">>] = version[<<f, "snapshots">>]
                             /\ version'[<<f, "status">>] = version[<<f, "status">>]
    BY <1>12, <1>17
  <2>2. Names' = Names /\ \A i \in DOMAIN Names : Names[i] \in mounted
    BY <2>1, MountedIs DEF Names, Listing, ServerOK
  <2>3. Overtaken'
    <3>2. \A q \in DOMAIN toServer : Right(toServer[q])' \/ Announced("fs")' \/ Queued("fs", q)'
      <4> SUFFICES ASSUME NEW q \in DOMAIN toServer
                   PROVE  Right(toServer[q])' \/ Announced("fs")' \/ Queued("fs", q)'
        OBVIOUS
      <4>1. Right(toServer[q]) \/ Announced("fs") \/ Queued("fs", q)
        BY DEF Overtaken
      <4>2. Right(toServer[q]) => Right(toServer[q])'
        BY <1>1, <2>1, <2>2 DEF Right
      <4> QED
        BY <1>2, <1>8, <4>1, <4>2
    <3>3. ASSUME NEW p \in DOMAIN toClient', Answered(p)'
          PROVE  (Right(toClient[p].request) \/ Announced("fs") \/ Queued("fs", 0) \/ Replied("fs", p))'
      <4>1. Right(toClient[p].request) \/ Announced("fs") \/ Queued("fs", 0) \/ Replied("fs", p)
        BY <1>1, <3>3 DEF Overtaken, Answered
      <4>2. Right(toClient[p].request) => Right(toClient[p].request)'
        BY <1>1, <2>1, <2>2 DEF Right
      <4> QED
        BY <1>2, <1>8, <4>1, <4>2
    <3> QED
      BY <1>1, <3>2, <3>3 DEF Overtaken
  <2>4. SnapshotsFollow'
    <3> SUFFICES ASSUME ~Coming("fs")'
                 PROVE  /\ DOMAIN pending' = DOMAIN Names'
                        /\ \A j \in DOMAIN Names' :
                             \/ pending'[j] = Names'[j] /\ UnderWay("snapshots", Names[j])'
                             \/ pending'[j] = Null /\ Labelled(Names[j])' = Current(Names[j])'
      BY DEF SnapshotsFollow
    <3>1. ASSUME NEW j \in DOMAIN Names
          PROVE  \/ pending'[j] = Names'[j] /\ UnderWay("snapshots", Names[j])'
                 \/ pending'[j] = Null /\ Labelled(Names[j])' = Current(Names[j])'
      <4>1. PICK f : f = Names[j]
        OBVIOUS
      <4>2. \/ pending[j] = f /\ UnderWay("snapshots", f)
            \/ pending[j] = Null /\ Labelled(f) = Current(f)
        BY <1>9, <4>1 DEF SnapshotsFollow
      <4>3. UnderWay("snapshots", f) => UnderWay("snapshots", f)'
        BY <1>2
      <4>4. Labelled(f)' = Labelled(f) /\ Current(f)' = Current(f)
        BY <1>1, <2>1, <2>2, <4>1 DEF Labelled, Current
      <4> QED
        BY <1>1, <2>2, <4>1, <4>2, <4>3, <4>4 DEF UnderWay, Labelled, Current
    <3> QED
      BY <1>1, <1>9, <2>2, <3>1 DEF SnapshotsFollow
  <2>5. StripFollows'
    BY <1>1, <1>2, <1>9, <2>1 DEF StripFollows
  <2> QED
    BY <1>4, <1>6, <1>7, <1>13, <1>15, <1>18, <2>3, <2>4, <2>5
<1> QED
  BY <1>16, <1>17

(* What is touched of the versions.                                         *)
LEMMA TouchedIs ==
  ASSUME ServerOK, NEW subjects, Touched(subjects)
  PROVE  /\ version' \in [Subject -> Nat] /\ version'[Subvolumes] <= changes + 1
         /\ Subvolumes \notin subjects => version'[Subvolumes] = version[Subvolumes]
         /\ subjects = {Subvolumes} =>
              \A f \in Fs : /\ version'[<<f, "snapshots">>] = version[<<f, "snapshots">>]
                            /\ version'[<<f, "status">>] = version[<<f, "status">>]
<1>1. version \in [Subject -> Nat] /\ version[Subvolumes] \in 0..changes /\ changes \in Nat
  BY SubjectHas DEF ServerOK
<1>2. version' = [s \in Subject |-> IF s \in subjects THEN version[s] + 1 ELSE version[s]]
  BY DEF Touched
<1>3. Subvolumes \in Subject /\ \A f \in Fs : /\ <<f, "snapshots">> \in Subject
                                              /\ <<f, "status">> \in Subject
                                              /\ <<f, "snapshots">> # Subvolumes
                                              /\ <<f, "status">> # Subvolumes
  BY NullApart DEF Subject, Subvolumes
<1>4. version' \in [Subject -> Nat]
  BY <1>1, <1>2
<1>5. version'[Subvolumes] = IF Subvolumes \in subjects THEN version[Subvolumes] + 1 ELSE version[Subvolumes]
  BY <1>2, <1>3
<1>6. version'[Subvolumes] <= changes + 1
  BY <1>1, <1>5
<1>7. subjects = {Subvolumes} =>
        \A f \in Fs : /\ version'[<<f, "snapshots">>] = version[<<f, "snapshots">>]
                      /\ version'[<<f, "status">>] = version[<<f, "status">>]
  BY <1>2, <1>3
<1> QED
  BY <1>4, <1>5, <1>6, <1>7

LEMMA SnapshotKeeps ==
  ASSUME ViewInv, NEW f \in Fs, SnapshotChanged(f)
  PROVE  ViewInv'
<1>1. ServerOK /\ UNCHANGED <<table, mounted>>
  BY DEF ViewInv, SnapshotChanged
<1>2. GoodListing(Listing)'
  BY <1>1 DEF ServerOK, GoodListing, Listing, Among, Distinct
<1>3. "snapshot" \in EventKinds /\ "snapshot" # "subvolume"
  BY DEF EventKinds
<1>4. CASE Touched({<<f, "snapshots">>}) /\ Changed("snapshot", {})
  <2>1. Subvolumes \notin {<<f, "snapshots">>}
    BY NullApart DEF Subvolumes
  <2>2. /\ version' \in [Subject -> Nat] /\ version'[Subvolumes] <= changes + 1
        /\ version'[Subvolumes] = version[Subvolumes]
    BY <1>1, <1>4, <2>1, TouchedIs
  <2> QED
    BY <1>2, <1>3, <1>4, <2>2, ChangeKeeps
<1>5. CASE Touched({<<f, "snapshots">>, Subvolumes}) /\ Changed("snapshot", {"subvolumes"})
  <2>1. version' \in [Subject -> Nat] /\ version'[Subvolumes] <= changes + 1
    BY <1>1, <1>5, TouchedIs
  <2>2. {"subvolumes"} \in SUBSET {"fs", "subvolumes"} /\ "subvolumes" \in {"subvolumes"}
    OBVIOUS
  <2> QED
    BY <1>2, <1>3, <1>5, <2>1, <2>2, ChangeKeeps
<1> QED
  BY <1>4, <1>5 DEF SnapshotChanged

(* A mount, an unmount and a destruction: the subvolumes are missed.        *)
LEMMA ListingKeeps ==
  ASSUME ViewInv, GoodListing(Listing)', Touched({Subvolumes}), Changed("filesystem", {"subvolumes"})
  PROVE  ViewInv'
<1>1. version' \in [Subject -> Nat] /\ version'[Subvolumes] <= changes + 1
  BY TouchedIs DEF ViewInv
<1>2. {"subvolumes"} \in SUBSET {"fs", "subvolumes"} /\ "subvolumes" \in {"subvolumes"}
  OBVIOUS
<1>3. "filesystem" \in EventKinds /\ "filesystem" # "subvolume"
  BY DEF EventKinds
<1> QED
  BY <1>1, <1>2, <1>3, ChangeKeeps

LEMMA ServerKeeps == ViewInv /\ Server => ViewInv'
<1> SUFFICES ASSUME ViewInv, Server
             PROVE  ViewInv'
  OBVIOUS
<1> USE DEF ViewInv
<1>1. {} \in SUBSET {"fs", "subvolumes"}
  OBVIOUS
<1>2. mounted \subseteq Fs
  BY SubjectHas
<1>3. "subvolume" \in EventKinds /\ "filesystem" \in EventKinds /\ "filesystem" # "subvolume"
  BY DEF EventKinds
<1>4. table \in Seq(Fs) /\ Distinct(table) /\ mounted \subseteq Among(table)
  BY DEF ServerOK, GoodListing, Listing, Listings
<1>5. CASE SubvolumeChanged
  <2>1. Touched({Subvolumes}) /\ Changed("subvolume", {}) /\ UNCHANGED <<table, mounted>>
    BY <1>5 DEF SubvolumeChanged
  <2>2. GoodListing(Listing)'
    BY <2>1 DEF ServerOK, GoodListing, Listing, Among, Distinct
  <2>3. /\ version' \in [Subject -> Nat] /\ version'[Subvolumes] <= changes + 1
        /\ \A f \in Fs : /\ version'[<<f, "snapshots">>] = version[<<f, "snapshots">>]
                         /\ version'[<<f, "status">>] = version[<<f, "status">>]
    BY <2>1, TouchedIs
  <2> QED
    BY <1>1, <1>3, <2>1, <2>2, <2>3, ChangeKeeps
<1>6. ASSUME NEW f \in Fs, SnapshotChanged(f)
      PROVE  ViewInv'
  BY <1>6, SnapshotKeeps
<1>7. ASSUME NEW f \in Fs, StatusChanged(f)
      PROVE  ViewInv'
  <2>1. Touched({<<f, "status">>}) /\ Changed("filesystem", {}) /\ UNCHANGED <<table, mounted>>
    BY <1>7 DEF StatusChanged
  <2>2. GoodListing(Listing)'
    BY <2>1 DEF ServerOK, GoodListing, Listing, Among, Distinct
  <2>3. Subvolumes \notin {<<f, "status">>}
    BY NullApart DEF Subvolumes
  <2>4. /\ version' \in [Subject -> Nat] /\ version'[Subvolumes] <= changes + 1
        /\ version'[Subvolumes] = version[Subvolumes]
    BY <2>1, <2>3, TouchedIs
  <2> QED
    BY <1>1, <1>3, <2>1, <2>2, <2>4, ChangeKeeps
<1>8. ASSUME NEW f \in Fs, MountChanged(f)
      PROVE  ViewInv'
  <2>1. /\ f \in Among(table) /\ UNCHANGED table
        /\ Touched({Subvolumes}) /\ Changed("filesystem", {"subvolumes"})
        /\ mounted' = IF f \in mounted THEN mounted \ {f} ELSE mounted \cup {f}
    BY <1>8 DEF MountChanged, Among
  <2>2. GoodListing(Listing)'
    <3>1. mounted' \subseteq Among(table) /\ mounted' \subseteq Fs
      BY <1>2, <1>4, <2>1
    <3> QED
      BY <1>4, <2>1, <3>1 DEF GoodListing, Listing, Listings, Among, Distinct
  <2> QED
    BY <2>1, <2>2, ListingKeeps
<1>9. ASSUME NEW f \in Fs, Destroyed(f)
      PROVE  ViewInv'
  <2>1. /\ Touched({Subvolumes}) /\ Changed("filesystem", {"subvolumes"})
        /\ table' = Kept(table, Fs \ {f}) /\ mounted' = mounted \ {f}
    BY <1>9 DEF Destroyed, Without
  <2>2. /\ Kept(table, Fs \ {f}) \in Seq(Fs) /\ Distinct(Kept(table, Fs \ {f}))
        /\ \A i \in DOMAIN table : table[i] \in Fs \ {f} =>
             \E k \in DOMAIN Kept(table, Fs \ {f}) : Kept(table, Fs \ {f})[k] = table[i]
    <3>1. PICK S : S = Fs \ {f}
      OBVIOUS
    <3>2. /\ Kept(table, S) \in Seq(Fs) /\ Distinct(Kept(table, S))
          /\ \A i \in DOMAIN table : table[i] \in S => \E k \in DOMAIN Kept(table, S) : Kept(table, S)[k] = table[i]
      <4>1. table \in Seq(Fs) /\ Distinct(table)
        BY <1>4
      <4> QED
        BY ONLY <4>1, KeptIs
    <3> QED
      BY <3>1, <3>2
  <2>3. table' \in Seq(Fs) /\ Distinct(table')
        /\ \A i \in DOMAIN table : table[i] \in Fs \ {f} => \E k \in DOMAIN table' : table'[k] = table[i]
    BY <2>1, <2>2
  <2>4. \A g \in mounted' : \E k \in DOMAIN table' : table'[k] = g
    <3> SUFFICES ASSUME NEW g \in mounted \ {f}
                 PROVE  \E k \in DOMAIN table' : table'[k] = g
      BY <2>1
    <3>1. PICK i \in DOMAIN table : table[i] = g
      BY <1>4 DEF Among
    <3>2. g \in Fs \ {f}
      BY <1>2
    <3> QED
      BY <2>3, <3>1, <3>2
  <2>5. GoodListing(Listing)'
    <3>1. mounted' \subseteq Fs
      BY <1>2, <2>1
    <3> QED
      BY <2>3, <2>4, <3>1 DEF GoodListing, Listing, Listings, Among, Distinct
  <2> QED
    BY <2>1, <2>5, ListingKeeps
<1> QED
  BY <1>5, <1>6, <1>7, <1>8, <1>9 DEF Server

LEMMA StutterKeeps == ViewInv /\ UNCHANGED vars => ViewInv'
<1> SUFFICES ASSUME ViewInv, UNCHANGED vars
             PROVE  ViewInv'
  OBVIOUS
<1> DEFINE rs == <<>>
<1>1. UNCHANGED <<serverVars, toServer, toClient, view, pending, panel, slots, asked>>
  BY DEF vars, clientVars
<1>2. rs \in Seq(Requests) /\ toServer' = toServer \o rs /\ DOMAIN rs = {}
  BY <1>1, NothingAsked DEF ViewInv
<1>3. <<changes, asked'>> \in Budget
  BY <1>1 DEF ViewInv, ServerOK
<1> HIDE DEF rs
<1> QED
  BY <1>1, <1>2, <1>3, AskStays

LEMMA ViewAlways == Spec => []ViewInv
<1>1. ViewInv /\ [Next]_vars => ViewInv'
  <2> SUFFICES ASSUME ViewInv, [Next]_vars
               PROVE  ViewInv'
    OBVIOUS
  <2>1. CASE Handle
    BY <2>1, OnEventKeeps, OnErrorKeeps, OnTickKeeps, OnSubvolumesKeeps, OnFsKeeps,
       OnSnapshotsKeeps, OnStripKeeps, OnPanelKeeps DEF Handle
  <2>2. CASE User
    <3>1. ASSUME NEW f \in Fs, OpenFsStatus(f)
          PROVE  ViewInv'
      BY <3>1, OpenFsStatusKeeps
    <3> QED
      BY <2>2, <3>1, UserRefreshKeeps, AskRawKeeps DEF User
  <2> QED
    BY <2>1, <2>2, ServerKeeps, ServeKeeps, RefuseKeeps, ForwardKeeps, TickKeeps, StutterKeeps
       DEF Next
<1> QED
  BY <1>1, InitHolds, PTL DEF Spec

-----------------------------------------------------------------------------
(* The server and the client keep their shape, the client knows no version  *)
(* of the subvolumes that was never there, and waits for at most one        *)
(* snapshot listing per filesystem, for any number of them.                 *)
THEOREM ViewTypes == Spec => []TypeOK
<1>1. ViewInv => TypeOK
  BY DEF ViewInv, ServerOK, ClientOK, PanelOK, GoodListing, Listing, Among, TypeOK
<1> QED
  BY <1>1, ViewAlways, PTL

(* Once nothing is under way but what ticks asked for, only what was missed *)
(* would still come.                                                        *)
LEMMA NothingComes ==
  ASSUME TravelOK, Settled
  PROVE  /\ \A kind : kind # "tick" => /\ ~Queued(kind, 0) /\ ~Replied(kind, 0)
                                       /\ \A f : ~UnderWay(kind, f)
         /\ "fs" \notin missed => ~Coming("fs")
         /\ "subvolumes" \notin missed => ~Coming("subvolumes")
<1>1. /\ DOMAIN bus = {} /\ \A q \in DOMAIN toServer : toServer[q].kind = "tick"
      /\ \A p \in DOMAIN toClient :
           "request" \in DOMAIN toClient[p] /\ toClient[p].request.kind = "tick"
  BY DEF Settled
<1>2. \A kind : kind # "tick" => /\ ~Queued(kind, 0) /\ ~Replied(kind, 0)
                                 /\ \A f : ~UnderWay(kind, f)
  BY <1>1 DEF Queued, Replied, UnderWay
<1>3. \A p \in DOMAIN toClient : ~Told(p)
  BY <1>1, Apart DEF Told
<1>4. \A kind : Announced(kind) => Unseen(kind)
  BY <1>1, <1>3 DEF Announced, Owed, EventAfter
<1> QED
  BY <1>2, <1>4 DEF Coming, Unseen

(* With any filesystems, changes and interleaving, a settled view shows the *)
(* server's filesystems and each mounted one's own and current status, and  *)
(* its subvolumes, whatever replies of earlier fan-outs came between; each  *)
(* list unless it was missed and no later one has caught up.                *)
THEOREM ViewSettles == Spec => []SettledView
<1>1. ViewInv => SettledView
  BY NothingComes DEF ViewInv, ListsFollow, StripFollows, SettledView
<1> QED
  BY <1>1, ViewAlways, PTL

(* Of any number of mounted filesystems, a settled view shows exactly the   *)
(* current snapshots, although the fan-outs of `request_snapshots` use the  *)
(* same ids and only the first reply to an id counts; unless an event of    *)
(* the list was lost or a query of it refused.                              *)
THEOREM SnapshotsSettle == Spec => []SettledSnapshots
<1>1. ASSUME ViewInv, Settled, "fs" \notin missed, NEW f \in mounted
      PROVE  {s \in view.snapshots : s.label = f}
               = {[label |-> f, of |-> <<f, version[<<f, "snapshots">>]>>]}
  <2>1. PICK k \in DOMAIN Names : Names[k] = f
    BY <1>1, MountedIs DEF ViewInv, ServerOK, Names, Listing
  <2>2. pending[k] = Null /\ Labelled(Names[k]) = Current(Names[k])
    BY <1>1, NothingComes DEF ViewInv, SnapshotsFollow
  <2> QED
    BY <2>1, <2>2 DEF Labelled, Current
<1>2. ViewInv => SettledSnapshots
  BY <1>1 DEF SettledSnapshots
<1> QED
  BY <1>2, ViewAlways, PTL

(* However many panels were opened, the open one shows its own filesystem   *)
(* once the replies have come, in each of its slots: unless its own query   *)
(* failed, or it did not ask for the raw report.                            *)
THEOREM PanelSettles == Spec => []PanelOwn
<1>1. ASSUME ViewInv, Settled, NEW k \in Slots
      PROVE  ~Queued(k, 0) /\ ~Replied(k, 0) /\ SlotShows(k)
  BY <1>1, NothingComes DEF ViewInv, PanelFollows, Slots
<1>2. ViewInv => PanelOwn
  BY <1>1 DEF SlotShows, PanelOwn
<1> QED
  BY <1>2, ViewAlways, PTL

-----------------------------------------------------------------------------
(* How much a request, and a message to the client, may still bring about:  *)
(* an event has a list fetched, the list of filesystems has its snapshots   *)
(* and states fetched, and nothing follows from any other reply.            *)
Stage(kind) == IF kind = "fs" THEN 2 ELSE 1
MessageStage(m) == IF "event" \in DOMAIN m THEN 3 ELSE Stage(m.request.kind)

(* What is said to the client is worth what it came from: the request that  *)
(* was first in line, or an event.                                          *)
Passed(stage) ==
  LET m == toClient'[Len(toClient) + 1] IN
  toClient' = Append(toClient, m) /\ MessageStage(m) = stage

RefreshesDescend ==
  [][/\ Serve \/ Refuse => toServer' = Tail(toServer) /\ bus' = bus /\ Passed(Stage(Head(toServer).kind))
     /\ Forward => toServer' = toServer /\ bus' = Tail(bus) /\ Passed(3)
     /\ Handle =>
          /\ toClient # <<>> /\ toClient' = Tail(toClient) /\ bus' = bus
          /\ \A q \in DOMAIN toServer' :
               \/ q \in DOMAIN toServer /\ toServer'[q] = toServer[q]
               \/ Stage(toServer'[q].kind) < MessageStage(Head(toClient))]_vars

(* Requests of a lower stage are asked for.                                 *)
LEMMA AskedBelow ==
  ASSUME TravelOK, NEW rs \in Seq(Requests), toServer' = toServer \o rs,
         NEW n \in Nat, \A r \in DOMAIN rs : Stage(rs[r].kind) < n
  PROVE  \A q \in DOMAIN toServer' :
           \/ q \in DOMAIN toServer /\ toServer'[q] = toServer[q]
           \/ Stage(toServer'[q].kind) < n
<1>1. ASSUME NEW q \in DOMAIN toServer', q \notin DOMAIN toServer
      PROVE  Stage(toServer'[q].kind) < n
  <2>1. PICK r \in DOMAIN rs : toServer'[q] = rs[r]
    BY <1>1, AskMoves
  <2> QED
    BY <2>1
<1>2. \A q \in DOMAIN toServer : toServer'[q] = toServer[q]
  BY AskMoves
<1> QED
  BY <1>1, <1>2

(* An event has one list fetched.                                           *)
LEMMA EventAsksBelow ==
  ASSUME ViewInv, OnEvent
  PROVE  \A q \in DOMAIN toServer' :
           \/ q \in DOMAIN toServer /\ toServer'[q] = toServer[q]
           \/ Stage(toServer'[q].kind) < MessageStage(Head(toClient))
<1> DEFINE rs == Refresh(Head(toClient).event)
<1>1. toServer' = toServer \o rs /\ MessageStage(Head(toClient)) = 3
  BY DEF OnEvent, Ask, MessageStage
<1>2. rs \in Seq(Requests)
  <2>1. ListFs \in Requests /\ ListSubvolumes \in Requests
    BY RequestIs DEF ListFs, ListSubvolumes, Kinds
  <2> QED
    BY <2>1 DEF Refresh
<1>3. \A r \in DOMAIN rs : Stage(rs[r].kind) < 3
  BY DEF Stage
<1> HIDE DEF rs
<1>4. TravelOK /\ 3 \in Nat
  BY DEF ViewInv
<1>5. \A q \in DOMAIN toServer' :
        \/ q \in DOMAIN toServer /\ toServer'[q] = toServer[q]
        \/ Stage(toServer'[q].kind) < 3
  BY <1>1, <1>2, <1>3, <1>4, AskedBelow
<1> QED
  BY <1>1, <1>5

(* Both parts of a fan-out in one.                                          *)
LEMMA JoinedKinds ==
  ASSUME NEW s \in Seq(Requests), NEW t \in Seq(Requests),
         \A i \in DOMAIN s : s[i].kind = "snapshots",
         \A i \in DOMAIN t : t[i].kind = "status"
  PROVE  s \o t \in Seq(Requests)
         /\ \A r \in DOMAIN (s \o t) : (s \o t)[r].kind \in {"snapshots", "status"}
<1> DEFINE a == Len(s)
           b == Len(t)
           u == s \o t
<1>1. a \in Nat /\ b \in Nat /\ DOMAIN s = 1..a /\ DOMAIN t = 1..b
  OBVIOUS
<1>2. /\ u \in Seq(Requests) /\ DOMAIN u = 1..a + b
      /\ \A i \in 1..a : u[i] = s[i]
      /\ \A i \in 1..b : u[a + i] = t[i]
  OBVIOUS
<1> HIDE DEF a, b, u
<1>3. ASSUME NEW r \in 1..a + b, r \notin 1..a
      PROVE  \E i \in 1..b : u[r] = t[i]
  <2>1. r - a \in 1..b /\ a + (r - a) = r
    BY <1>1, <1>3
  <2> QED
    BY <1>2, <2>1
<1>4. ASSUME NEW r \in 1..a + b
      PROVE  u[r].kind \in {"snapshots", "status"}
  <2>1. CASE r \in 1..a
    <3>1. u[r] = s[r] /\ r \in DOMAIN s
      BY <1>1, <1>2, <2>1
    <3> QED
      BY <3>1
  <2>2. CASE r \notin 1..a
    <3>1. PICK i \in 1..b : u[r] = t[i]
      BY <1>3, <2>2
    <3>2. i \in DOMAIN t
      BY <1>1
    <3> QED
      BY <3>1, <3>2
  <2> QED
    BY <2>1, <2>2
<1> QED
  BY <1>2, <1>4 DEF u

(* The list of filesystems has only snapshots and states fetched.           *)
LEMMA FsAsksBelow ==
  ASSUME ViewInv, OnFs
  PROVE  \A q \in DOMAIN toServer' :
           \/ q \in DOMAIN toServer /\ toServer'[q] = toServer[q]
           \/ Stage(toServer'[q].kind) < MessageStage(Head(toClient))
<1> DEFINE m == Head(toClient)
           l == m.result
           queries == Snapshots(MountedNames(l))
           strip == Strip(l)
           rs == queries \o strip
<1>1. Incoming /\ m.request.kind = "fs" /\ "request" \in DOMAIN m /\ l # Null
      /\ toServer' = toServer \o rs
  BY DEF OnFs, IsReply, Result, Ask
<1>2. m \in Replies /\ "event" \notin DOMAIN m
  BY <1>1, TakeMoves, Apart DEF ViewInv
<1>3. MessageStage(m) = 2
  BY <1>1, <1>2 DEF MessageStage, Stage
<1>4. GoodListing(l)
  <2>1. 1 \in DOMAIN toClient /\ m = toClient[1]
    BY <1>1, TakeMoves DEF ViewInv
  <2> QED
    BY <1>1, <1>2, <2>1 DEF ViewInv, TravelOK, Answered, GoodReply
<1>5. /\ queries \in Seq(Requests) /\ strip \in Seq(Requests)
      /\ \A i \in DOMAIN queries : queries[i].kind = "snapshots"
      /\ \A i \in DOMAIN strip : strip[i].kind = "status"
  BY <1>4, SnapshotsIs, StripIs
<1> HIDE DEF queries, strip, m
<1>6. rs \in Seq(Requests) /\ \A r \in DOMAIN rs : rs[r].kind \in {"snapshots", "status"}
  BY <1>5, JoinedKinds
<1>7. \A r \in DOMAIN rs : Stage(rs[r].kind) < 2
  BY <1>6 DEF Stage
<1> HIDE DEF rs
<1>8. TravelOK /\ 2 \in Nat
  BY DEF ViewInv
<1>9. \A q \in DOMAIN toServer' :
        \/ q \in DOMAIN toServer /\ toServer'[q] = toServer[q]
        \/ Stage(toServer'[q].kind) < 2
  BY <1>1, <1>6, <1>7, <1>8, AskedBelow
<1> QED
  BY <1>3, <1>9 DEF m

(* Refreshing never feeds itself, with any filesystems, however many events *)
(* and refreshes cross: forwarding and answering pass on what they took,    *)
(* and handle_incoming asks only for what is nearer the end than what it    *)
(* handles, so an event causes a list, a list of filesystems its fan-outs,  *)
(* and a fan-out nothing; nor does what a tick asked for.                   *)
THEOREM RefreshesEnd == Spec => RefreshesDescend
<1> DEFINE Below == \A q \in DOMAIN toServer' :
                      \/ q \in DOMAIN toServer /\ toServer'[q] = toServer[q]
                      \/ Stage(toServer'[q].kind) < MessageStage(Head(toClient))
<1>0. ASSUME ViewInv, NEW m, toClient' = Append(toClient, m)
      PROVE  toClient'[Len(toClient) + 1] = m
  <2>1. toClient \in Seq(Replies \cup Events)
    BY <1>0 DEF ViewInv, TravelOK
  <2> QED
    BY <1>0, <2>1
<1>1. ASSUME ViewInv, Serve \/ Refuse
      PROVE  toServer' = Tail(toServer) /\ bus' = bus /\ Passed(Stage(Head(toServer).kind))
  <2>0. PICK result : ReplyWith(result)
    BY <1>1 DEF Serve, Refuse
  <2> DEFINE m == [request |-> Head(toServer), result |-> result]
  <2>1. "event" \notin DOMAIN m /\ m.request = Head(toServer)
    OBVIOUS
  <2>2. MessageStage(m) = Stage(Head(toServer).kind)
    BY <2>1 DEF MessageStage
  <2>3. toServer' = Tail(toServer) /\ bus' = bus /\ toClient' = Append(toClient, m)
    BY <2>0 DEF ReplyWith
  <2> HIDE DEF m
  <2> QED
    BY <1>0, <1>1, <2>2, <2>3 DEF Passed
<1>2. ASSUME ViewInv, Forward
      PROVE  toServer' = toServer /\ bus' = Tail(bus) /\ Passed(3)
  <2> DEFINE m == [event |-> Head(bus)]
  <2>1. MessageStage(m) = 3
    BY DEF MessageStage
  <2>2. toServer' = toServer /\ bus' = Tail(bus) /\ toClient' = Append(toClient, m)
    BY <1>2 DEF Forward
  <2> HIDE DEF m
  <2> QED
    BY <1>0, <1>2, <2>1, <2>2 DEF Passed
<1>3. ASSUME ViewInv, Handle
      PROVE  toClient # <<>> /\ toClient' = Tail(toClient) /\ bus' = bus /\ Below
  <2>1. toClient # <<>> /\ toClient' = Tail(toClient) /\ bus' = bus
    BY <1>3 DEF Handle, OnEvent, OnError, OnTick, OnSubvolumes, OnFs, OnSnapshots, OnStrip, OnPanel,
       IsReply, Incoming, serverVars
  <2>2. ASSUME OnEvent
        PROVE  Below
    BY <1>3, <2>2, EventAsksBelow
  <2>3. ASSUME OnFs
        PROVE  Below
    BY <1>3, <2>3, FsAsksBelow
  <2>4. ASSUME OnError \/ OnTick \/ OnSubvolumes \/ OnSnapshots \/ OnStrip \/ OnPanel
        PROVE  Below
    BY <2>4 DEF OnError, OnTick, OnSubvolumes, OnSnapshots, OnStrip, OnPanel
  <2> QED
    BY <1>3, <2>1, <2>2, <2>3, <2>4 DEF Handle
<1> QED
  BY <1>1, <1>2, <1>3, ViewAlways, PTL DEF RefreshesDescend
=============================================================================
