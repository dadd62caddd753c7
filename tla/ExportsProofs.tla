---------------------------- MODULE ExportsProofs ----------------------------
(* Theorems about filesystems, protocols and the requests that check one    *)
(* against the other, for any number of requests, filesystems, images and   *)
(* protocols, and any choice of requests.                                   *)
EXTENDS Exports, TLAPS

-----------------------------------------------------------------------------
(* The awaits a handler has before it, as a set.                            *)
Elems(s) == {s[i] : i \in DOMAIN s}

Kinds == {"enabled", "rdma", "unused", "free", "act", "attach"}
StepSet == [what : Kinds, p : FileSide \cup BlockSide \cup {Null}]

(* The engine call comes after every check; only the cascade follows it.    *)
Ordered(s) ==
  \A i, k \in DOMAIN s : i < k /\ s[i].what = "act" => s[k].what = "attach"

LEMMA One ==
  ASSUME NEW S, NEW a \in S
  PROVE  <<a>> \in Seq(S) /\ Len(<<a>>) = 1 /\ Elems(<<a>>) = {a} /\ Ordered(<<a>>)
BY DEF Elems, Ordered

LEMMA NotEmpty ==
  ASSUME NEW S, NEW s \in Seq(S), Len(s) # 0
  PROVE  s # <<>>
OBVIOUS

LEMMA Empty ==
  ASSUME NEW S
  PROVE  <<>> \in Seq(S) /\ Elems(<<>>) = {}
BY DEF Elems

(* No await of these calls the engine.                                      *)
NoAct(s) == \A x \in Elems(s) : x.what # "act"

LEMMA Concat ==
  ASSUME NEW S, NEW s \in Seq(S), NEW t \in Seq(S)
  PROVE  /\ s \o t \in Seq(S)
         /\ Len(s \o t) = Len(s) + Len(t)
         /\ Elems(s \o t) = Elems(s) \cup Elems(t)
         /\ NoAct(s) /\ Ordered(t) => Ordered(s \o t)
<1>1. /\ s \o t \in Seq(S)
      /\ Len(s \o t) = Len(s) + Len(t)
      /\ \A i \in 1 .. Len(s) : (s \o t)[i] = s[i]
      /\ \A i \in 1 .. Len(t) : (s \o t)[Len(s) + i] = t[i]
  OBVIOUS
<1>2. /\ DOMAIN s = 1 .. Len(s) /\ DOMAIN t = 1 .. Len(t) /\ Len(s) \in Nat /\ Len(t) \in Nat
      /\ DOMAIN (s \o t) = 1 .. Len(s) + Len(t)
  BY <1>1
<1>3. \A i \in DOMAIN (s \o t) :
        \/ i \in DOMAIN s /\ (s \o t)[i] = s[i]
        \/ i - Len(s) \in DOMAIN t /\ (s \o t)[i] = t[i - Len(s)]
  <2> SUFFICES ASSUME NEW i \in DOMAIN (s \o t), i \notin DOMAIN s
               PROVE  i - Len(s) \in DOMAIN t /\ (s \o t)[i] = t[i - Len(s)]
    BY <1>1, <1>2
  <2>1. i - Len(s) \in 1 .. Len(t)
    BY <1>2
  <2>2. (s \o t)[Len(s) + (i - Len(s))] = t[i - Len(s)]
    BY <1>1, <2>1
  <2>3. Len(s) + (i - Len(s)) = i
    BY <1>2
  <2> QED
    BY <1>2, <2>1, <2>2, <2>3
<1>4. Elems(s \o t) \subseteq Elems(s) \cup Elems(t)
  BY <1>3 DEF Elems
<1>5. Elems(s) \subseteq Elems(s \o t)
  BY <1>1, <1>2 DEF Elems
<1>6. ASSUME NEW x \in Elems(t) PROVE x \in Elems(s \o t)
  <2>1. PICK i \in DOMAIN t : x = t[i]
    BY DEF Elems
  <2>2. Len(s) + i \in DOMAIN (s \o t) /\ (s \o t)[Len(s) + i] = x
    BY <1>1, <1>2, <2>1
  <2> QED
    BY <2>2 DEF Elems
<1>7. ASSUME \A x \in Elems(s) : x.what # "act", Ordered(t),
             NEW i \in DOMAIN (s \o t), NEW k \in DOMAIN (s \o t), i < k, (s \o t)[i].what = "act"
      PROVE  (s \o t)[k].what = "attach"
  <2>1. i \notin DOMAIN s
    BY <1>1, <1>2, <1>7 DEF Elems
  <2>2. k \notin DOMAIN s
    BY <1>2, <1>7, <2>1
  <2>3. i - Len(s) < k - Len(s)
    BY <1>2, <1>7
  <2> QED
    BY <1>3, <1>7, <2>1, <2>2, <2>3 DEF Ordered
<1> QED
  BY <1>1, <1>4, <1>5, <1>6, <1>7 DEF Ordered, NoAct

(* What is left after the first await.                                      *)
LEMMA Rest ==
  ASSUME NEW S, NEW s \in Seq(S), s # <<>>, Ordered(s)
  PROVE  /\ Head(s) \in Elems(s) /\ Elems(s) \subseteq S
         /\ Tail(s) \in Seq(S) /\ Ordered(Tail(s))
         /\ Elems(s) = {Head(s)} \cup Elems(Tail(s))
         /\ Len(s) # 1 => Tail(s) # <<>>
         /\ Len(s) = 1 => Elems(s) = {Head(s)}
         /\ Head(s).what = "act" => \A x \in Elems(Tail(s)) : x.what = "attach"
<1>1. /\ Len(s) \in Nat \ {0} /\ DOMAIN s = 1 .. Len(s) /\ Head(s) = s[1]
      /\ Tail(s) \in Seq(S) /\ Len(Tail(s)) = Len(s) - 1
      /\ DOMAIN Tail(s) = 1 .. Len(s) - 1
      /\ \A i \in 1 .. Len(s) - 1 : Tail(s)[i] = s[i + 1]
  OBVIOUS
<1>2. Head(s) \in Elems(s) /\ Elems(s) \subseteq S
  BY <1>1 DEF Elems
<1>3. Elems(Tail(s)) \subseteq Elems(s)
  BY <1>1 DEF Elems
<1>4. ASSUME NEW i \in DOMAIN s, i # 1 PROVE s[i] \in Elems(Tail(s))
  <2>1. i - 1 \in 1 .. Len(s) - 1 /\ (i - 1) + 1 = i
    BY <1>1, <1>4
  <2>2. Tail(s)[i - 1] = s[i]
    BY <1>1, <2>1
  <2> QED
    BY <1>1, <2>1, <2>2 DEF Elems
<1>5. Elems(s) = {Head(s)} \cup Elems(Tail(s))
  BY <1>1, <1>2, <1>3, <1>4 DEF Elems
<1>6. Ordered(Tail(s))
  <2> SUFFICES ASSUME NEW i \in 1 .. Len(s) - 1, NEW k \in 1 .. Len(s) - 1, i < k,
                      s[i + 1].what = "act"
               PROVE  s[k + 1].what = "attach"
    BY <1>1 DEF Ordered
  <2>1. i + 1 \in DOMAIN s /\ k + 1 \in DOMAIN s /\ i + 1 < k + 1
    BY <1>1
  <2> QED
    BY <2>1 DEF Ordered
<1>7. ASSUME Head(s).what = "act", NEW i \in 1 .. Len(s) - 1 PROVE s[i + 1].what = "attach"
  <2>1. 1 \in DOMAIN s /\ i + 1 \in DOMAIN s /\ 1 < i + 1 /\ s[1].what = "act"
    BY <1>1, <1>7
  <2> QED
    BY <2>1 DEF Ordered
<1>8. Head(s).what = "act" => \A x \in Elems(Tail(s)) : x.what = "attach"
  BY <1>1, <1>7 DEF Elems
<1>9. Len(s) # 1 => Tail(s) # <<>>
  <2>1. Len(s) # 1 => Len(Tail(s)) # 0
    BY <1>1
  <2> QED
    BY <1>1, <2>1, NotEmpty
<1>10. Len(s) = 1 => Elems(Tail(s)) = {}
  <2>1. Len(s) = 1 => DOMAIN Tail(s) = {}
    BY <1>1
  <2> QED
    BY <2>1 DEF Elems
<1> QED
  BY <1>1, <1>2, <1>5, <1>6, <1>8, <1>9, <1>10

-----------------------------------------------------------------------------
(* What a request has to do.                                                *)
ShareOp == {"add", "remove", "edit"}

LEMMA RequestFacts ==
  ASSUME NEW r \in Request
  PROVE  /\ r.op \in ShareOp => r.p \in FileSide \cup BlockSide
         /\ r.rdma \in BOOLEAN
         /\ r.op \in ShareOp \cup {"enable", "disable", "create", "destroy", "mount", "unmount",
                                  "evacuate"}
<1>1. CASE r \in [op : {"add", "remove"}, p : FileSide, at : Fs, rdma : {FALSE}]
  BY <1>1 DEF ShareOp
<1>2. CASE r \in [op : {"add"}, p : {"iscsi"}, at : Image, rdma : BOOLEAN]
  BY <1>2 DEF ShareOp, BlockSide
<1>3. CASE r \in [op : {"add"}, p : {"nvmeof"}, at : Image, rdma : {FALSE}]
  BY <1>3 DEF ShareOp, BlockSide
<1>4. CASE r \in [op : {"remove"}, p : BlockSide, at : Image, rdma : {FALSE}]
  BY <1>4 DEF ShareOp
<1>5. CASE r \in [op : {"edit"}, p : BlockSide, at : {Null}, rdma : BOOLEAN]
  BY <1>5 DEF ShareOp
<1>6. CASE r \in [op : {"edit"}, p : FileSide, at : {Null}, rdma : {FALSE}]
  BY <1>6 DEF ShareOp
<1>7. CASE r \in [op : {"enable", "disable"}, p : Protocol, at : {Null}, rdma : {FALSE}]
  BY <1>7 DEF ShareOp
<1>8. CASE r \in [op : {"create", "destroy", "mount", "unmount", "evacuate"}, p : {Null}, at : Fs,
                  rdma : {FALSE}]
  BY <1>8 DEF ShareOp
<1> QED
  BY <1>1, <1>2, <1>3, <1>4, <1>5, <1>6, <1>7, <1>8, Zenon DEF Request

LEMMA StepType ==
  ASSUME NEW k \in Kinds, NEW p \in FileSide \cup BlockSide \cup {Null}
  PROVE  /\ Step(k, p) \in StepSet /\ Step(k, p).what = k /\ Step(k, p).p = p
BY DEF Step, StepSet

(* One await after others that call no engine.                              *)
LEMMA ThenStep ==
  ASSUME NEW s \in Seq(StepSet), NEW a \in StepSet, \A x \in Elems(s) : x.what # "act"
  PROVE  /\ s \o <<a>> \in Seq(StepSet) /\ s \o <<a>> # <<>> /\ Ordered(s \o <<a>>)
         /\ Elems(s \o <<a>>) = Elems(s) \cup {a}
<1>1. <<a>> \in Seq(StepSet) /\ Len(<<a>>) = 1 /\ Elems(<<a>>) = {a} /\ Ordered(<<a>>)
  BY One
<1> DEFINE t == <<a>>
<1>2. t \in Seq(StepSet) /\ Len(t) = 1 /\ Elems(t) = {a} /\ Ordered(t)
  BY <1>1
<1> HIDE DEF t
<1>3. /\ s \o t \in Seq(StepSet) /\ Ordered(s \o t)
      /\ Elems(s \o t) = Elems(s) \cup Elems(t)
  <2>1. NoAct(s)
    BY DEF NoAct
  <2>2. s \o t \in Seq(StepSet) /\ Elems(s \o t) = Elems(s) \cup Elems(t)
    BY <1>2, Concat
  <2>3. Ordered(s \o t)
    BY <1>2, <2>1, Concat
  <2> QED
    BY <2>2, <2>3
<1>4. s \o t # <<>>
  <2>1. Elems(s \o t) # {}
    BY <1>2, <1>3
  <2> QED
    BY <2>1, Empty
<1> QED
  BY <1>2, <1>3, <1>4, Zenon DEF t

LEMMA CheckSteps ==
  ASSUME NEW r \in Request, r.op \in ShareOp
  PROVE  /\ ShareChecks(r) \in Seq(StepSet)
         /\ Elems(ShareChecks(r)) =
              {Step("enabled", r.p)} \cup (IF r.rdma THEN {Step("rdma", r.p)} ELSE {})
<1>1. /\ Step("enabled", r.p) \in StepSet /\ Step("rdma", r.p) \in StepSet
  BY RequestFacts, StepType DEF Kinds
<1>2. RdmaCheck(r) \in Seq(StepSet) /\ Elems(RdmaCheck(r)) = IF r.rdma THEN {Step("rdma", r.p)} ELSE {}
  BY <1>1, One, Empty DEF RdmaCheck
<1> DEFINE enabledFirst == <<Step("enabled", r.p)>>
<1>3. enabledFirst \in Seq(StepSet) /\ Elems(enabledFirst) = {Step("enabled", r.p)}
  BY <1>1, One
<1>4. ShareChecks(r) = enabledFirst \o RdmaCheck(r)
  BY DEF ShareChecks
<1> HIDE DEF enabledFirst
<1> QED
  <2>1. RdmaCheck(r) \in Seq(StepSet) /\ enabledFirst \in Seq(StepSet)
    BY <1>2, <1>3
  <2>2. /\ enabledFirst \o RdmaCheck(r) \in Seq(StepSet)
        /\ Elems(enabledFirst \o RdmaCheck(r)) = Elems(enabledFirst) \cup Elems(RdmaCheck(r))
    BY <2>1, Concat
  <2> QED
    BY <1>2, <1>3, <1>4, <2>2

LEMMA AddSteps ==
  ASSUME NEW r \in Request, r.op = "add"
  PROVE  /\ Steps(r) \in Seq(StepSet) /\ Steps(r) # <<>> /\ Ordered(Steps(r))
         /\ Elems(Steps(r)) = Elems(ShareChecks(r)) \cup {Step("act", r.p)}
              \cup (IF r.p \in BlockSide
                    THEN {Step("free", IF r.p = "iscsi" THEN "nvmeof" ELSE "iscsi")} ELSE {})
<1> DEFINE other == IF r.p = "iscsi" THEN "nvmeof" ELSE "iscsi"
           walk == IF r.p \in BlockSide THEN ConflictWalk(r.p) ELSE <<>>
           act == <<Step("act", r.p)>>
<1>1. r.op \in ShareOp /\ r.p \in FileSide \cup BlockSide
  BY RequestFacts DEF ShareOp
<1>2. /\ Step("free", other) \in StepSet /\ Step("free", other).what = "free"
      /\ Step("act", r.p) \in StepSet
  BY <1>1, StepType DEF Kinds, BlockSide
<1>3. walk \in Seq(StepSet) /\ Elems(walk) = IF r.p \in BlockSide THEN {Step("free", other)} ELSE {}
  BY <1>2, One, Empty DEF ConflictWalk
<1>5. Steps(r) = (ShareChecks(r) \o walk) \o act
  BY DEF Steps
<1>6. /\ ShareChecks(r) \in Seq(StepSet)
      /\ Elems(ShareChecks(r)) =
           {Step("enabled", r.p)} \cup (IF r.rdma THEN {Step("rdma", r.p)} ELSE {})
  BY <1>1, CheckSteps
<1>7. Step("enabled", r.p).what = "enabled" /\ Step("rdma", r.p).what = "rdma"
  BY DEF Step
<1> HIDE DEF walk, act, other
<1>8. /\ ShareChecks(r) \o walk \in Seq(StepSet)
      /\ Elems(ShareChecks(r) \o walk) = Elems(ShareChecks(r)) \cup Elems(walk)
  BY <1>3, <1>6, Concat
<1>9. \A x \in Elems(ShareChecks(r) \o walk) : x.what # "act"
  BY <1>2, <1>3, <1>6, <1>7, <1>8
<1> QED
  <2>1. /\ Steps(r) \in Seq(StepSet) /\ Steps(r) # <<>> /\ Ordered(Steps(r))
        /\ Elems(Steps(r)) = Elems(ShareChecks(r) \o walk) \cup {Step("act", r.p)}
    BY <1>2, <1>5, <1>8, <1>9, ThenStep, Zenon DEF act
  <2> QED
    BY <1>3, <1>8, <2>1 DEF other

LEMMA ChangeSteps ==
  ASSUME NEW r \in Request, r.op \in {"remove", "edit"}
  PROVE  /\ Steps(r) \in Seq(StepSet) /\ Steps(r) # <<>> /\ Ordered(Steps(r))
         /\ Elems(Steps(r)) = Elems(ShareChecks(r)) \cup {Step("act", r.p)}
<1>1. r.op \in ShareOp /\ Step("act", r.p) \in StepSet
  BY RequestFacts, StepType DEF ShareOp, Kinds
<1>2. /\ ShareChecks(r) \in Seq(StepSet)
      /\ Elems(ShareChecks(r)) =
           {Step("enabled", r.p)} \cup (IF r.rdma THEN {Step("rdma", r.p)} ELSE {})
  BY <1>1, CheckSteps
<1>3. Step("enabled", r.p).what = "enabled" /\ Step("rdma", r.p).what = "rdma"
  BY DEF Step
<1>4. Steps(r) = ShareChecks(r) \o <<Step("act", r.p)>>
  BY DEF Steps
<1>5. \A x \in Elems(ShareChecks(r)) : x.what # "act"
  BY <1>2, <1>3
<1> QED
  BY <1>1, <1>2, <1>4, <1>5, ThenStep, Zenon

LEMMA DestroySteps ==
  ASSUME NEW r \in Request, r.op = "destroy"
  PROVE  /\ Steps(r) \in Seq(StepSet) /\ Steps(r) # <<>> /\ Ordered(Steps(r))
         /\ Elems(Steps(r)) = {Step("unused", p) : p \in FileSide \cup BlockSide}
              \cup {Step("act", Null)}
<1>1. /\ \A p \in FileSide \cup BlockSide :
           Step("unused", p) \in StepSet /\ Step("unused", p).what = "unused"
      /\ Step("act", Null) \in StepSet
  BY StepType DEF Kinds
<1>2. Steps(r) = InUseWalk \o <<Step("act", Null)>>
  BY DEF Steps
<1>3. InUseWalk \in Seq(StepSet)
  BY <1>1 DEF InUseWalk, FileSide, BlockSide
<1>4. Elems(InUseWalk) = {Step("unused", p) : p \in FileSide \cup BlockSide}
  <2>1. /\ DOMAIN InUseWalk = 1 .. 4
        /\ InUseWalk[1] = Step("unused", "nfs") /\ InUseWalk[2] = Step("unused", "smb")
        /\ InUseWalk[3] = Step("unused", "iscsi") /\ InUseWalk[4] = Step("unused", "nvmeof")
    BY DEF InUseWalk
  <2>2. 1 .. 4 = {1, 2, 3, 4}
    OBVIOUS
  <2>3. Elems(InUseWalk) = {InUseWalk[1], InUseWalk[2], InUseWalk[3], InUseWalk[4]}
    BY <2>1, <2>2, Zenon DEF Elems
  <2> QED
    BY <2>1, <2>3 DEF FileSide, BlockSide
<1>5. \A x \in Elems(InUseWalk) : x.what # "act"
  BY <1>1, <1>4
<1>6. /\ InUseWalk \o <<Step("act", Null)>> \in Seq(StepSet)
      /\ InUseWalk \o <<Step("act", Null)>> # <<>>
      /\ Ordered(InUseWalk \o <<Step("act", Null)>>)
      /\ Elems(InUseWalk \o <<Step("act", Null)>>) = Elems(InUseWalk) \cup {Step("act", Null)}
  BY <1>1, <1>3, <1>5, ThenStep, Zenon
<1> QED
  BY <1>2, <1>4, <1>6, Zenon

LEMMA OtherSteps ==
  ASSUME NEW r \in Request, r.op \notin ShareOp \cup {"destroy"}
  PROVE  /\ Steps(r) \in Seq(StepSet) /\ Steps(r) # <<>> /\ Ordered(Steps(r))
         /\ Elems(Steps(r)) = {Step("act", Null)}
              \cup (IF r.op = "mount" THEN {Step("attach", Null)} ELSE {})
<1>1. /\ Step("act", Null) \in StepSet /\ Step("attach", Null) \in StepSet
      /\ Step("act", Null).what = "act" /\ Step("attach", Null).what = "attach"
  BY StepType DEF Kinds
<1>2. CASE r.op = "mount"
  <2>1. Steps(r) = MountSteps
    BY <1>2 DEF Steps
  <2>2. MountSteps \in Seq(StepSet) /\ MountSteps # <<>>
    BY <1>1 DEF MountSteps
  <2>3. DOMAIN MountSteps = 1 .. 2 /\ MountSteps[1] = Step("act", Null) /\ MountSteps[2] = Step("attach", Null)
    BY DEF MountSteps
  <2>4. 1 .. 2 = {1, 2}
    OBVIOUS
  <2>5. Elems(MountSteps) = {MountSteps[1], MountSteps[2]}
    BY <2>3, <2>4, Zenon DEF Elems
  <2>6. Ordered(MountSteps)
    <3> SUFFICES ASSUME NEW i \in {1, 2}, NEW k \in {1, 2}, i < k
                 PROVE  MountSteps[k].what = "attach"
      BY <2>3, <2>4 DEF Ordered
    <3>1. k = 2
      OBVIOUS
    <3> QED
      BY <1>1, <2>3, <3>1
  <2> QED
    BY <1>2, <2>1, <2>2, <2>3, <2>5, <2>6
<1>3. CASE r.op # "mount"
  <2>1. Steps(r) = <<Step("act", Null)>>
    BY <1>3 DEF Steps, ShareOp
  <2>2. <<Step("act", Null)>> # <<>>
    OBVIOUS
  <2> QED
    BY <1>1, <1>3, <2>1, <2>2, One
<1> QED
  BY <1>2, <1>3

-----------------------------------------------------------------------------
(* A job and its histories, against the claims x, the protocols on that are *)
(* enabled and the opt-in r.                                                *)
JobSet == [req : Requests, steps : Seq(StepSet), late : SUBSET (Protocol \X Place),
           blind : SUBSET (FileSide \cup BlockSide \cup {Null}),
           seen : SUBSET (Protocol \cup {"rdma"})]

Has(j, s) == s \in Elems(j.steps)

(* What was looked at shows no claim but the late and the unlisted.         *)
Checked(j, x) ==
  \A e \in x : Concerns(j.req, e) =>
    \/ Has(j, Step("unused", e[1])) \/ Has(j, Step("free", e[1]))
    \/ e \in j.late \/ e[1] \in j.blind

(* What is on has been seen on, and so has what was required.               *)
SeenOn(j, on, r) ==
  /\ j.req.p \in on => j.req.p \in j.seen
  /\ r /\ j.req.rdma => "rdma" \in j.seen
Required(j) ==
  j.req.op \in ShareOp =>
    /\ Has(j, Step("enabled", j.req.p)) \/ j.req.p \in j.seen
    /\ j.req.rdma => Has(j, Step("rdma", j.req.p)) \/ "rdma" \in j.seen

(* The awaits left are those of the request.                                *)
Fitting(j) ==
  /\ \A s \in Elems(j.steps) : /\ s.what \in {"enabled", "rdma"} => s.p = j.req.p
                               /\ s.what = "attach" => j.req.op = "mount"
  /\ IF j.req.op = "mount" THEN j.steps \in {MountSteps, <<Step("attach", Null)>>}
                           ELSE \E s \in Elems(j.steps) : s.what = "act"

Sound(j, x, on, r) ==
  j # Idle =>
    /\ j \in JobSet /\ j.steps # <<>> /\ Ordered(j.steps)
    /\ Checked(j, x) /\ SeenOn(j, on, r) /\ Required(j) /\ Fitting(j)

LEMMA BegunSound ==
  ASSUME NEW q \in Requests, NEW x \in SUBSET (Protocol \X Place), NEW on \in SUBSET Protocol,
         NEW r \in BOOLEAN
  PROVE  Sound([req |-> q, steps |-> Steps(q), late |-> {}, blind |-> {},
                seen |-> (on \cap {q.p}) \cup (IF q.rdma /\ r THEN {"rdma"} ELSE {})], x, on, r)
<1> DEFINE j == [req |-> q, steps |-> Steps(q), late |-> {}, blind |-> {},
                 seen |-> (on \cap {q.p}) \cup (IF q.rdma /\ r THEN {"rdma"} ELSE {})]
<1>1. q \in Request /\ Protocol \subseteq FileSide \cup BlockSide
  BY ExportsAssumption
<1>2. Steps(q) \in Seq(StepSet) /\ Steps(q) # <<>> /\ Ordered(Steps(q))
  BY <1>1, AddSteps, ChangeSteps, DestroySteps, OtherSteps DEF ShareOp
<1>3. j.req = q /\ j.steps = Steps(q) /\ j \in JobSet
  <2>1. j.seen \in SUBSET (Protocol \cup {"rdma"})
    OBVIOUS
  <2> QED
    BY <1>2, <2>1 DEF JobSet
<1>4. j.seen = (on \cap {q.p}) \cup (IF q.rdma /\ r THEN {"rdma"} ELSE {})
  OBVIOUS
<1>5. SeenOn(j, on, r)
  BY <1>3, <1>4 DEF SeenOn
<1>6. q.op \in ShareOp => /\ Step("enabled", q.p) \in Elems(Steps(q))
                          /\ q.rdma => Step("rdma", q.p) \in Elems(Steps(q))
  <2>1. q.op \in ShareOp => Elems(ShareChecks(q)) \subseteq Elems(Steps(q))
    BY <1>1, AddSteps, ChangeSteps DEF ShareOp
  <2> QED
    BY <1>1, <2>1, CheckSteps
<1>7. Required(j)
  BY <1>3, <1>6 DEF Required, Has
<1>8. Fitting(j)
  <2>1. /\ \A k, p : Step(k, p).what = k /\ Step(k, p).p = p
    BY DEF Step
  <2>2. CASE q.op \in ShareOp
    <3>1. \A s \in Elems(ShareChecks(q)) : s.what \in {"enabled", "rdma"} /\ s.p = q.p
      BY <1>1, <2>1, <2>2, CheckSteps
    <3>2. \A s \in Elems(Steps(q)) : s \in Elems(ShareChecks(q)) \/ s.what \in {"free", "act"}
      BY <1>1, <2>1, <2>2, AddSteps, ChangeSteps DEF ShareOp
    <3>3. Step("act", q.p) \in Elems(Steps(q)) /\ Step("act", q.p).what = "act"
      BY <1>1, <2>1, <2>2, AddSteps, ChangeSteps DEF ShareOp
    <3> QED
      BY <1>3, <2>2, <3>1, <3>2, <3>3 DEF Fitting, ShareOp
  <2>3. CASE q.op = "destroy"
    <3>1. \A s \in Elems(Steps(q)) : s.what \in {"unused", "act"}
      BY <1>1, <2>1, <2>3, DestroySteps
    <3>2. Step("act", Null) \in Elems(Steps(q)) /\ Step("act", Null).what = "act"
      BY <1>1, <2>1, <2>3, DestroySteps
    <3> QED
      BY <1>3, <2>3, <3>1, <3>2 DEF Fitting
  <2>4. CASE q.op \notin ShareOp \cup {"destroy"}
    <3>1. Elems(Steps(q)) = {Step("act", Null)}
            \cup (IF q.op = "mount" THEN {Step("attach", Null)} ELSE {})
      BY <1>1, <2>4, OtherSteps
    <3>2. q.op = "mount" => Steps(q) = MountSteps
      BY DEF Steps
    <3> QED
      BY <1>3, <2>1, <3>1, <3>2 DEF Fitting
  <2> QED
    BY <2>2, <2>3, <2>4
<1>9. Checked(j, x)
  <2> SUFFICES ASSUME NEW e \in x, Concerns(q, e)
               PROVE  Step("unused", e[1]) \in Elems(Steps(q)) \/ Step("free", e[1]) \in Elems(Steps(q))
    BY <1>3 DEF Checked, Has
  <2>1. e[1] \in FileSide \cup BlockSide
    BY <1>1
  <2>2. CASE q.op = "destroy"
    BY <1>1, <2>1, <2>2, DestroySteps
  <2>3. CASE q.op = "add" /\ {q.p, e[1]} = BlockSide
    <3>1. q.p \in BlockSide /\ e[1] = IF q.p = "iscsi" THEN "nvmeof" ELSE "iscsi"
      BY <2>3 DEF BlockSide
    <3> QED
      BY <1>1, <2>3, <3>1, AddSteps
  <2> QED
    BY <2>2, <2>3 DEF Concerns
<1> QED
  BY <1>2, <1>3, <1>5, <1>7, <1>8, <1>9 DEF Sound

LEMMA MountTail ==
  /\ Head(MountSteps).what = "act" /\ Len(MountSteps) = 2
  /\ Tail(MountSteps) = <<Step("attach", Null)>>
  /\ Head(<<Step("attach", Null)>>).what = "attach" /\ Len(<<Step("attach", Null)>>) = 1
BY DEF MountSteps, Step

(* A job moves on when its next await has found what it asks for.           *)
LEMMA AdvancedSound ==
  ASSUME NEW j, NEW x, NEW on, NEW r, Sound(j, x, on, r), j # Idle,
         Head(j.steps).what \in {"unused", "free"} =>
           \A e \in x : e[1] = Head(j.steps).p /\ Concerns(j.req, e) => e[1] \in j.blind,
         Head(j.steps).what = "act" => j.req.op = "mount",
         Head(j.steps).what = "enabled" => Head(j.steps).p \in on,
         Head(j.steps).what = "rdma" => r
  PROVE  Sound(Advanced(j), x, on, r)
<1> DEFINE n == [j EXCEPT !.steps = Tail(@)]
<1>1. CASE Len(j.steps) = 1
  BY <1>1 DEF Advanced, Sound
<1>2. CASE Len(j.steps) # 1
  <2>1. /\ j \in JobSet /\ j.steps # <<>> /\ Ordered(j.steps) /\ j.steps \in Seq(StepSet)
        /\ Checked(j, x) /\ SeenOn(j, on, r) /\ Required(j) /\ Fitting(j)
    BY DEF Sound, JobSet
  <2>2. /\ Tail(j.steps) \in Seq(StepSet) /\ Tail(j.steps) # <<>> /\ Ordered(Tail(j.steps))
        /\ Head(j.steps) \in Elems(j.steps)
        /\ Elems(j.steps) = {Head(j.steps)} \cup Elems(Tail(j.steps))
    BY <1>2, <2>1, Rest, Zenon
  <2>3. /\ n \in JobSet /\ n.steps = Tail(j.steps)
        /\ n.req = j.req /\ n.late = j.late /\ n.blind = j.blind /\ n.seen = j.seen
    BY <2>1, <2>2 DEF JobSet
  <2>4. Advanced(j) = n
    BY <1>2 DEF Advanced
  <2> HIDE DEF n
  <2>5. \A k, p : Step(k, p).what = k /\ Step(k, p).p = p
    BY DEF Step
  <2>6. \A s : Has(j, s) => Has(n, s) \/ s = Head(j.steps)
    BY <2>2, <2>3 DEF Has
  <2>7. Checked(n, x)
    BY <2>1, <2>3, <2>5, <2>6 DEF Checked
  <2>8. SeenOn(n, on, r)
    BY <2>1, <2>3 DEF SeenOn
  <2>9. Required(n)
    BY <2>1, <2>3, <2>5, <2>6 DEF Required, SeenOn
  <2>10. Fitting(n)
    <3>1. j.req.op = "mount" => Tail(j.steps) = <<Step("attach", Null)>>
      BY <1>2, <2>1, MountTail DEF Fitting
    <3> QED
      BY <2>1, <2>2, <2>3, <3>1 DEF Fitting
  <2> QED
    BY <2>2, <2>3, <2>4, <2>7, <2>8, <2>9, <2>10 DEF Sound
<1> QED
  BY <1>1, <1>2

(* A listing that failed is noted.                                          *)
LEMMA BlindSound ==
  ASSUME NEW j, NEW x, NEW on, NEW r, Sound(j, x, on, r), j # Idle,
         NEW p \in FileSide \cup BlockSide \cup {Null}
  PROVE  Sound([j EXCEPT !.blind = @ \cup {p}], x, on, r)
<1> DEFINE n == [j EXCEPT !.blind = @ \cup {p}]
<1>1. /\ j \in JobSet /\ j.steps # <<>> /\ Ordered(j.steps)
      /\ Checked(j, x) /\ SeenOn(j, on, r) /\ Required(j) /\ Fitting(j)
  BY DEF Sound
<1>2. /\ n \in JobSet /\ n.steps = j.steps /\ n.req = j.req /\ n.late = j.late
      /\ n.seen = j.seen /\ n.blind = j.blind \cup {p}
  BY <1>1 DEF JobSet
<1> HIDE DEF n
<1>3. Checked(n, x) /\ SeenOn(n, on, r) /\ Required(n) /\ Fitting(n)
  BY <1>1, <1>2 DEF Checked, SeenOn, Required, Fitting, Has
<1> QED
  BY <1>1, <1>2, <1>3 DEF Sound, n

(* A claim appears: the jobs that have looked already note it.              *)
LEMMA LateSound ==
  ASSUME NEW j, NEW x, NEW on, NEW r, Sound(j, x, on, r), NEW e \in Protocol \X Place
  PROVE  Sound(NotedLate(j, e), x \cup {e}, on, r)
<1> DEFINE n == [j EXCEPT !.late = @ \cup {e}]
<1>1. CASE j = Idle
  BY <1>1 DEF NotedLate, Sound
<1>2. CASE j # Idle
  <2>1. /\ j \in JobSet /\ j.steps # <<>> /\ Ordered(j.steps)
        /\ Checked(j, x) /\ SeenOn(j, on, r) /\ Required(j) /\ Fitting(j)
    BY <1>2 DEF Sound
  <2>2. /\ n \in JobSet /\ n.steps = j.steps /\ n.req = j.req /\ n.late = j.late \cup {e}
        /\ n.seen = j.seen /\ n.blind = j.blind
    BY <2>1 DEF JobSet
  <2>3. Looked(j, e[1]) \/ Has(j, Step("unused", e[1])) \/ Has(j, Step("free", e[1]))
    BY DEF Looked, Has, Elems
  <2>4. CASE Concerns(j.req, e) /\ Looked(j, e[1])
    <3>1. NotedLate(j, e) = n
      BY <1>2, <2>4 DEF NotedLate
    <3> HIDE DEF n
    <3>2. Checked(n, x \cup {e}) /\ SeenOn(n, on, r) /\ Required(n) /\ Fitting(n)
      BY <2>1, <2>2 DEF Checked, SeenOn, Required, Fitting, Has
    <3> QED
      BY <2>1, <2>2, <3>1, <3>2 DEF Sound
  <2>5. CASE ~(Concerns(j.req, e) /\ Looked(j, e[1]))
    <3>1. NotedLate(j, e) = j
      BY <2>5 DEF NotedLate
    <3>2. Checked(j, x \cup {e})
      BY <2>1, <2>3, <2>5 DEF Checked
    <3> QED
      BY <2>1, <3>1, <3>2 DEF Sound
  <2> QED
    BY <2>4, <2>5
<1> QED
  BY <1>1, <1>2

(* A protocol is enabled, or the opt-in given: the jobs it concerns note it.*)
LEMMA OnSound ==
  ASSUME NEW j, NEW x, NEW on, NEW r, Sound(j, x, on, r), NEW what \in Protocol \cup {"rdma"}
  PROVE  /\ Sound(NotedOn(j, what), x, on \cup ({what} \ {"rdma"}), r)
         /\ what = "rdma" => Sound(NotedOn(j, what), x, on, TRUE)
<1> DEFINE n == [j EXCEPT !.seen = @ \cup {what}]
<1>1. CASE j = Idle
  BY <1>1 DEF NotedOn, Sound
<1>2. CASE j # Idle
  <2>1. /\ j \in JobSet /\ j.steps # <<>> /\ Ordered(j.steps)
        /\ Checked(j, x) /\ SeenOn(j, on, r) /\ Required(j) /\ Fitting(j)
    BY <1>2 DEF Sound
  <2>2. /\ n \in JobSet /\ n.steps = j.steps /\ n.req = j.req /\ n.late = j.late
        /\ n.seen = j.seen \cup {what} /\ n.blind = j.blind
    BY <2>1 DEF JobSet
  <2>3. CASE j.req.p = what \/ (what = "rdma" /\ j.req.rdma)
    <3>1. NotedOn(j, what) = n
      BY <1>2, <2>3 DEF NotedOn
    <3> HIDE DEF n
    <3>2. Checked(n, x) /\ Required(n) /\ Fitting(n)
      BY <2>1, <2>2 DEF Checked, Required, Fitting, Has
    <3>3. /\ SeenOn(n, on \cup ({what} \ {"rdma"}), r)
          /\ what = "rdma" => SeenOn(n, on, TRUE)
      BY <2>1, <2>2 DEF SeenOn
    <3> QED
      BY <2>1, <2>2, <3>1, <3>2, <3>3 DEF Sound
  <2>4. CASE ~(j.req.p = what \/ (what = "rdma" /\ j.req.rdma))
    <3>1. NotedOn(j, what) = j
      BY <2>4 DEF NotedOn
    <3>2. /\ SeenOn(j, on \cup ({what} \ {"rdma"}), r)
          /\ what = "rdma" => SeenOn(j, on, TRUE)
      BY <2>1, <2>4 DEF SeenOn
    <3> QED
      BY <2>1, <3>1, <3>2 DEF Sound
  <2> QED
    BY <2>3, <2>4
<1> QED
  BY <1>1, <1>2

(* Fewer claims, fewer protocols, no opt-in.                                *)
LEMMA LessSound ==
  ASSUME NEW j, NEW x, NEW on, NEW r, Sound(j, x, on, r),
         NEW x1 \in SUBSET x, NEW on1 \in SUBSET on, NEW r1, r1 => r
  PROVE  Sound(j, x1, on1, r1)
BY DEF Sound, Checked, SeenOn

-----------------------------------------------------------------------------
(* The steps of the system keep every request sound: its checks come before *)
(* its engine call, and it knows what changed since it looked.  From that:  *)
(* what a destroyed filesystem may leave behind, what may be claimed twice, *)
(* when shares may change, and which block devices are attached.            *)
JobsSound ==
  /\ job = [t \in Task |-> job[t]]
  /\ \A t \in Task : Sound(job[t], exports, enabled, rdma)

(* A mounted filesystem without its devices is the business of a request    *)
(* that mounted it, or was that of one cut off.                             *)
MountsCovered ==
  restoring \notin {"mounts", "attach"} =>
    \A f \in Fs : fs[f] = "mounted" =>
      f \in attached \cup skipped \/ \E t \in Task : At(t, "attach") /\ job[t].req.at = f

ExportsInv == TypeOK /\ JobsSound /\ MountsCovered

-----------------------------------------------------------------------------
(* What is known of a request about to call the engine.                     *)
LEMMA ActFacts ==
  ASSUME JobsSound, NEW t \in Task, At(t, "act")
  PROVE  /\ job[t] # Idle /\ job[t] \in JobSet /\ job[t].req \in Request
         /\ job[t].req.op \in ShareOp =>
              /\ job[t].req.p \in job[t].seen /\ job[t].req.p \in Protocol
              /\ job[t].req.rdma => "rdma" \in job[t].seen
         /\ \A e \in exports : Concerns(job[t].req, e) =>
              e \in job[t].late \/ e[1] \in job[t].blind
<1> DEFINE j == job[t]
<1>1. /\ j # Idle /\ Head(j.steps).what = "act" /\ Sound(j, exports, enabled, rdma)
  BY DEF At, Busy, JobsSound
<1>2. /\ j \in JobSet /\ j.steps # <<>> /\ Ordered(j.steps) /\ j.steps \in Seq(StepSet)
      /\ Checked(j, exports) /\ Required(j) /\ j.req \in Requests
      /\ j.seen \subseteq Protocol \cup {"rdma"}
  BY <1>1 DEF Sound, JobSet
<1> HIDE DEF j
<1>3. \A s \in Elems(j.steps) : s.what \in {"act", "attach"}
  BY <1>1, <1>2, Rest
<1>4. \A p : /\ ~Has(j, Step("unused", p)) /\ ~Has(j, Step("free", p))
             /\ ~Has(j, Step("enabled", p)) /\ ~Has(j, Step("rdma", p))
  BY <1>3 DEF Has, Step
<1>5. j.req \in Request
  BY <1>2, ExportsAssumption
<1>6. j.req.op \in ShareOp => /\ j.req.p \in j.seen
                              /\ j.req.rdma => "rdma" \in j.seen
  BY <1>2, <1>4 DEF Required
<1>7. j.req.op \in ShareOp => j.req.p \in Protocol
  <2>1. j.req.op \in ShareOp => j.req.p \in FileSide \cup BlockSide
    BY <1>5, RequestFacts
  <2> QED
    BY <1>2, <1>6, <2>1 DEF FileSide, BlockSide
<1> QED
  BY <1>1, <1>2, <1>4, <1>5, <1>6, <1>7 DEF Checked, j

(* The places and protocols of a request.                                   *)
LEMMA RequestPlaces ==
  ASSUME NEW r \in Request
  PROVE  /\ r.op \in {"add", "remove"} => r.at \in Place
         /\ r.op \in {"create", "destroy", "mount", "unmount", "evacuate"} => r.at \in Fs
         /\ r.op \in {"enable", "disable"} => r.p \in Protocol
<1>1. CASE r \in [op : {"add", "remove"}, p : FileSide, at : Fs, rdma : {FALSE}]
  BY <1>1 DEF Place
<1>2. CASE r \in [op : {"add"}, p : {"iscsi"}, at : Image, rdma : BOOLEAN]
  BY <1>2 DEF Place
<1>3. CASE r \in [op : {"add"}, p : {"nvmeof"}, at : Image, rdma : {FALSE}]
  BY <1>3 DEF Place
<1>4. CASE r \in [op : {"remove"}, p : BlockSide, at : Image, rdma : {FALSE}]
  BY <1>4 DEF Place
<1>5. CASE r \in [op : {"edit"}, p : BlockSide, at : {Null}, rdma : BOOLEAN]
  BY <1>5
<1>6. CASE r \in [op : {"edit"}, p : FileSide, at : {Null}, rdma : {FALSE}]
  BY <1>6
<1>7. CASE r \in [op : {"enable", "disable"}, p : Protocol, at : {Null}, rdma : {FALSE}]
  BY <1>7
<1>8. CASE r \in [op : {"create", "destroy", "mount", "unmount", "evacuate"}, p : {Null}, at : Fs,
                  rdma : {FALSE}]
  BY <1>8
<1> QED
  BY <1>1, <1>2, <1>3, <1>4, <1>5, <1>6, <1>7, <1>8, Zenon DEF Request

(* What a note leaves alone.                                                *)
LEMMA NotesKeep ==
  ASSUME NEW j, NEW x, NEW on, NEW r, Sound(j, x, on, r), NEW e, NEW what
  PROVE  /\ j # Idle => NotedLate(j, e) # Idle /\ NotedOn(j, what) # Idle
         /\ j = Idle => NotedLate(j, e) = Idle /\ NotedOn(j, what) = Idle
         /\ NotedLate(j, e).req = j.req /\ NotedLate(j, e).steps = j.steps
         /\ NotedOn(j, what).req = j.req /\ NotedOn(j, what).steps = j.steps
<1>1. CASE j = Idle
  BY <1>1 DEF NotedLate, NotedOn
<1>2. CASE j # Idle
  <2>1. j \in JobSet /\ j.steps # <<>>
    BY <1>2 DEF Sound
  <2>2. /\ NotedLate(j, e).req = j.req /\ NotedLate(j, e).steps = j.steps
        /\ NotedOn(j, what).req = j.req /\ NotedOn(j, what).steps = j.steps
    BY <2>1 DEF NotedLate, NotedOn, JobSet
  <2>3. Idle.steps = <<>>
    BY DEF Idle
  <2> QED
    BY <1>2, <2>1, <2>2, <2>3
<1> QED
  BY <1>1, <1>2

LEMMA IdleSound ==
  ASSUME NEW x, NEW on, NEW r
  PROVE  Sound(Idle, x, on, r)
BY DEF Sound

-----------------------------------------------------------------------------
(* A step that moves one job, while no claim, protocol or opt-in appears.   *)
LEMMA JobsKept ==
  ASSUME JobsSound, NEW t \in Task, NEW n, job' = [job EXCEPT ![t] = n],
         Sound(n, exports, enabled, rdma),
         exports' \subseteq exports, enabled' \subseteq enabled, rdma' = rdma
  PROVE  /\ JobsSound' /\ job'[t] = n
         /\ \A u \in Task : u # t => job'[u] = job[u]
<1>1. /\ job = [u \in Task |-> job[u]]
      /\ \A u \in Task : Sound(job[u], exports, enabled, rdma)
  BY DEF JobsSound
<1>2. /\ job' = [u \in Task |-> job'[u]] /\ job'[t] = n
      /\ \A u \in Task : u # t => job'[u] = job[u]
  BY <1>1
<1>3. ASSUME NEW u \in Task PROVE Sound(job'[u], exports', enabled', rdma')
  <2>1. Sound(job'[u], exports, enabled, rdma)
    BY <1>1, <1>2
  <2> QED
    BY <2>1, LessSound
<1> QED
  BY <1>2, <1>3 DEF JobsSound

(* The types of the jobs follow.                                            *)
LEMMA JobTypes ==
  ASSUME NEW j, NEW x, NEW on, NEW r, Sound(j, x, on, r), j # Idle
  PROVE  j.req \in Requests /\ j.req \in Request /\ j.steps # <<>>
BY ExportsAssumption DEF Sound, JobSet

(* Only a mount is ever at the cascade.                                     *)
LEMMA AttachIsMount ==
  ASSUME JobsSound, NEW t \in Task, At(t, "attach")
  PROVE  job[t].req.op = "mount" /\ job[t].req.at \in Fs
<1>1. job[t] # Idle /\ Sound(job[t], exports, enabled, rdma) /\ Head(job[t].steps).what = "attach"
  BY DEF JobsSound, At, Busy
<1>2. /\ job[t].steps \in Seq(StepSet) /\ job[t].steps # <<>> /\ Ordered(job[t].steps)
      /\ Fitting(job[t])
  BY <1>1 DEF Sound, JobSet
<1>3. Head(job[t].steps) \in Elems(job[t].steps)
  BY <1>2, Rest, Zenon
<1>4. job[t].req.op = "mount"
  BY <1>1, <1>2, <1>3 DEF Fitting
<1> QED
  BY <1>1, <1>4, JobTypes, RequestPlaces

(* The checks, the hang-up, and whatever else moves a job alone.            *)
LEMMA JobStep ==
  ASSUME ExportsInv, NEW t \in Task, NEW n, job' = [job EXCEPT ![t] = n],
         Sound(n, exports, enabled, rdma),
         UNCHANGED <<boxVars, evac, restoreVars, failed>>, unseen' \subseteq Fs,
         skipped \subseteq skipped', skipped' \subseteq Fs,
         At(t, "attach") => job[t].req.at \in skipped'
  PROVE  ExportsInv'
<1>1. TypeOK /\ JobsSound /\ MountsCovered
  BY DEF ExportsInv
<1>2. UNCHANGED <<enabled, running, rdma, fs, attached, exports, settings, restoring, todo>>
  BY DEF boxVars, restoreVars
<1>3. JobsSound' /\ \A u \in Task : u # t => job'[u] = job[u]
  BY <1>1, <1>2, JobsKept
<1>4. \A u \in Task : Busy(u)' => job'[u].req \in Requests /\ job'[u].steps # <<>>
  BY <1>3, JobTypes DEF JobsSound, Busy
<1>5. TypeOK'
  BY <1>1, <1>2, <1>4 DEF TypeOK, Attached
<1>6. MountsCovered'
  BY <1>1, <1>2, <1>3 DEF MountsCovered, At, Busy
<1> QED
  BY <1>3, <1>5, <1>6 DEF ExportsInv

(* An await of a check is not the cascade.                                  *)
LEMMA AtOne ==
  ASSUME NEW t \in Task, NEW a, NEW b, At(t, a), At(t, b)
  PROVE  a = b
BY DEF At

LEMMA StepsOfJob ==
  ASSUME JobsSound, NEW t \in Task, NEW w, At(t, w)
  PROVE  /\ job[t] # Idle /\ Sound(job[t], exports, enabled, rdma)
         /\ Head(job[t].steps).what = w
         /\ Head(job[t].steps) \in Elems(job[t].steps) /\ Head(job[t].steps) \in StepSet
         /\ w \in {"enabled", "rdma"} => Head(job[t].steps).p = job[t].req.p
<1>1. job[t] # Idle /\ Sound(job[t], exports, enabled, rdma) /\ Head(job[t].steps).what = w
  BY DEF JobsSound, At, Busy
<1>2. /\ job[t].steps \in Seq(StepSet) /\ job[t].steps # <<>> /\ Ordered(job[t].steps)
      /\ Fitting(job[t])
  BY <1>1 DEF Sound, JobSet
<1>3. Head(job[t].steps) \in Elems(job[t].steps) /\ Elems(job[t].steps) \subseteq StepSet
  BY <1>2, Rest, Zenon
<1> QED
  BY <1>1, <1>2, <1>3 DEF Fitting

LEMMA PlainStep ==
  ASSUME ExportsInv, NEW t \in Task, NEW n, job' = [job EXCEPT ![t] = n],
         Sound(n, exports, enabled, rdma), ~At(t, "attach"),
         UNCHANGED <<boxVars, evacVars, restoreVars, failed, skipped>>
  PROVE  ExportsInv'
<1>1. UNCHANGED <<evac, unseen, boxVars, restoreVars, failed, skipped>> /\ unseen \subseteq Fs
      /\ skipped \subseteq Fs
  BY DEF evacVars, ExportsInv, TypeOK
<1>2. /\ UNCHANGED <<boxVars, evac, restoreVars, failed>> /\ unseen' \subseteq Fs
      /\ skipped \subseteq skipped' /\ skipped' \subseteq Fs
  BY <1>1
<1> QED
  BY <1>2, JobStep

LEMMA MovesOn ==
  ASSUME JobsSound, NEW t \in Task, NEW w, At(t, w),
         w \in {"unused", "free"} =>
           \A e \in exports : e[1] = Head(job[t].steps).p => ~Concerns(job[t].req, e),
         w = "act" => job[t].req.op = "mount",
         w = "enabled" => Head(job[t].steps).p \in enabled,
         w = "rdma" => rdma
  PROVE  Sound(Advanced(job[t]), exports, enabled, rdma)
<1>1. job[t] # Idle /\ Sound(job[t], exports, enabled, rdma) /\ Head(job[t].steps).what = w
  BY StepsOfJob
<1> QED
  BY <1>1, AdvancedSound

(* A failed listing is noted, and the protocol asked is no longer asked.    *)
LEMMA BlindMoves ==
  ASSUME NEW j, NEW x, NEW on, NEW r, Sound(j, x, on, r), j # Idle,
         Head(j.steps).what \in {"unused", "free"}
  PROVE  Sound([Advanced(j) EXCEPT !.blind = @ \cup {Head(j.steps).p}], x, on, r)
<1> DEFINE p == Head(j.steps).p
           b == [j EXCEPT !.blind = @ \cup {p}]
<1>1. /\ j \in JobSet /\ j.steps \in Seq(StepSet) /\ j.steps # <<>> /\ Ordered(j.steps)
  BY DEF Sound, JobSet
<1>2. p \in FileSide \cup BlockSide \cup {Null}
  <2>1. Head(j.steps) \in StepSet
    BY <1>1, Rest
  <2> QED
    BY <2>1 DEF StepSet
<1>3. Sound(b, x, on, r)
  BY <1>2, BlindSound
<1>4. /\ b.steps = j.steps /\ b.req = j.req /\ b.blind = j.blind \cup {p}
  BY <1>1 DEF JobSet
<1> HIDE DEF b, p
<1>5. Sound(Advanced(b), x, on, r)
  <2>1. b # Idle /\ \A e \in x : e[1] = Head(b.steps).p => e[1] \in b.blind
    <3>1. Idle.steps = <<>>
      BY DEF Idle
    <3> QED
      BY <1>1, <1>4, <3>1 DEF p
  <2>2. Head(b.steps).what \in {"unused", "free"}
    BY <1>4
  <2> QED
    BY <1>3, <2>1, <2>2, AdvancedSound
<1>6. Len(j.steps) # 1
  <2> SUFFICES ASSUME Len(j.steps) = 1 PROVE FALSE
    OBVIOUS
  <2>1. Elems(j.steps) = {Head(j.steps)}
    BY <1>1, Rest
  <2>2. j.req.op = "mount"
    BY <2>1 DEF Sound, Fitting
  <2>3. j.steps \in {MountSteps, <<Step("attach", Null)>>}
    BY <2>2 DEF Sound, Fitting
  <2> QED
    BY <2>3, MountTail
<1>7. Advanced(b) = [Advanced(j) EXCEPT !.blind = @ \cup {Head(j.steps).p}]
  <2>1. Advanced(j) = [j EXCEPT !.steps = Tail(@)] /\ Advanced(b) = [b EXCEPT !.steps = Tail(@)]
    BY <1>4, <1>6 DEF Advanced
  <2> QED
    BY <1>1, <2>1 DEF b, p, JobSet
<1> QED
  BY <1>5, <1>7

LEMMA CheckStep ==
  ASSUME ExportsInv, NEW t \in Task, Check(t)
  PROVE  ExportsInv'
<1>1. JobsSound
  BY DEF ExportsInv
<1>2. CASE RequireProtocol(t)
  <2>1. At(t, "enabled") /\ ~At(t, "attach")
    BY <1>2, AtOne DEF RequireProtocol
  <2>2. UNCHANGED <<boxVars, evacVars, restoreVars, failed, skipped>>
    BY <1>2 DEF RequireProtocol
  <2>3. PICK n \in {Idle, Advanced(job[t])} :
          job' = [job EXCEPT ![t] = n] /\ (n # Idle => Head(job[t].steps).p \in enabled)
    BY <1>2 DEF RequireProtocol, Advance, Answer
  <2>4. Sound(n, exports, enabled, rdma)
    <3>1. CASE n = Idle
      BY <3>1, IdleSound
    <3>2. CASE n # Idle
      <4>1. n = Advanced(job[t]) /\ Head(job[t].steps).p \in enabled
        BY <2>3, <3>2
      <4> QED
        BY <1>1, <2>1, <4>1, MovesOn
    <3> QED
      BY <3>1, <3>2
  <2>5. job' = [job EXCEPT ![t] = n]
    BY <2>3
  <2> QED
    BY <2>1, <2>2, <2>4, <2>5, PlainStep
<1>3. CASE RequireRdma(t)
  <2>1. At(t, "rdma") /\ ~At(t, "attach")
    BY <1>3, AtOne DEF RequireRdma
  <2>2. UNCHANGED <<boxVars, evacVars, restoreVars, failed, skipped>>
    BY <1>3 DEF RequireRdma
  <2>3. PICK n \in {Idle, Advanced(job[t])} :
          job' = [job EXCEPT ![t] = n] /\ (n # Idle => rdma = TRUE)
    BY <1>3 DEF RequireRdma, Advance, Answer
  <2>4. Sound(n, exports, enabled, rdma)
    <3>1. CASE n = Idle
      BY <3>1, IdleSound
    <3>2. CASE n # Idle
      <4>1. n = Advanced(job[t]) /\ rdma = TRUE
        BY <2>3, <3>2
      <4> QED
        BY <1>1, <2>1, <4>1, MovesOn
    <3> QED
      BY <3>1, <3>2
  <2>5. job' = [job EXCEPT ![t] = n]
    BY <2>3
  <2> QED
    BY <2>1, <2>2, <2>4, <2>5, PlainStep
<1>4. CASE Listed(t)
  <2>1. PICK w \in {"unused", "free"} : At(t, w)
    BY <1>4 DEF Listed
  <2>2. UNCHANGED <<boxVars, evacVars, restoreVars, failed, skipped>>
    BY <1>4 DEF Listed
  <2>3. PICK n : /\ n \in {Idle, Advanced(job[t])} /\ job' = [job EXCEPT ![t] = n]
                 /\ n # Idle => \A e \in exports :
                                  e[1] = Head(job[t].steps).p => ~Concerns(job[t].req, e)
    BY <1>4 DEF Listed, Advance, Answer
  <2>4. n # Idle => Sound(n, exports, enabled, rdma)
    BY <1>1, <2>1, <2>3, MovesOn
  <2>5. Sound(n, exports, enabled, rdma) /\ ~At(t, "attach")
    BY <2>1, <2>4, IdleSound, AtOne
  <2> QED
    BY <2>2, <2>3, <2>5, PlainStep
<1>5. CASE ListingFailed(t)
  <2>1. PICK w \in {"unused", "free"} : At(t, w)
    BY <1>5 DEF ListingFailed
  <2> DEFINE n == [Advanced(job[t]) EXCEPT !.blind = @ \cup {Head(job[t].steps).p}]
  <2>2. UNCHANGED <<boxVars, evacVars, restoreVars, failed, skipped>>
    BY <1>5, Zenon DEF ListingFailed
  <2>6. job' = [job EXCEPT ![t] = n]
    BY <1>5, Zenon DEF ListingFailed
  <2>3. job[t] # Idle /\ Sound(job[t], exports, enabled, rdma) /\ Head(job[t].steps).what = w
    BY <1>1, <2>1, StepsOfJob
  <2>4. Sound(n, exports, enabled, rdma)
    BY <2>1, <2>3, BlindMoves
  <2>5. ~At(t, "attach")
    BY <2>1, AtOne
  <2> QED
    BY <2>2, <2>4, <2>5, <2>6, PlainStep
<1> QED
  BY <1>2, <1>3, <1>4, <1>5 DEF Check

-----------------------------------------------------------------------------
(* The engine calls.                                                        *)
Pending(t, f) == At(t, "attach") /\ job[t].req.at = f

JobsTyped == \A t \in Task : Busy(t) => job[t].req \in Requests /\ job[t].steps # <<>>

LEMMA Typed == JobsSound => JobsTyped
BY JobTypes DEF JobsSound, JobsTyped, Busy

LEMMA TypedNext == JobsSound' => JobsTyped'
BY JobTypes DEF JobsSound, JobsTyped, Busy

(* A request that answers, while nothing appears.                           *)
LEMMA AnswerStep ==
  ASSUME JobsSound, NEW t \in Task, At(t, "act"), Answer(t),
         exports' \subseteq exports, enabled' \subseteq enabled, rdma' = rdma
  PROVE  /\ JobsSound' /\ JobsTyped'
         /\ \A u \in Task, f \in Fs : Pending(u, f) => Pending(u, f)'
<1>1. JobsSound' /\ \A u \in Task : u # t => job'[u] = job[u]
  BY IdleSound, JobsKept DEF Answer
<1>2. ~At(t, "attach")
  BY AtOne
<1> QED
  BY <1>1, <1>2, TypedNext DEF Pending, At, Busy

(* Nothing is mounted or detached.                                          *)
LEMMA CoverKept ==
  ASSUME MountsCovered, fs' = fs, attached' = attached, restoring' = restoring,
         skipped' = skipped,
         \A u \in Task, f \in Fs : Pending(u, f) => Pending(u, f)'
  PROVE  MountsCovered'
BY DEF MountsCovered, Pending

LEMMA RemoveStep ==
  ASSUME ExportsInv, NEW t \in Task, Remove(t) \/ Edit(t) \/ Disable(t) \/ Evacuate(t)
  PROVE  ExportsInv'
<1>1. TypeOK /\ JobsSound /\ MountsCovered /\ At(t, "act") /\ Answer(t)
  BY DEF ExportsInv, Remove, Edit, Disable, Evacuate, Acting
<1>2. /\ rdma' = rdma /\ fs' = fs /\ attached' = attached /\ restoring' = restoring
      /\ skipped' = skipped /\ unseen' = unseen /\ todo' = todo /\ failed' = failed
      /\ exports' \subseteq exports
  BY DEF Remove, Edit, Disable, Evacuate, boxVars, evacVars, restoreVars
<1>3. enabled' \subseteq enabled /\ running' \subseteq enabled'
  BY <1>1 DEF Remove, Edit, Disable, Evacuate, boxVars, TypeOK
<1>4. JobsSound' /\ JobsTyped' /\ \A u \in Task, f \in Fs : Pending(u, f) => Pending(u, f)'
  BY <1>1, <1>2, <1>3, AnswerStep
<1>5. settings' \in [Protocol -> {"plain", "edited", "rdma"}]
  <2>1. settings \in [Protocol -> {"plain", "edited", "rdma"}]
    BY <1>1 DEF TypeOK
  <2>2. CASE Edit(t)
    BY <2>1, <2>2 DEF Edit
  <2>3. CASE Remove(t) \/ Disable(t) \/ Evacuate(t)
    BY <2>1, <2>3 DEF Remove, Disable, Evacuate, boxVars
  <2> QED
    BY <2>2, <2>3
<1>6. evac' \in [Fs -> {"none", "moving", "ended"}]
  <2>1. evac \in [Fs -> {"none", "moving", "ended"}]
    BY <1>1 DEF TypeOK
  <2>2. CASE Evacuate(t)
    BY <2>1, <2>2 DEF Evacuate
  <2>3. CASE Remove(t) \/ Disable(t) \/ Edit(t)
    BY <2>1, <2>3 DEF Remove, Disable, Edit, evacVars
  <2> QED
    BY <2>2, <2>3
<1>7. TypeOK'
  BY <1>1, <1>2, <1>3, <1>4, <1>5, <1>6 DEF TypeOK, Attached, JobsTyped
<1>8. MountsCovered'
  BY <1>1, <1>2, <1>4, CoverKept
<1> QED
  BY <1>4, <1>7, <1>8 DEF ExportsInv

(* A filesystem appears, or goes and takes its devices along.               *)
LEMMA FsStep ==
  ASSUME ExportsInv, NEW t \in Task, CreateFs(t) \/ Destroy(t) \/ Unmount(t)
  PROVE  ExportsInv'
<1> DEFINE f0 == job[t].req.at
<1>1. TypeOK /\ JobsSound /\ MountsCovered /\ At(t, "act") /\ Answer(t)
  BY DEF ExportsInv, CreateFs, Destroy, Unmount, Acting
<1>2. /\ rdma' = rdma /\ exports' = exports /\ settings' = settings /\ restoring' = restoring
      /\ enabled' = enabled /\ running' = running /\ evac' = evac /\ unseen' = unseen
      /\ todo' = todo /\ failed' = failed
  BY DEF CreateFs, Destroy, Unmount, evacVars, restoreVars
<1>3. JobsSound' /\ JobsTyped' /\ \A u \in Task, f \in Fs : Pending(u, f) => Pending(u, f)'
  BY <1>1, <1>2, AnswerStep
<1>4. f0 \in Fs
  <2>1. job[t].req \in Request /\ job[t].req.op \in {"create", "destroy", "unmount"}
    BY <1>1, ActFacts DEF CreateFs, Destroy, Unmount, Acting
  <2> QED
    BY <2>1, RequestPlaces
<1>5. \/ /\ fs' = [fs EXCEPT ![f0] = "mounted"]
         /\ attached' = attached \cup {f0} /\ skipped' = skipped
      \/ /\ fs' \in {[fs EXCEPT ![f0] = "absent"], [fs EXCEPT ![f0] = "unmounted"]}
         /\ attached' = attached \ {f0} /\ skipped' = skipped \ {f0}
  BY DEF CreateFs, Destroy, Unmount, Gone
<1> HIDE DEF f0
<1>6. /\ fs' \in [Fs -> {"absent", "unmounted", "mounted"}]
      /\ attached' \subseteq Attached' /\ skipped' \subseteq Fs
      /\ \A f \in Fs : f # f0 => fs'[f] = fs[f]
      /\ fs'[f0] = "mounted" => f0 \in attached'
  BY <1>1, <1>4, <1>5 DEF TypeOK, Attached
<1>7. TypeOK'
  BY <1>1, <1>2, <1>3, <1>6 DEF TypeOK, JobsTyped
<1>8. MountsCovered'
  BY <1>1, <1>2, <1>3, <1>5, <1>6 DEF MountsCovered, Pending
<1> QED
  BY <1>3, <1>7, <1>8 DEF ExportsInv

(* fs.mount: the cascade is the next await of the same request.             *)
LEMMA MountStep ==
  ASSUME ExportsInv, NEW t \in Task, Mount(t)
  PROVE  ExportsInv'
<1> DEFINE f0 == job[t].req.at
           n == Advanced(job[t])
<1>1. TypeOK /\ JobsSound /\ MountsCovered /\ At(t, "act") /\ job' = [job EXCEPT ![t] = n]
  BY DEF ExportsInv, Mount, Acting, Advance
<1>2. /\ rdma' = rdma /\ exports' = exports /\ settings' = settings /\ restoring' = restoring
      /\ enabled' = enabled /\ running' = running /\ evac' = evac /\ unseen' = unseen
      /\ todo' = todo /\ failed' = failed /\ attached' = attached /\ skipped' = skipped
      /\ fs' = [fs EXCEPT ![f0] = "mounted"] /\ job[t].req.op = "mount"
  BY DEF Mount, Acting, evacVars, restoreVars
<1>3. /\ job[t] # Idle /\ Sound(job[t], exports, enabled, rdma)
      /\ Head(job[t].steps).what = "act" /\ job[t] \in JobSet
      /\ f0 \in Fs
  BY <1>1, <1>2, StepsOfJob, ActFacts, RequestPlaces
<1>4. Sound(n, exports, enabled, rdma)
  BY <1>1, <1>2, MovesOn
<1>5. /\ n # Idle /\ n.req = job[t].req /\ Head(n.steps).what = "attach"
  <2>1. job[t].steps = MountSteps
    BY <1>2, <1>3, MountTail DEF Sound, Fitting
  <2>2. n = [job[t] EXCEPT !.steps = Tail(@)] /\ Tail(job[t].steps) = <<Step("attach", Null)>>
    BY <2>1, MountTail DEF Advanced
  <2>3. n.req = job[t].req /\ n.steps = <<Step("attach", Null)>>
    BY <1>3, <2>2 DEF JobSet
  <2>4. <<Step("attach", Null)>> # <<>> /\ Idle.steps = <<>>
    BY DEF Idle
  <2> QED
    BY <2>3, <2>4, MountTail
<1> HIDE DEF n, f0
<1>6. JobsSound' /\ job'[t] = n /\ \A u \in Task : u # t => job'[u] = job[u]
  BY <1>1, <1>2, <1>4, JobsKept
<1>7. JobsTyped'
  BY <1>6, TypedNext
<1>8. ~At(t, "attach") /\ \A f \in Fs : f = f0 => Pending(t, f)'
  BY <1>1, <1>5, <1>6, AtOne DEF Pending, At, Busy, f0
<1>9. \A u \in Task, f \in Fs : Pending(u, f) => Pending(u, f)'
  BY <1>6, <1>8 DEF Pending, At, Busy
<1>10. /\ fs' \in [Fs -> {"absent", "unmounted", "mounted"}] /\ attached' \subseteq Attached'
       /\ \A f \in Fs : f # f0 => fs'[f] = fs[f]
  BY <1>1, <1>2, <1>3 DEF TypeOK, Attached
<1>11. TypeOK'
  BY <1>1, <1>2, <1>7, <1>10 DEF TypeOK, JobsTyped
<1>12. MountsCovered'
  <2> SUFFICES ASSUME restoring \notin {"mounts", "attach"}, NEW f \in Fs, fs'[f] = "mounted"
               PROVE  f \in attached \cup skipped \/ \E u \in Task : Pending(u, f)'
    BY <1>2 DEF MountsCovered, Pending
  <2>1. CASE f = f0
    BY <1>8, <2>1
  <2>2. CASE f # f0
    <3>1. f \in attached \cup skipped \/ \E u \in Task : Pending(u, f)
      BY <1>1, <1>10, <2>2 DEF MountsCovered, Pending
    <3> QED
      BY <1>9, <3>1
  <2> QED
    BY <2>1, <2>2
<1> QED
  BY <1>6, <1>11, <1>12 DEF ExportsInv

(* restore_block_devices, by a request or at boot.                          *)
LEMMA AttachedNow ==
  ASSUME attached' = Attached, fs' = fs
  PROVE  MountsCovered' /\ attached' \subseteq Attached'
BY DEF MountsCovered, Attached

LEMMA AttachStep ==
  ASSUME ExportsInv, NEW t \in Task, Attach(t)
  PROVE  ExportsInv'
<1>1. TypeOK /\ JobsSound /\ At(t, "attach") /\ job' = [job EXCEPT ![t] = Advanced(job[t])]
  BY DEF ExportsInv, Attach, Advance
<1>2. /\ rdma' = rdma /\ exports' = exports /\ settings' = settings /\ restoring' = restoring
      /\ enabled' = enabled /\ running' = running /\ evac' = evac /\ unseen' = unseen
      /\ todo' = todo /\ failed' = failed /\ attached' = Attached /\ skipped' = {} /\ fs' = fs
  BY DEF Attach, evacVars, restoreVars
<1>3. Sound(Advanced(job[t]), exports, enabled, rdma)
  BY <1>1, MovesOn
<1>4. JobsSound'
  BY <1>1, <1>2, <1>3, JobsKept
<1>5. MountsCovered' /\ attached' \subseteq Attached'
  BY <1>2, AttachedNow
<1>6. TypeOK'
  BY <1>1, <1>2, <1>4, <1>5, TypedNext DEF TypeOK, JobsTyped
<1> QED
  BY <1>4, <1>5, <1>6 DEF ExportsInv

(* Every job but one notes what happened; what is at the cascade stays.     *)
LEMMA NotedStep ==
  ASSUME JobsSound, NEW T \in SUBSET Task, job' = [u \in Task |-> job'[u]],
         \A u \in T : job'[u] = Idle /\ ~At(u, "attach"),
         \A u \in Task : u \notin T =>
           /\ Sound(job'[u], exports', enabled', rdma')
           /\ job[u] # Idle => job'[u] # Idle
           /\ job'[u].req = job[u].req /\ job'[u].steps = job[u].steps
  PROVE  /\ JobsSound' /\ JobsTyped'
         /\ \A u \in Task, f \in Fs : Pending(u, f) => Pending(u, f)'
<1>1. \A u \in Task : Sound(job'[u], exports', enabled', rdma')
  BY IdleSound
<1>2. JobsSound'
  BY <1>1 DEF JobsSound
<1> QED
  BY <1>2, TypedNext DEF Pending, At, Busy

LEMMA AddStep ==
  ASSUME ExportsInv, NEW t \in Task, Add(t)
  PROVE  ExportsInv' /\ \A u \in Task : u # t /\ job[u] # Idle => job'[u] # Idle
<1> DEFINE e == <<job[t].req.p, job[t].req.at>>
<1>1. /\ TypeOK /\ JobsSound /\ MountsCovered /\ At(t, "act") /\ job[t].req.op = "add"
      /\ job' = [u \in Task |-> IF u = t THEN Idle ELSE NotedLate(job[u], e)]
  BY DEF ExportsInv, Add, Acting
<1>2. /\ rdma' = rdma /\ exports' = exports \cup {e} /\ restoring' = restoring
      /\ enabled' = enabled /\ running' = running /\ evac' = evac /\ unseen' = unseen
      /\ todo' = todo /\ failed' = failed /\ attached' = attached /\ skipped' = skipped
      /\ fs' = fs
      /\ settings' \in {settings, [settings EXCEPT ![job[t].req.p] = "rdma"]}
  BY DEF Add, evacVars, restoreVars
<1>3. e \in Protocol \X Place
  BY <1>1, ActFacts, RequestPlaces DEF ShareOp
<1> HIDE DEF e
<1>4. \A u \in Task : u \notin {t} =>
        /\ job'[u] = NotedLate(job[u], e)
        /\ Sound(job'[u], exports', enabled', rdma')
        /\ job[u] # Idle => job'[u] # Idle
        /\ job'[u].req = job[u].req /\ job'[u].steps = job[u].steps
  BY <1>1, <1>2, <1>3, LateSound, NotesKeep DEF JobsSound
<1>5. job' = [u \in Task |-> job'[u]] /\ \A u \in {t} : job'[u] = Idle /\ ~At(u, "attach")
  BY <1>1, AtOne
<1>6. /\ JobsSound' /\ JobsTyped'
      /\ \A u \in Task, f \in Fs : Pending(u, f) => Pending(u, f)'
  <2>1. {t} \in SUBSET Task
    OBVIOUS
  <2> QED
    BY <1>1, <1>4, <1>5, <2>1, NotedStep
<1>7. MountsCovered'
  BY <1>1, <1>2, <1>6, CoverKept
<1>8. TypeOK'
  BY <1>1, <1>2, <1>3, <1>6 DEF TypeOK, JobsTyped, Attached
<1> QED
  BY <1>4, <1>6, <1>7, <1>8 DEF ExportsInv

(* A protocol that is started, by a request or at boot.                     *)
LEMMA StartedOn ==
  ASSUME TypeOK, NEW p \in Protocol, Started(p)
  PROVE  /\ enabled' \in {enabled, enabled \cup {p}} /\ enabled' \subseteq Protocol
         /\ running' \subseteq enabled' /\ failed' \subseteq Protocol
BY DEF Started, TypeOK

LEMMA NotedWhenOn ==
  ASSUME NEW j, NEW x, NEW on, NEW r, Sound(j, x, on, r), NEW p \in Protocol,
         NEW on1 \in {on, on \cup {p}},
         NEW j1, j1 = IF p \in on1 THEN NotedOn(j, p) ELSE j
  PROVE  /\ Sound(j1, x, on1, r) /\ j1.req = j.req /\ j1.steps = j.steps
         /\ j # Idle => j1 # Idle
<1>1. p # "rdma"
  BY ExportsAssumption DEF FileSide, BlockSide
<1>2. /\ Sound(NotedOn(j, p), x, on \cup {p}, r)
      /\ NotedOn(j, p).req = j.req /\ NotedOn(j, p).steps = j.steps
      /\ j # Idle => NotedOn(j, p) # Idle
  <2>1. {p} \ {"rdma"} = {p}
    BY <1>1
  <2>2. Sound(NotedOn(j, p), x, on \cup ({p} \ {"rdma"}), r)
    BY OnSound
  <2> QED
    BY <2>1, <2>2, NotesKeep
<1>3. CASE p \in on1
  <2>1. on1 = on \cup {p}
    BY <1>3
  <2> QED
    BY <1>2, <1>3, <2>1
<1>4. CASE p \notin on1
  <2>1. on1 = on
    BY <1>4
  <2> QED
    BY <1>4, <2>1
<1> QED
  BY <1>3, <1>4

LEMMA EnableStep ==
  ASSUME ExportsInv, NEW t \in Task, Enable(t)
  PROVE  ExportsInv'
<1> DEFINE p == job[t].req.p
<1>1. /\ TypeOK /\ JobsSound /\ MountsCovered /\ At(t, "act") /\ job[t].req.op = "enable"
      /\ Started(p)
      /\ job' = [u \in Task |-> IF u = t THEN Idle
                                ELSE IF p \in enabled' THEN NotedOn(job[u], p) ELSE job[u]]
  BY DEF ExportsInv, Enable, Acting
<1>2. /\ rdma' = rdma /\ exports' = exports /\ settings' = settings /\ restoring' = restoring
      /\ evac' = evac /\ unseen' = unseen /\ todo' = todo /\ attached' = attached
      /\ skipped' = skipped /\ fs' = fs
  BY DEF Enable, evacVars, restoreVars
<1>3. p \in Protocol
  BY <1>1, ActFacts, RequestPlaces
<1> HIDE DEF p
<1>4. /\ enabled' \in {enabled, enabled \cup {p}} /\ enabled' \subseteq Protocol
      /\ running' \subseteq enabled' /\ failed' \subseteq Protocol
  BY <1>1, <1>3, StartedOn
<1>5. ASSUME NEW u \in Task, u \notin {t}
      PROVE  /\ Sound(job'[u], exports', enabled', rdma')
             /\ job[u] # Idle => job'[u] # Idle
             /\ job'[u].req = job[u].req /\ job'[u].steps = job[u].steps
  <2>1. job'[u] = IF p \in enabled' THEN NotedOn(job[u], p) ELSE job[u]
    BY <1>1, <1>5
  <2>2. Sound(job[u], exports, enabled, rdma)
    BY <1>1 DEF JobsSound
  <2> QED
    BY <1>2, <1>3, <1>4, <2>1, <2>2, NotedWhenOn
<1>6. /\ job' = [u \in Task |-> job'[u]] /\ {t} \in SUBSET Task
      /\ \A u \in {t} : job'[u] = Idle /\ ~At(u, "attach")
  BY <1>1, AtOne
<1>7. /\ JobsSound' /\ JobsTyped'
      /\ \A u \in Task, f \in Fs : Pending(u, f) => Pending(u, f)'
  BY <1>1, <1>5, <1>6, NotedStep
<1>8. MountsCovered'
  BY <1>1, <1>2, <1>7, CoverKept
<1>9. TypeOK'
  BY <1>1, <1>2, <1>4, <1>7 DEF TypeOK, JobsTyped, Attached
<1> QED
  BY <1>7, <1>8, <1>9 DEF ExportsInv

LEMMA RestoreProtocolStep ==
  ASSUME ExportsInv, NEW p \in Protocol, RestoreProtocol(p)
  PROVE  ExportsInv'
<1>1. /\ TypeOK /\ JobsSound /\ MountsCovered /\ Started(p)
      /\ job' = [u \in Task |-> IF p \in enabled' THEN NotedOn(job[u], p) ELSE job[u]]
  BY DEF ExportsInv, RestoreProtocol
<1>2. /\ rdma' = rdma /\ exports' = exports /\ settings' = settings /\ restoring' = restoring
      /\ evac' = evac /\ unseen' = unseen /\ todo' \subseteq todo /\ attached' = attached
      /\ skipped' = skipped /\ fs' = fs
  BY DEF RestoreProtocol, evacVars, RestLeft
<1>4. /\ enabled' \in {enabled, enabled \cup {p}} /\ enabled' \subseteq Protocol
      /\ running' \subseteq enabled' /\ failed' \subseteq Protocol
  BY <1>1, StartedOn
<1>5. ASSUME NEW u \in Task
      PROVE  /\ Sound(job'[u], exports', enabled', rdma')
             /\ job[u] # Idle => job'[u] # Idle
             /\ job'[u].req = job[u].req /\ job'[u].steps = job[u].steps
  <2>1. job'[u] = IF p \in enabled' THEN NotedOn(job[u], p) ELSE job[u]
    BY <1>1
  <2>2. Sound(job[u], exports, enabled, rdma)
    BY <1>1 DEF JobsSound
  <2> QED
    BY <1>2, <1>4, <2>1, <2>2, NotedWhenOn
<1>6. job' = [u \in Task |-> job'[u]] /\ {} \in SUBSET Task
  BY <1>1
<1>7. /\ JobsSound' /\ JobsTyped'
      /\ \A u \in Task, f \in Fs : Pending(u, f) => Pending(u, f)'
  BY <1>1, <1>5, <1>6, NotedStep
<1>8. MountsCovered'
  BY <1>1, <1>2, <1>7, CoverKept
<1>9. TypeOK'
  BY <1>1, <1>2, <1>4, <1>7 DEF TypeOK, JobsTyped, Attached
<1> QED
  BY <1>7, <1>8, <1>9 DEF ExportsInv

LEMMA SwitchStep ==
  ASSUME ExportsInv, RdmaSwitched
  PROVE  ExportsInv'
<1>1. /\ TypeOK /\ JobsSound /\ MountsCovered /\ rdma \in BOOLEAN /\ rdma' = ~rdma
      /\ job' = [u \in Task |-> IF rdma' THEN NotedOn(job[u], "rdma") ELSE job[u]]
  BY DEF ExportsInv, RdmaSwitched, TypeOK
<1>2. /\ exports' = exports /\ settings' = settings /\ restoring' = restoring
      /\ enabled' = enabled /\ running' = running /\ evac' = evac /\ unseen' = unseen
      /\ todo' = todo /\ failed' = failed /\ attached' = attached /\ skipped' = skipped
      /\ fs' = fs
  BY DEF RdmaSwitched, evacVars, restoreVars
<1>3. ASSUME NEW u \in Task
      PROVE  /\ Sound(job'[u], exports, enabled, rdma')
             /\ job[u] # Idle => job'[u] # Idle
             /\ job'[u].req = job[u].req /\ job'[u].steps = job[u].steps
  <2>1. Sound(job[u], exports, enabled, rdma)
    BY <1>1 DEF JobsSound
  <2>2. CASE rdma = TRUE
    <3>1. job'[u] = job[u] /\ rdma' = FALSE
      BY <1>1, <2>2
    <3>2. Sound(job'[u], exports, enabled, rdma')
      BY <2>1, <3>1 DEF Sound, SeenOn
    <3> QED
      BY <3>1, <3>2
  <2>3. CASE rdma = FALSE
    <3>1. job'[u] = NotedOn(job[u], "rdma") /\ rdma' = TRUE
      BY <1>1, <2>3
    <3>2. Sound(NotedOn(job[u], "rdma"), exports, enabled, TRUE)
      BY <2>1, OnSound
    <3>3. Sound(job'[u], exports, enabled, rdma')
      BY <3>1, <3>2 DEF Sound, SeenOn
    <3>4. /\ job[u] # Idle => job'[u] # Idle
          /\ job'[u].req = job[u].req /\ job'[u].steps = job[u].steps
      BY <2>1, <3>1, NotesKeep
    <3> QED
      BY <3>3, <3>4
  <2> QED
    BY <1>1, <2>2, <2>3
<1>4. job' = [u \in Task |-> job'[u]] /\ {} \in SUBSET Task
  BY <1>1
<1>5. /\ JobsSound' /\ JobsTyped'
      /\ \A u \in Task, f \in Fs : Pending(u, f) => Pending(u, f)'
  BY <1>1, <1>2, <1>3, <1>4, NotedStep
<1>6. MountsCovered'
  BY <1>1, <1>2, <1>5, CoverKept
<1>7. rdma' \in BOOLEAN
  BY <1>1
<1>8. TypeOK'
  BY <1>1, <1>2, <1>5, <1>7 DEF TypeOK, JobsTyped, Attached
<1> QED
  BY <1>5, <1>6, <1>8 DEF ExportsInv

(* Steps that leave the jobs and the claims alone.                          *)
LEMMA SameJobs ==
  ASSUME JobsSound, UNCHANGED <<job, exports, enabled, rdma>>
  PROVE  /\ JobsSound' /\ JobsTyped'
         /\ \A u \in Task, f \in Fs : Pending(u, f) => Pending(u, f)'
<1>1. JobsSound'
  BY DEF JobsSound
<1> QED
  BY <1>1, TypedNext DEF Pending, At, Busy

LEMMA EvacuationStep ==
  ASSUME ExportsInv, NEW f \in Fs, Evacuation(f)
  PROVE  ExportsInv'
<1>1. TypeOK /\ JobsSound /\ MountsCovered
  BY DEF ExportsInv
<1>2. UNCHANGED <<enabled, running, rdma, fs, attached, exports, settings, job, restoring, todo,
                  failed, skipped>>
  BY DEF Evacuation, Moves, Poll, EvacuationEnds, FinalEvent, boxVars, restoreVars
<1>3. /\ JobsSound' /\ JobsTyped'
      /\ \A u \in Task, g \in Fs : Pending(u, g) => Pending(u, g)'
  BY <1>1, <1>2, SameJobs
<1>4. unseen' \subseteq Fs /\ evac' \in [Fs -> {"none", "moving", "ended"}]
  BY <1>1 DEF Evacuation, Moves, Poll, EvacuationEnds, FinalEvent, Sent, TypeOK
<1>5. MountsCovered'
  BY <1>1, <1>2, <1>3, CoverKept
<1>6. TypeOK'
  BY <1>1, <1>2, <1>3, <1>4 DEF TypeOK, JobsTyped, Attached
<1> QED
  BY <1>3, <1>5, <1>6 DEF ExportsInv

LEMMA RestoreStep ==
  ASSUME ExportsInv, Restore
  PROVE  ExportsInv'
<1>1. TypeOK /\ JobsSound /\ MountsCovered
  BY DEF ExportsInv
<1>2. CASE RestoreMounts
  <2>1. UNCHANGED <<enabled, running, rdma, attached, exports, settings, job, evac, unseen, todo,
                    failed, skipped>> /\ restoring' = "attach"
    BY <1>2 DEF RestoreMounts, evacVars
  <2>2. PICK S : fs' = [f \in Fs |-> IF f \in S THEN "mounted" ELSE fs[f]]
    BY <1>2 DEF RestoreMounts
  <2>3. JobsSound' /\ JobsTyped'
    BY <1>1, <2>1, SameJobs
  <2>4. fs' \in [Fs -> {"absent", "unmounted", "mounted"}] /\ attached' \subseteq Attached'
    BY <1>1, <2>1, <2>2 DEF TypeOK, Attached
  <2>5. TypeOK'
    BY <1>1, <2>1, <2>3, <2>4 DEF TypeOK, JobsTyped
  <2>6. MountsCovered'
    BY <2>1 DEF MountsCovered
  <2> QED
    BY <2>3, <2>5, <2>6 DEF ExportsInv
<1>3. CASE RestoreDevices
  <2>1. UNCHANGED <<enabled, running, rdma, fs, exports, settings, job, evac, unseen, todo, failed>>
        /\ attached' = Attached /\ skipped' = {} /\ restoring' = "list"
    BY <1>3 DEF RestoreDevices, evacVars
  <2>2. JobsSound' /\ JobsTyped'
    BY <1>1, <2>1, SameJobs
  <2>3. MountsCovered' /\ attached' \subseteq Attached'
    BY <2>1, AttachedNow
  <2>4. TypeOK'
    BY <1>1, <2>1, <2>2, <2>3 DEF TypeOK, JobsTyped
  <2> QED
    BY <2>2, <2>3, <2>4 DEF ExportsInv
<1>4. CASE RestoreList \/ RestoreDone
  <2>1. /\ UNCHANGED <<enabled, running, rdma, fs, attached, exports, settings, job, evac, unseen,
                       failed, skipped>>
        /\ todo' \subseteq todo \cup enabled /\ restoring' \in {"enable", "done"}
        /\ restoring \in {"list", "enable"}
    BY <1>4 DEF RestoreList, RestoreDone, boxVars, evacVars
  <2>2. JobsSound' /\ JobsTyped' /\ \A u \in Task, f \in Fs : Pending(u, f) => Pending(u, f)'
    BY <1>1, <2>1, SameJobs
  <2>3. TypeOK'
    BY <1>1, <2>1, <2>2 DEF TypeOK, JobsTyped, Attached
  <2>4. MountsCovered'
    BY <1>1, <2>1, <2>2 DEF MountsCovered, Pending
  <2> QED
    BY <2>2, <2>3, <2>4 DEF ExportsInv
<1> QED
  BY <1>2, <1>3, <1>4, RestoreProtocolStep DEF Restore

(* A request begins, fails or is dropped.                                   *)
LEMMA BeginStep ==
  ASSUME ExportsInv, NEW t \in Task, NEW q \in Requests, Begin(t, q)
  PROVE  ExportsInv'
<1> DEFINE n == [req |-> q, steps |-> Steps(q), late |-> {}, blind |-> {},
                 seen |-> (enabled \cap {q.p}) \cup (IF q.rdma /\ rdma THEN {"rdma"} ELSE {})]
<1>1. /\ enabled \in SUBSET Protocol /\ exports \in SUBSET (Protocol \X Place)
      /\ rdma \in BOOLEAN
  BY DEF ExportsInv, TypeOK
<1>2. Sound(n, exports, enabled, rdma)
  BY <1>1, BegunSound
<1>3. job' = [job EXCEPT ![t] = n] /\ ~At(t, "attach")
  BY DEF Begin, At
<1>4. UNCHANGED <<boxVars, evacVars, restoreVars, failed, skipped>>
  BY DEF Begin
<1> HIDE DEF n
<1> QED
  BY <1>2, <1>3, <1>4, PlainStep

LEMMA FailStep ==
  ASSUME ExportsInv, NEW t \in Task, EngineFails(t)
  PROVE  ExportsInv'
<1>1. job' = [job EXCEPT ![t] = Idle] /\ ~At(t, "attach")
  BY AtOne DEF EngineFails, Answer
<1>2. UNCHANGED <<boxVars, evacVars, restoreVars, failed, skipped>>
  BY DEF EngineFails
<1> QED
  BY <1>1, <1>2, IdleSound, PlainStep

LEMMA HangUpStep ==
  ASSUME ExportsInv, NEW t \in Task, HangUp(t)
  PROVE  ExportsInv'
<1>1. JobsSound /\ skipped \subseteq Fs /\ unseen \subseteq Fs
  BY DEF ExportsInv, TypeOK
<1>2. /\ job' = [job EXCEPT ![t] = Idle]
      /\ UNCHANGED <<boxVars, evac, restoreVars, failed>> /\ unseen' \subseteq Fs
  BY <1>1 DEF HangUp, Answer, evacVars
<1>3. /\ skipped \subseteq skipped' /\ skipped' \subseteq Fs
      /\ At(t, "attach") => job[t].req.at \in skipped'
  BY <1>1, AttachIsMount DEF HangUp
<1> QED
  BY <1>2, <1>3, IdleSound, JobStep

-----------------------------------------------------------------------------
(* The invariant.                                                           *)
LEMMA ExportsInit == Init => ExportsInv
<1> SUFFICES ASSUME Init PROVE ExportsInv
  OBVIOUS
<1>1. job = [t \in Task |-> Idle]
  BY DEF Init
<1>2. JobsSound
  BY <1>1, IdleSound DEF JobsSound
<1>3. TypeOK
  BY <1>2, Typed DEF Init, TypeOK, JobsTyped, Attached
<1>4. MountsCovered
  BY DEF Init, MountsCovered
<1> QED
  BY <1>2, <1>3, <1>4 DEF ExportsInv

LEMMA ExportsNext == ExportsInv /\ [Next]_vars => ExportsInv'
<1> SUFFICES ASSUME ExportsInv, [Next]_vars PROVE ExportsInv'
  OBVIOUS
<1>1. CASE UNCHANGED vars
  BY <1>1 DEF vars, boxVars, evacVars, restoreVars, ExportsInv, TypeOK, JobsSound, MountsCovered,
              Attached, At, Busy
<1>2. ASSUME NEW t \in Task, Engine(t) PROVE ExportsInv'
  BY <1>2, FailStep, AddStep, RemoveStep, FsStep, MountStep, AttachStep, EnableStep DEF Engine
<1>3. CASE Requesting
  BY <1>2, <1>3, BeginStep, CheckStep, HangUpStep DEF Requesting
<1> QED
  BY <1>1, <1>3, EvacuationStep, RestoreStep, SwitchStep DEF Next

(* Types, and: only a mounted filesystem has its devices attached, only an  *)
(* enabled protocol runs (src/src/rpc/fs.rs, src/src/rpc/service.rs).       *)
THEOREM ExportsTypes == Spec => []TypeOK
<1>1. ExportsInv => TypeOK
  BY DEF ExportsInv
<1> QED
  BY <1>1, ExportsInit, ExportsNext, PTL DEF Spec

(* Once the restore work has looked after the devices, a mounted filesystem *)
(* has its block devices, or the request that mounts it is about to attach  *)
(* them, or was cut off (fs.mount, restore).                                *)
THEOREM DevicesFollow == Spec => []MountAttaches
<1>1. ExportsInv => MountAttaches
  BY DEF ExportsInv, MountsCovered, MountAttaches
<1> QED
  BY <1>1, ExportsInit, ExportsNext, PTL DEF Spec

(* What a destroyed filesystem leaves behind appeared after the request had *)
(* listed its protocol, or that listing had failed, or it is a claim on a   *)
(* device whose path does not tell the filesystem (check_filesystem_in_use).*)
THEOREM DestroyWindow == Spec => DestroySeesExports
<1> DEFINE A == \A t \in Task, e \in exports :
                  fs[Base(e[2])] # "absent" /\ fs'[Base(e[2])] = "absent" /\ Acting(t, "destroy")
                    /\ job'[t] = Idle /\ job[t].req.at = Base(e[2])
                    => \/ e \in job[t].late \/ e[1] \in job[t].blind
                       \/ e[2] \notin Fs \cup Named
<1>1. ExportsInv => A
  <2> SUFFICES ASSUME ExportsInv, NEW t \in Task, NEW e \in exports,
                      Acting(t, "destroy"), job[t].req.at = Base(e[2]), e[2] \in Fs \cup Named
               PROVE  e \in job[t].late \/ e[1] \in job[t].blind
    OBVIOUS
  <2>1. JobsSound /\ At(t, "act") /\ Concerns(job[t].req, e)
    BY DEF ExportsInv, Acting, Concerns
  <2> QED
    BY <2>1, ActFacts
<1>2. ExportsInv /\ [Next]_vars => [A]_vars
  BY <1>1
<1> HIDE DEF A
<1>3. Spec => [][A]_vars
  BY <1>2, ExportsInit, ExportsNext, PTL DEF Spec
<1> QED
  BY <1>3 DEF A, DestroySeesExports

(* One path comes under both block protocols only when the second claim was *)
(* checked before the first appeared, or the listing had failed             *)
(* (check_block_device_conflict).                                           *)
THEOREM ClaimWindow == Spec => ClaimSeesExports
<1> DEFINE A == \A t \in Task, q \in BlockSide :
                  Acting(t, "add") /\ job[t].req.p \in BlockSide /\ exports' # exports
                    /\ job'[t] = Idle /\ q # job[t].req.p /\ <<q, job[t].req.at>> \in exports
                    => <<q, job[t].req.at>> \in job[t].late \/ q \in job[t].blind
<1>1. ExportsInv => A
  <2> SUFFICES ASSUME ExportsInv, NEW t \in Task, NEW q \in BlockSide, Acting(t, "add"),
                      job[t].req.p \in BlockSide, q # job[t].req.p,
                      <<q, job[t].req.at>> \in exports
               PROVE  <<q, job[t].req.at>> \in job[t].late \/ q \in job[t].blind
    OBVIOUS
  <2> DEFINE e == <<q, job[t].req.at>>
  <2>1. e \in exports /\ e[1] = q /\ e[2] = job[t].req.at
    OBVIOUS
  <2>2. {job[t].req.p, q} = BlockSide
    BY DEF BlockSide
  <2> HIDE DEF e
  <2>3. JobsSound /\ At(t, "act") /\ Concerns(job[t].req, e)
    BY <2>1, <2>2 DEF ExportsInv, Acting, Concerns
  <2>4. e \in job[t].late \/ e[1] \in job[t].blind
    BY <2>1, <2>3, ActFacts
  <2> QED
    BY <2>1, <2>4 DEF e
<1>2. ExportsInv /\ [Next]_vars => [A]_vars
  BY <1>1
<1> HIDE DEF A
<1>3. Spec => [][A]_vars
  BY <1>2, ExportsInit, ExportsNext, PTL DEF Spec
<1> QED
  BY <1>3 DEF A, ClaimSeesExports

(* Only three engine calls touch shares and claims.                         *)
LEMMA ShareCalls ==
  ASSUME Next, exports' # exports \/ settings' # settings
  PROVE  \E u \in Task : Add(u) \/ Remove(u) \/ Edit(u)
<1>1. ASSUME NEW u \in Task, Engine(u), ~Add(u), ~Remove(u), ~Edit(u)
      PROVE  exports' = exports /\ settings' = settings
  BY <1>1 DEF Engine, EngineFails, CreateFs, Destroy, Mount, Unmount, Attach, Enable, Disable,
              Evacuate, boxVars
<1>2. ASSUME NEW u \in Task, (\E r \in Requests : Begin(u, r)) \/ Check(u) \/ HangUp(u)
      PROVE  exports' = exports /\ settings' = settings
  BY <1>2 DEF Begin, Check, RequireProtocol, RequireRdma, Listed, ListingFailed, HangUp, boxVars
<1>3. ASSUME NEW f \in Fs, Evacuation(f) PROVE exports' = exports /\ settings' = settings
  BY <1>3 DEF Evacuation, Moves, Poll, EvacuationEnds, FinalEvent, boxVars
<1>4. ASSUME Restore \/ RdmaSwitched PROVE exports' = exports /\ settings' = settings
  BY <1>4 DEF Restore, RestoreMounts, RestoreDevices, RestoreList, RestoreProtocol, RestoreDone,
              RdmaSwitched, boxVars
<1> QED
  BY <1>1, <1>2, <1>3, <1>4 DEF Next, Requesting

(* The shares of a protocol change only in requests during which it was     *)
(* enabled, and come under RDMA only in requests during which the opt-in    *)
(* was on (require_protocol, require_rdma).                                 *)
THEOREM SharesGuarded == Spec => GuardedByProtocol
<1> DEFINE A == \A t \in Task, p \in Protocol :
                  At(t, "act") /\ job'[t] = Idle
                  /\ (settings'[p] # settings[p]
                      \/ {e \in exports : e[1] = p} # {e \in exports' : e[1] = p})
                  => /\ p \in job[t].seen
                     /\ (settings'[p] = "rdma" /\ settings[p] # "rdma") => "rdma" \in job[t].seen
<1>1. ExportsInv /\ Next => A
  <2> SUFFICES ASSUME ExportsInv, Next, NEW t \in Task, NEW p \in Protocol,
                      At(t, "act"), job'[t] = Idle,
                      settings'[p] # settings[p]
                        \/ {e \in exports : e[1] = p} # {e \in exports' : e[1] = p}
               PROVE  /\ p \in job[t].seen
                      /\ (settings'[p] = "rdma" /\ settings[p] # "rdma") => "rdma" \in job[t].seen
    OBVIOUS
  <2>1. /\ JobsSound /\ job[t] # Idle /\ job[t].req \in Request
        /\ settings \in [Protocol -> {"plain", "edited", "rdma"}]
    BY ActFacts DEF ExportsInv, TypeOK
  <2>2. PICK u \in Task : Add(u) \/ Remove(u) \/ Edit(u)
    <3>1. exports' # exports \/ settings' # settings
      OBVIOUS
    <3> QED
      BY <3>1, ShareCalls
  <2>3. u = t
    <3>1. ASSUME u # t, Add(u) PROVE FALSE
      BY <2>1, <3>1, AddStep
    <3>2. ASSUME u # t, Remove(u) \/ Edit(u) PROVE FALSE
      <4>1. job' = [job EXCEPT ![u] = Idle]
        BY <3>2 DEF Remove, Edit, Answer
      <4> QED
        BY <2>1, <3>2, <4>1 DEF JobsSound
    <3> QED
      BY <2>2, <3>1, <3>2
  <2>4. job[t].req.op \in ShareOp /\ job[t].req.rdma \in BOOLEAN
    BY <2>1, <2>2, <2>3, RequestFacts DEF Add, Remove, Edit, Acting, ShareOp
  <2>5. p = job[t].req.p
    <3>1. CASE Add(t)
      BY <2>1, <3>1 DEF Add
    <3>2. CASE Remove(t)
      BY <3>2 DEF Remove
    <3>3. CASE Edit(t)
      BY <2>1, <3>3 DEF Edit
    <3> QED
      BY <2>2, <2>3, <3>1, <3>2, <3>3
  <2>6. settings'[p] = "rdma" /\ settings[p] # "rdma" => job[t].req.rdma
    <3>1. CASE Add(t)
      BY <2>1, <3>1 DEF Add
    <3>2. CASE Remove(t)
      BY <3>2 DEF Remove
    <3>3. CASE Edit(t)
      BY <2>1, <2>5, <3>3 DEF Edit
    <3> QED
      BY <2>2, <2>3, <3>1, <3>2, <3>3
  <2> QED
    BY <2>1, <2>4, <2>5, <2>6, ActFacts
<1>2. ExportsInv /\ [Next]_vars => [A]_vars
  BY <1>1
<1> HIDE DEF A
<1>3. Spec => [][A]_vars
  BY <1>2, ExportsInit, ExportsNext, PTL DEF Spec
<1> QED
  BY <1>3 DEF A, GuardedByProtocol

-----------------------------------------------------------------------------
(* The restore work: every protocol that was to be started is accounted for *)
(* while it runs, whatever the clients do to the same protocols meanwhile.  *)
Accounted ==
  /\ restoring \in {"enable", "done"} => enabled \ running \subseteq failed \cup todo
  /\ restoring # "enable" => todo = {}

(* A start leaves its protocol running or failed.                           *)
LEMMA StartedCounts ==
  ASSUME NEW p, Started(p)
  PROVE  enabled' \ running' \subseteq ((enabled \ running) \ {p}) \cup failed'
         /\ failed \ {p} \subseteq failed'
<1>1. CASE /\ enabled' = enabled \cup {p}
           /\ running' = running \cup {p}
           /\ failed' = failed \ {p}
  BY <1>1
<1>2. CASE /\ enabled' \in {enabled, enabled \cup {p}}
           /\ failed' = failed \cup {p}
           /\ UNCHANGED running
  BY <1>2
<1> QED
  BY <1>1, <1>2 DEF Started

LEMMA AccountedNext ==
  ASSUME Accounted, Next
  PROVE  Accounted'
<1>1. ASSUME UNCHANGED <<enabled, running, failed, todo, restoring>> PROVE Accounted'
  BY <1>1 DEF Accounted
<1>2. ASSUME NEW t \in Task, Engine(t), ~Enable(t), ~Disable(t)
      PROVE  UNCHANGED <<enabled, running, failed, todo, restoring>>
  BY <1>2 DEF Engine, EngineFails, Add, Remove, Edit, CreateFs, Destroy, Mount, Unmount, Attach,
              Evacuate, boxVars, restoreVars
<1>3. ASSUME NEW t \in Task, (\E r \in Requests : Begin(t, r)) \/ Check(t) \/ HangUp(t)
      PROVE  UNCHANGED <<enabled, running, failed, todo, restoring>>
  BY <1>3 DEF Begin, Check, RequireProtocol, RequireRdma, Listed, ListingFailed, HangUp, boxVars,
              restoreVars
<1>4. ASSUME NEW f \in Fs, Evacuation(f)
      PROVE  UNCHANGED <<enabled, running, failed, todo, restoring>>
  BY <1>4 DEF Evacuation, Moves, Poll, EvacuationEnds, FinalEvent, boxVars, restoreVars
<1>5. ASSUME RdmaSwitched PROVE UNCHANGED <<enabled, running, failed, todo, restoring>>
  BY <1>5 DEF RdmaSwitched, restoreVars
<1>6. ASSUME NEW t \in Task, Enable(t) PROVE Accounted'
  <2>1. PICK p : Started(p) /\ UNCHANGED <<todo, restoring>>
    BY <1>6 DEF Enable, restoreVars
  <2> QED
    BY <2>1, StartedCounts DEF Accounted
<1>7. ASSUME NEW t \in Task, Disable(t) PROVE Accounted'
  BY <1>7 DEF Accounted, Disable, restoreVars
<1>8. ASSUME NEW p \in Protocol, RestoreProtocol(p) PROVE Accounted'
  <2>1. Started(p) /\ todo' = todo \ {p} /\ restoring = "enable" /\ restoring' = restoring
    BY <1>8 DEF RestoreProtocol, RestLeft
  <2> QED
    BY <2>1, StartedCounts DEF Accounted
<1>9. ASSUME RestoreMounts \/ RestoreDevices PROVE Accounted'
  BY <1>9 DEF Accounted, RestoreMounts, RestoreDevices
<1>10. ASSUME RestoreList \/ RestoreDone PROVE Accounted'
  BY <1>10 DEF Accounted, RestoreList, RestoreDone, boxVars
<1> QED
  BY <1>1, <1>2, <1>3, <1>4, <1>5, <1>6, <1>7, <1>8, <1>9, <1>10 DEF Next, Requesting, Restore

LEMMA AccountedAlways == Spec => []Accounted
<1>1. Init => Accounted
  BY DEF Init, Accounted
<1>2. Accounted /\ [Next]_vars => Accounted'
  <2>1. Accounted /\ UNCHANGED vars => Accounted'
    BY DEF Accounted, vars, boxVars, restoreVars
  <2> QED
    BY <2>1, AccountedNext
<1> QED
  BY <1>1, <1>2, PTL DEF Spec

(* When the restore work is done, and ever after, each enabled protocol     *)
(* runs or had its last start fail: neither the loop nor a request that     *)
(* enables or disables a protocol beside it leaves one out (restore,        *)
(* service.protocol.enable and disable).                                    *)
StartsAccounted == restoring = "done" => enabled \ running \subseteq failed

THEOREM RestoreAccounts == Spec => []StartsAccounted
<1>1. Accounted => StartsAccounted
  BY DEF Accounted, StartsAccounted
<1> QED
  BY <1>1, AccountedAlways, PTL

(* One step of the restore work: on to its next part, or one protocol less. *)
Nearer ==
  \/ restoring = "mounts" /\ restoring' = "attach" /\ todo' = todo
  \/ restoring = "attach" /\ restoring' = "list" /\ todo' = todo
  \/ restoring = "list" /\ restoring' = "enable"
  \/ restoring = "enable" /\ restoring' = "enable" /\ todo' \subseteq todo /\ todo' # todo
  \/ restoring = "enable" /\ todo = {} /\ restoring' = "done" /\ todo' = todo

(* Every step of the restore work brings it nearer its end, and no request, *)
(* evacuation or switch sets it back: it ends after as many steps as there  *)
(* are protocols to start and three more (restore).                         *)
RestoreNearer == [][(Restore => Nearer) /\ (UNCHANGED restoreVars \/ Nearer)]_vars

LEMMA RestoreMoves ==
  ASSUME Restore
  PROVE  Nearer
<1>1. ASSUME NEW p \in Protocol, RestoreProtocol(p) PROVE Nearer
  <2>1. restoring = "enable" /\ restoring' = "enable" /\ p \in todo /\ todo' = todo \ {p}
    BY <1>1 DEF RestoreProtocol, RestLeft
  <2> QED
    BY <2>1 DEF Nearer
<1>2. ASSUME RestoreMounts \/ RestoreDevices \/ RestoreList \/ RestoreDone PROVE Nearer
  BY <1>2 DEF RestoreMounts, RestoreDevices, RestoreList, RestoreDone, Nearer
<1> QED
  BY <1>1, <1>2 DEF Restore

THEOREM RestoreGoesOn == Spec => RestoreNearer
<1> DEFINE A == (Restore => Nearer) /\ (UNCHANGED restoreVars \/ Nearer)
<1>1. Next => A
  <2>1. ASSUME NEW t \in Task,
               (\E r \in Requests : Begin(t, r)) \/ Check(t) \/ Engine(t) \/ HangUp(t)
        PROVE  UNCHANGED restoreVars
    BY <2>1 DEF Begin, Check, RequireProtocol, RequireRdma, Listed, ListingFailed, HangUp, Engine,
                EngineFails, Add, Remove, Edit, CreateFs, Destroy, Mount, Unmount, Attach,
                Evacuate, Enable, Disable
  <2>2. ASSUME NEW f \in Fs, Evacuation(f) PROVE UNCHANGED restoreVars
    BY <2>2 DEF Evacuation, Moves, Poll, EvacuationEnds, FinalEvent
  <2>3. RdmaSwitched => UNCHANGED restoreVars
    BY DEF RdmaSwitched, restoreVars
  <2>4. Restore => Nearer
    BY RestoreMoves
  <2> QED
    BY <2>1, <2>2, <2>3, <2>4 DEF Next, Requesting
<1>2. [Next]_vars => [A]_vars
  BY <1>1
<1> HIDE DEF A
<1>3. Spec => [][A]_vars
  BY <1>2, PTL DEF Spec
<1> QED
  BY <1>3 DEF A, RestoreNearer

-----------------------------------------------------------------------------
(* Evacuations: a filesystem with moves nobody was told of has a poller or  *)
(* the last event ahead of it, and an evacuation that has ended has sent    *)
(* none since.                                                              *)
MovesKept ==
  \A f \in Fs : /\ evac[f] \in {"none", "moving", "ended"}
                /\ f \in unseen => evac[f] # "none"
                /\ evac[f] = "ended" => f \in unseen

LEMMA MovesNext ==
  ASSUME TypeOK, MovesKept, Next
  PROVE  MovesKept'
<1>1. ASSUME UNCHANGED evacVars PROVE MovesKept'
  BY <1>1 DEF MovesKept, evacVars
<1>2. ASSUME NEW t \in Task, Engine(t), ~Evacuate(t) PROVE UNCHANGED evacVars
  BY <1>2 DEF Engine, EngineFails, Add, Remove, Edit, CreateFs, Destroy, Mount, Unmount, Attach,
              Enable, Disable
<1>3. ASSUME NEW t \in Task, (\E r \in Requests : Begin(t, r)) \/ Check(t) \/ HangUp(t)
      PROVE  UNCHANGED evacVars
  BY <1>3 DEF Begin, Check, RequireProtocol, RequireRdma, Listed, ListingFailed, HangUp
<1>4. ASSUME Restore \/ RdmaSwitched PROVE UNCHANGED evacVars
  BY <1>4 DEF Restore, RestoreMounts, RestoreDevices, RestoreList, RestoreProtocol, RestoreDone,
              RdmaSwitched, evacVars
<1>5. ASSUME NEW t \in Task, Evacuate(t) PROVE MovesKept'
  <2>1. /\ evac' = [evac EXCEPT ![job[t].req.at] = "moving"]
        /\ unseen' = unseen /\ evac \in [Fs -> {"none", "moving", "ended"}]
        /\ evac[job[t].req.at] = "none"
    BY <1>5 DEF Evacuate, TypeOK
  <2> QED
    BY <2>1 DEF MovesKept
<1>6. ASSUME NEW f \in Fs, Evacuation(f) PROVE MovesKept'
  <2>1. evac \in [Fs -> {"none", "moving", "ended"}]
    BY DEF TypeOK
  <2>2. CASE Moves(f)
    BY <2>1, <2>2 DEF Moves, MovesKept
  <2>3. CASE Poll(f)
    BY <2>1, <2>3 DEF Poll, MovesKept
  <2>4. CASE EvacuationEnds(f)
    BY <2>1, <2>4 DEF EvacuationEnds, MovesKept
  <2>5. CASE FinalEvent(f)
    BY <2>1, <2>5 DEF FinalEvent, Sent, MovesKept
  <2> QED
    BY <1>6, <2>2, <2>3, <2>4, <2>5 DEF Evacuation
<1> QED
  BY <1>1, <1>2, <1>3, <1>4, <1>5, <1>6 DEF Next, Requesting

(* Once no evacuation of a filesystem is under way, an event has followed   *)
(* everything it moved, though the poll task is aborted at any point: the   *)
(* last event comes after the abort (fs.device.evacuate).                   *)
MovesReported == \A f \in Fs : evac[f] = "none" => f \notin unseen

THEOREM LastEventFollows == Spec => []MovesReported
<1>1. Init => MovesKept
  BY DEF Init, MovesKept
<1>2. TypeOK /\ MovesKept /\ [Next]_vars => MovesKept'
  <2>1. MovesKept /\ UNCHANGED vars => MovesKept'
    BY DEF MovesKept, vars, evacVars
  <2> QED
    BY <2>1, MovesNext
<1>3. MovesKept => MovesReported
  BY DEF MovesKept, MovesReported
<1> QED
  BY <1>1, <1>2, <1>3, ExportsTypes, PTL DEF Spec
=============================================================================
