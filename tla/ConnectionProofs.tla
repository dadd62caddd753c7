-------------------------- MODULE ConnectionProofs --------------------------
(* Theorems about connections, REST calls and the event bus, for any number *)
(* of them, of accounts, tokens and tables, any size of the bus, any idle   *)
(* limit and any choice of the methods that are called.                     *)
EXTENDS Connection, TLAPS

EventName == Table \cup {"none", "other"}

(* A handler at work, and after its work.                                   *)
WorkingHandler ==
  [stage : {"working"}, self : BOOLEAN, refuses : BOOLEAN, oversteps : BOOLEAN,
   writes : SUBSET Table, lists : SUBSET Table, event : EventName]
DoneHandler == [stage : {"done"}, event : EventName]

(* TypeOK, with the handlers and the events spelled out.                    *)
Shape ==
  /\ TypeOK
  /\ run \in [Task -> {Idle} \cup WorkingHandler \cup DoneHandler]
  /\ backlog \in [Conn -> Seq(EventName)]

(* What is known of the kinds of methods without opening them.              *)
LEMMA KindType ==
  ASSUME NEW k \in Kinds
  PROVE  /\ k.self \in BOOLEAN /\ k.own \in BOOLEAN /\ k.changes \in BOOLEAN
         /\ k.writes \subseteq Table /\ k.lists \subseteq Table
         /\ k.event \in EventName
<1>1. PICK m \in Calls, other \in BOOLEAN : k = Kind(m, other)
  BY DEF Kinds
<1>2. Event(Collection(m)) \in EventName
  BY DEF Event, EventName
<1>3. k.self = SelfService(m) /\ k.own = (m = ChangePassword /\ ~other)
      /\ k.changes = (Writes(m) # {})
  BY <1>1 DEF Kind
<1>4. SelfService(m) \in BOOLEAN
  BY DEF SelfService
<1>5. k.writes = Writes(m) \cap Table /\ k.lists = {Lists(m)} \cap Table
  BY <1>1 DEF Kind
<1>6. k.event = Event(Collection(m))
  BY <1>1 DEF Kind
<1> QED
  BY <1>2, <1>3, <1>4, <1>5, <1>6

(* A dispatch puts the task in a handler, or leaves it idle.                *)
LEMMA HandlerType ==
  ASSUME NEW p \in Task, NEW s \in Session, NEW k \in Kinds
  PROVE  Handler(p, s, k) \in WorkingHandler
<1>1. /\ k.self \in BOOLEAN /\ k.own \in BOOLEAN /\ k.changes \in BOOLEAN
      /\ k.writes \subseteq Table /\ k.lists \subseteq Table /\ k.event \in EventName
  BY KindType
<1> DEFINE refuses == s.role \in k.refused
           oversteps == s.role = "ReadOnly" /\ k.changes /\ ~k.own
           lists == IF p \in Conn THEN k.lists ELSE {}
<1>2. refuses \in BOOLEAN /\ oversteps \in BOOLEAN /\ lists \subseteq Table
  BY <1>1
<1>3. Handler(p, s, k) = [stage |-> "working", self |-> k.self, refuses |-> refuses,
                          oversteps |-> oversteps, writes |-> k.writes, lists |-> lists,
                          event |-> k.event]
  BY DEF Handler
<1> HIDE DEF refuses, oversteps, lists
<1> QED
  BY <1>1, <1>2, <1>3 DEF WorkingHandler

LEMMA InitShape == Init => Shape
<1> SUFFICES ASSUME Init PROVE Shape
  OBVIOUS
<1>1. TypeOK
  BY ConnectionAssumption DEF Init, TableInit, TypeOK, Idle, Phase
<1>2. run \in [Task -> {Idle} \cup WorkingHandler \cup DoneHandler]
  BY DEF Init
<1>3. backlog \in [Conn -> Seq(EventName)]
  BY DEF Init
<1> QED
  BY <1>1, <1>2, <1>3 DEF Shape

(* A token with a session holds one.                                        *)
LEMMA ValidHeld ==
  ASSUME Shape, NEW t \in Token, Valid(t)
  PROVE  held[t] \in Session
BY DEF Shape, TypeOK, Valid

(* Steps of the accounts.                                                   *)
LEMMA LiftedShape ==
  ASSUME Shape, NEW u \in User, Lifted(u)
  PROVE  held' \in [Token -> Session \cup {Null, Unissued}]
<1>1. SessionsOf(u) \subseteq Token /\ \A t \in SessionsOf(u) : held[t] \in Session
  BY ValidHeld DEF SessionsOf
<1>2. \A t \in SessionsOf(u) : [held[t] EXCEPT !.must = FALSE] \in Session
  BY <1>1 DEF Session
<1> QED
  BY <1>2 DEF Lifted, Shape, TypeOK

LEMMA AccountsShape ==
  ASSUME Shape, Accounts
  PROVE  Shape'
<1> USE DEF authRest, viewVars, timeVars
<1>1. ASSUME NEW t \in Token, SessionEnds(t) PROVE Shape'
  BY <1>1 DEF SessionEnds, Ended, Shape, TypeOK
<1>2. ASSUME NEW t \in Token, NEW s \in Session, Login(t, s) PROVE Shape'
  BY <1>2 DEF Login, Appears, Shape, TypeOK
<1>3. ASSUME NEW u \in User, PasswordChanged(u) PROVE Shape'
  <2>1. SessionsOf(u) \subseteq Token
    BY DEF SessionsOf
  <2> QED
    BY <1>3, <2>1, LiftedShape DEF PasswordChanged, Shape, TypeOK
<1>4. ASSUME NEW u \in User, AccountRevoked(u) PROVE Shape'
  BY <1>4 DEF AccountRevoked, Revoked, Shape, TypeOK
<1> QED
  BY <1>1, <1>2, <1>3, <1>4 DEF Accounts

(* Steps that open a connection.                                            *)
LEMMA ConnectingShape ==
  ASSUME Shape, NEW c \in Conn, Connecting(c)
  PROVE  Shape'
<1> USE DEF authVars, viewVars, timeVars
<1>1. ASSUME NEW t \in Token, Authenticate(c, t) PROVE Shape'
  BY <1>1, ValidHeld DEF Authenticate, Shape, TypeOK, Phase
<1>2. ASSUME ConnectBare(c) \/ NoToken(c) \/ Subscribe(c) PROVE Shape'
  BY <1>2 DEF ConnectBare, NoToken, Subscribe, Shape, TypeOK, Phase
<1> QED
  BY <1>1, <1>2 DEF Connecting, ConnectWithToken, FirstMessage

(* The refreshed session is a session.                                      *)
LEMMA RefreshedType ==
  ASSUME Shape, NEW c \in Conn, session[c] \in Session, token[c] \in Token
  PROVE  Refreshed(c) \in Session
BY ValidHeld DEF Refreshed

(* A dispatch that lets a request through puts its task in a handler.       *)
LEMMA DispatchShape ==
  ASSUME Shape, NEW p \in Task, NEW s \in Session, NEW k \in Kinds, Dispatch(p, s, k)
  PROVE  run' \in [Task -> {Idle} \cup WorkingHandler \cup DoneHandler]
<1>1. Handler(p, s, k) \in WorkingHandler
  BY HandlerType
<1> QED
  BY <1>1 DEF Dispatch, Shape

(* A connection that serves has a token and a session.                      *)
Served == {"subscribing", "open", "rpc"}

Authenticated ==
  \A c \in Conn : phase[c] \in Served => token[c] \in Token /\ session[c] \in Session

LEMMA RequestShape ==
  ASSUME Shape, Authenticated, NEW c \in Conn, NEW k \in Kinds, Request(c, k)
  PROVE  Shape'
<1> USE DEF authVars, viewVars, timeVars
<1>1. Refreshed(c) \in Session /\ c \in Task
  BY RefreshedType DEF Request, Authenticated, Served, Task
<1>2. session' \in [Conn -> Session \cup {Null}] /\ session'[c] = Refreshed(c)
  BY <1>1 DEF Request, Shape, TypeOK
<1>3. run' \in [Task -> {Idle} \cup WorkingHandler \cup DoneHandler]
  BY <1>1, <1>2, DispatchShape DEF Request
<1>4. \A p \in Task : run'[p].stage \in {"idle", "working", "done"}
  BY <1>3 DEF Idle, WorkingHandler, DoneHandler
<1>5. Verdict(session'[c], k) \in {"none", "gated", "denied", "answered"}
  BY DEF Verdict
<1>6. phase' \in [Conn -> Phase] /\ reply' \in [Conn -> {"none", "gated", "denied", "answered"}]
  BY <1>5 DEF Request, Shape, TypeOK, Phase
<1>7. age' \in [Conn -> 0 .. IdleLimit + 1]
  BY ConnectionAssumption DEF Request, Shape, TypeOK
<1> QED
  BY <1>2, <1>3, <1>4, <1>6, <1>7 DEF Request, Shape, TypeOK

LEMMA RestCallShape ==
  ASSUME Shape, NEW r \in Rest, NEW t \in Token, NEW k \in Kinds, RestCall(r, t, k)
  PROVE  Shape'
<1> USE DEF authVars, viewVars, timeVars
<1>1. held[t] \in Session /\ r \in Task
  BY ValidHeld DEF RestCall, Task
<1>2. run' \in [Task -> {Idle} \cup WorkingHandler \cup DoneHandler]
  BY <1>1, DispatchShape DEF RestCall
<1>3. \A p \in Task : run'[p].stage \in {"idle", "working", "done"}
  BY <1>2 DEF Idle, WorkingHandler, DoneHandler
<1> QED
  BY <1>2, <1>3 DEF RestCall, Shape, TypeOK

(* What is known of a handler at work.                                      *)
LEMMA WorkingType ==
  ASSUME Shape, NEW p \in Task, Working(p)
  PROVE  run[p] \in WorkingHandler
BY DEF Shape, Working, Idle, DoneHandler

LEMMA WorkShape ==
  ASSUME Shape, NEW p \in Task, NEW ok \in BOOLEAN, NEW wrote \in SUBSET Table, Work(p, ok, wrote)
  PROVE  Shape'
<1> USE DEF authVars, viewVars, timeVars
<1>1. run[p].lists \subseteq Table /\ run[p].event \in EventName
  BY WorkingType DEF Work, WorkingHandler
<1>2. run' \in [Task -> {Idle} \cup WorkingHandler \cup DoneHandler]
  <2>1. [stage |-> "done", event |-> IF ok THEN run[p].event ELSE "none"] \in DoneHandler
    BY <1>1 DEF DoneHandler, EventName
  <2> QED
    BY <2>1 DEF Work, Shape
<1>3. \A q \in Task : run'[q].stage \in {"idle", "working", "done"}
  BY <1>2 DEF Idle, WorkingHandler, DoneHandler
<1>4. /\ shown' \in [Conn -> SUBSET Table]
      /\ stale' \in [Conn -> SUBSET Table]
      /\ told' \in [Conn -> SUBSET Table]
      /\ lost' \in [Conn -> SUBSET Table]
  BY <1>1 DEF Work, Shape, TypeOK
<1> QED
  BY <1>2, <1>3, <1>4 DEF Work, Shape, TypeOK

(* What a receiver keeps after an event is posted.                          *)
LEMMA PostedType ==
  ASSUME Shape, NEW c \in Conn, NEW e \in EventName
  PROVE  /\ Posted(c, e) \in Seq(EventName)
         /\ Len(Posted(c, e)) <= Cap
<1>1. backlog[c] \in Seq(EventName) /\ Len(backlog[c]) <= Cap /\ Cap \in Nat \ {0}
  BY ConnectionAssumption DEF Shape, TypeOK
<1>2. CASE c \notin Receivers \/ e = "none"
  BY <1>1, <1>2 DEF Posted
<1>3. CASE c \in Receivers /\ e # "none" /\ Len(backlog[c]) < Cap
  BY <1>1, <1>3 DEF Posted
<1>4. CASE c \in Receivers /\ e # "none" /\ ~(Len(backlog[c]) < Cap)
  <2>1. Len(backlog[c]) = Cap /\ backlog[c] # <<>>
    BY <1>1, <1>4
  <2>2. Tail(backlog[c]) \in Seq(EventName) /\ Len(Tail(backlog[c])) = Cap - 1
    BY <1>1, <2>1
  <2> QED
    BY <1>1, <1>4, <2>2 DEF Posted
<1> QED
  BY <1>2, <1>3, <1>4

LEMMA AnnounceShape ==
  ASSUME Shape, NEW p \in Task, Announce(p)
  PROVE  Shape'
<1> USE DEF authVars, viewVars, timeVars
<1>1. run[p].event \in EventName
  BY DEF Announce, Shape, Done, Idle, WorkingHandler, DoneHandler
<1>2. backlog' \in [Conn -> Seq(EventName)] /\ \A c \in Conn : Len(backlog'[c]) <= Cap
  BY <1>1, PostedType DEF Announce, viewVars
<1>3. run' \in [Task -> {Idle} \cup WorkingHandler \cup DoneHandler]
  BY DEF Announce, Shape
<1>4. \A q \in Task : run'[q].stage \in {"idle", "working", "done"}
  BY <1>3 DEF Idle, WorkingHandler, DoneHandler
<1>5. lost' \in [Conn -> SUBSET Table]
  BY DEF Announce, Shape, TypeOK
<1>6. phase' \in [Conn -> Phase] /\ reply' \in [Conn -> {"none", "gated", "denied", "answered"}]
  BY DEF Announce, Shape, TypeOK, Phase
<1> QED
  BY <1>2, <1>3, <1>4, <1>5, <1>6 DEF Announce, Shape, TypeOK

LEMMA HangUpShape ==
  ASSUME Shape, NEW r \in Rest, NEW wrote \in SUBSET Table, HangUp(r, wrote)
  PROVE  Shape'
<1> USE DEF authVars, viewVars, timeVars
<1>1. run' \in [Task -> {Idle} \cup WorkingHandler \cup DoneHandler]
  BY DEF HangUp, Shape
<1>2. \A q \in Task : run'[q].stage \in {"idle", "working", "done"}
  BY <1>1 DEF Idle, WorkingHandler, DoneHandler
<1> QED
  BY <1>1, <1>2 DEF HangUp, Shape, TypeOK

(* Answers, events and time.                                                *)
LEMMA TakeReplyShape ==
  ASSUME Shape, NEW c \in Conn, TakeReply(c)
  PROVE  Shape'
BY DEF TakeReply, Shape, TypeOK, authVars, viewVars, timeVars

LEMMA ForwardShape ==
  ASSUME Shape, NEW c \in Conn, Forward(c)
  PROVE  Shape'
<1> USE DEF authVars, viewVars, timeVars
<1>1. backlog[c] \in Seq(EventName) /\ backlog[c] # <<>> /\ Len(backlog[c]) <= Cap
  BY DEF Forward, Shape, TypeOK
<1>2. Tail(backlog[c]) \in Seq(EventName) /\ Len(Tail(backlog[c])) <= Cap
  BY <1>1, ConnectionAssumption
<1>3. backlog' \in [Conn -> Seq(EventName)] /\ \A d \in Conn : Len(backlog'[d]) <= Cap
  BY <1>2 DEF Forward, Shape, TypeOK
<1>4. told' \in [Conn -> SUBSET Table]
  BY DEF Forward, Shape, TypeOK
<1> QED
  BY <1>3, <1>4 DEF Forward, Shape, TypeOK

LEMMA IntervalShape ==
  ASSUME Shape, Interval
  PROVE  Shape'
<1> USE DEF authVars, viewVars, timeVars
<1>1. age' \in [Conn -> 0 .. IdleLimit + 1]
  BY ConnectionAssumption DEF Interval, Shape, TypeOK
<1>2. due' \in [Conn -> BOOLEAN] /\ excuse' \in [Conn -> BOOLEAN]
  BY DEF Interval
<1> QED
  BY <1>1, <1>2 DEF Interval, Shape, TypeOK

LEMMA LeaveShape ==
  ASSUME Shape, NEW c \in Conn, NEW how \in {"closed", "dropped"}, Leave(c, how),
         UNCHANGED <<authVars, run, excuse>>, due' \in [Conn -> BOOLEAN], UNCHANGED pinged
  PROVE  Shape'
<1> USE DEF authVars
<1>1. backlog' \in [Conn -> Seq(EventName)] /\ \A d \in Conn : Len(backlog'[d]) <= Cap
  BY ConnectionAssumption DEF Leave, Shape, TypeOK
<1>2. age' \in [Conn -> 0 .. IdleLimit + 1]
  BY ConnectionAssumption DEF Leave, Shape, TypeOK
<1>3. phase' \in [Conn -> Phase]
  BY DEF Leave, Shape, TypeOK, Phase
<1> QED
  BY <1>1, <1>2, <1>3 DEF Leave, Shape, TypeOK

LEMMA TimersShape ==
  ASSUME Shape, NEW c \in Conn, TickerFires(c) \/ Pong(c) \/ Close(c)
  PROVE  Shape'
<1> USE DEF authVars, viewVars, timeVars
<1>1. CASE Pong(c)
  BY <1>1, ConnectionAssumption DEF Pong, Shape, TypeOK
<1>2. CASE Close(c)
  BY <1>2, LeaveShape DEF Close, Shape, TypeOK
<1>3. CASE TickerFires(c)
  <2>1. due' \in [Conn -> BOOLEAN]
    BY <1>3 DEF TickerFires, Shape, TypeOK
  <2>2. CASE TooOld(c)
    BY <1>3, <2>1, <2>2, LeaveShape DEF TickerFires
  <2>3. CASE ~TooOld(c)
    BY <1>3, <2>1, <2>3 DEF TickerFires, Shape, TypeOK
  <2> QED
    BY <2>2, <2>3
<1> QED
  BY <1>1, <1>2, <1>3

-----------------------------------------------------------------------------
(* Handlers run in connections that are in a call, ...                      *)
HandlersInCalls == \A c \in Conn : run[c] # Idle => phase[c] = "rpc"

(* ... and the history of cleared tokens keeps up with the sessions, the    *)
(* live ones and the captured ones.                                         *)
SessionsCleared == \A t \in Token : Valid(t) /\ ~held[t].must => t \in cleared
CapturedCleared ==
  \A c \in Conn : phase[c] \in Served /\ ~session[c].must => token[c] \in cleared

GateInv ==
  Shape /\ Authenticated /\ HandlersInCalls /\ SessionsCleared /\ CapturedCleared /\ GateHolds

LEMMA InitGate == Init => GateInv
<1> SUFFICES ASSUME Init PROVE GateInv
  OBVIOUS
<1>1. Authenticated /\ CapturedCleared
  BY DEF Init, Authenticated, CapturedCleared, Served
<1>2. HandlersInCalls /\ GateHolds
  BY DEF Init, HandlersInCalls, GateHolds, Working, Idle, Task
<1>3. SessionsCleared
  BY DEF Init, TableInit, SessionsCleared, Valid
<1> QED
  BY <1>1, <1>2, <1>3, InitShape DEF GateInv

(* Steps that leave the tokens, the sessions and the phases alone, and put  *)
(* no connection in a handler, keep the gate.                               *)
LEMMA GateUntouched ==
  ASSUME GateInv, Shape', UNCHANGED <<held, cleared, phase, token, session>>,
         \A c \in Conn : run'[c] = run[c] \/ (run[c] # Idle /\ run'[c].stage = "done")
  PROVE  GateInv'
<1>1. \A c \in Conn : Working(c)' => Working(c) /\ run'[c] = run[c]
  BY DEF Working
<1>2. Authenticated' /\ HandlersInCalls' /\ SessionsCleared' /\ CapturedCleared'
  BY DEF GateInv, Authenticated, HandlersInCalls, SessionsCleared, CapturedCleared, Valid
<1>3. GateHolds'
  BY <1>1 DEF GateInv, GateHolds
<1> QED
  BY <1>2, <1>3 DEF GateInv

LEMMA GateAccounts ==
  ASSUME GateInv, Accounts
  PROVE  GateInv'
<1> USE DEF authRest
<1>1. Shape'
  BY AccountsShape DEF GateInv
<1>2. UNCHANGED <<phase, token, session, run>> /\ cleared \subseteq cleared'
  BY DEF Accounts, SessionEnds, Login, PasswordChanged, AccountRevoked
<1>3. Authenticated' /\ HandlersInCalls' /\ CapturedCleared' /\ GateHolds'
  BY <1>2 DEF GateInv, Authenticated, HandlersInCalls, CapturedCleared, GateHolds, Working
<1>4. SessionsCleared'
  <2>1. ASSUME NEW t \in Token, SessionEnds(t) PROVE SessionsCleared'
    BY <2>1, ConnectionAssumption
       DEF SessionEnds, Ended, GateInv, Shape, TypeOK, SessionsCleared, Valid
  <2>2. ASSUME NEW t \in Token, NEW s \in Session, Login(t, s) PROVE SessionsCleared'
    BY <2>2 DEF Login, Appears, GateInv, Shape, TypeOK, SessionsCleared, Valid
  <2>3. ASSUME NEW u \in User, PasswordChanged(u) PROVE SessionsCleared'
    <3>1. ASSUME NEW t \in Token, t \notin SessionsOf(u), Valid(t)', ~held'[t].must
          PROVE  t \in cleared'
      BY <2>3, <3>1 DEF PasswordChanged, Lifted, GateInv, Shape, TypeOK, SessionsCleared, Valid
    <3>2. ASSUME NEW t \in SessionsOf(u) PROVE t \in cleared'
      BY <2>3, <3>2 DEF PasswordChanged
    <3> QED
      BY <3>1, <3>2 DEF SessionsCleared
  <2>4. ASSUME NEW u \in User, AccountRevoked(u) PROVE SessionsCleared'
    BY <2>4 DEF AccountRevoked, Revoked, GateInv, Shape, TypeOK, SessionsCleared, Valid
  <2> QED
    BY <2>1, <2>2, <2>3, <2>4 DEF Accounts
<1> QED
  BY <1>1, <1>3, <1>4 DEF GateInv

LEMMA GateConnecting ==
  ASSUME GateInv, NEW c \in Conn, Connecting(c)
  PROVE  GateInv'
<1> USE DEF authVars
<1>1. Shape'
  BY ConnectingShape DEF GateInv
<1>2. UNCHANGED <<held, cleared, run>> /\ phase[c] \in {"none", "auth", "subscribing"}
  BY DEF Connecting, ConnectBare, NoToken, Subscribe, ConnectWithToken, FirstMessage, Authenticate
<1>3. run[c] = Idle
  BY <1>2 DEF GateInv, HandlersInCalls
<1>4. \A d \in Conn : d # c => phase'[d] = phase[d] /\ token'[d] = token[d] /\ session'[d] = session[d]
  BY DEF Connecting, ConnectBare, NoToken, Subscribe, ConnectWithToken, FirstMessage, Authenticate,
     GateInv, Shape, TypeOK
<1>5. phase'[c] \in Served => /\ token'[c] \in Token /\ session'[c] \in Session
                              /\ ~session'[c].must => token'[c] \in cleared
  <2>1. ASSUME NEW t \in Token, Authenticate(c, t), phase'[c] \in Served
        PROVE  /\ token'[c] = t /\ session'[c] = held[t] /\ Valid(t)
    BY <2>1 DEF Authenticate, Served, GateInv, Shape, TypeOK
  <2>2. ASSUME NEW t \in Token, Authenticate(c, t), phase'[c] \in Served
        PROVE  /\ token'[c] \in Token /\ session'[c] \in Session
               /\ ~session'[c].must => token'[c] \in cleared
    BY <2>1, <2>2, ValidHeld DEF GateInv, SessionsCleared
  <2>3. ASSUME ConnectBare(c) \/ NoToken(c) PROVE phase'[c] \notin Served
    BY <2>3 DEF ConnectBare, NoToken, Served, GateInv, Shape, TypeOK
  <2>4. ASSUME Subscribe(c)
        PROVE  phase[c] \in Served /\ UNCHANGED <<token, session>>
    BY <2>4 DEF Subscribe, Served
  <2> QED
    BY <2>2, <2>3, <2>4 DEF Connecting, ConnectWithToken, FirstMessage, GateInv, Authenticated,
       CapturedCleared
<1>6. Authenticated' /\ CapturedCleared'
  BY <1>2, <1>4, <1>5 DEF GateInv, Authenticated, CapturedCleared
<1>7. HandlersInCalls'
  BY <1>2, <1>3, <1>4 DEF GateInv, HandlersInCalls
<1>8. GateHolds'
  BY <1>2, <1>3, <1>4 DEF GateInv, GateHolds, Working, Idle
<1>9. SessionsCleared'
  BY <1>2 DEF GateInv, SessionsCleared, Valid
<1> QED
  BY <1>1, <1>6, <1>7, <1>8, <1>9 DEF GateInv

(* The step that matters: a request is let through under the refreshed      *)
(* session, which is free of the gate only if the token once was.           *)
LEMMA GateRequest ==
  ASSUME GateInv, NEW c \in Conn, NEW k \in Kinds, Request(c, k)
  PROVE  GateInv'
<1> USE DEF authVars
<1>1. Shape'
  BY RequestShape DEF GateInv
<1>2. /\ token[c] \in Token /\ session[c] \in Session
      /\ session'[c] = Refreshed(c) /\ session'[c] \in Session
      /\ UNCHANGED <<held, cleared, token>>
  BY RefreshedType DEF Request, GateInv, Authenticated, Served, Shape, TypeOK
<1>3. ~Refreshed(c).must => token[c] \in cleared
  BY <1>2, ValidHeld DEF Request, Refreshed, GateInv, SessionsCleared, CapturedCleared, Served
<1>4. \A d \in Conn : d # c => phase'[d] = phase[d] /\ session'[d] = session[d] /\ run'[d] = run[d]
  BY DEF Request, Dispatch, GateInv, Shape, TypeOK
<1>5. phase'[c] = (IF run'[c] = Idle THEN "open" ELSE "rpc")
  BY DEF Request, GateInv, Shape, TypeOK
<1>6. Authenticated' /\ CapturedCleared'
  BY <1>2, <1>3, <1>4 DEF GateInv, Authenticated, CapturedCleared, Request, Served
<1>7. HandlersInCalls'
  BY <1>4, <1>5 DEF GateInv, HandlersInCalls
<1>8. Working(c)' /\ ~run'[c].self => token[c] \in cleared
  <2> SUFFICES ASSUME Working(c)', ~run'[c].self PROVE token[c] \in cleared
    OBVIOUS
  <2>1. run'[c] = IF Verdict(session'[c], k) = "none" THEN Handler(c, session'[c], k) ELSE Idle
    BY DEF Request, Dispatch, GateInv, Shape, Task
  <2>2. Verdict(session'[c], k) = "none" /\ run'[c] = Handler(c, session'[c], k)
    BY <2>1 DEF Working, Idle
  <2>3. ~k.self
    BY <2>2 DEF Handler
  <2>4. ~session'[c].must
    BY <2>2, <2>3 DEF Verdict, Gated
  <2> QED
    BY <1>2, <1>3, <2>4
<1>9. GateHolds'
  BY <1>2, <1>4, <1>8 DEF GateInv, GateHolds, Working
<1>10. SessionsCleared'
  BY <1>2 DEF GateInv, SessionsCleared, Valid
<1> QED
  BY <1>1, <1>6, <1>7, <1>9, <1>10 DEF GateInv

LEMMA GateRest ==
  ASSUME GateInv, NEW r \in Rest,
         \/ \E t \in Token, k \in Kinds : RestCall(r, t, k)
         \/ \E wrote \in SUBSET Table : HangUp(r, wrote)
  PROVE  GateInv'
<1>1. Shape'
  BY RestCallShape, HangUpShape DEF GateInv
<1>2. UNCHANGED <<held, cleared, phase, token, session>>
  BY DEF RestCall, HangUp, authVars
<1>3. \A c \in Conn : run'[c] = run[c]
  BY ConnectionAssumption DEF RestCall, HangUp, Dispatch, GateInv, Shape, Task
<1> QED
  BY <1>1, <1>2, <1>3, GateUntouched

LEMMA GateWork ==
  ASSUME GateInv, NEW p \in Task, NEW ok \in BOOLEAN, NEW wrote \in SUBSET Table,
         Work(p, ok, wrote)
  PROVE  GateInv'
<1>1. Shape'
  BY WorkShape DEF GateInv
<1>2. UNCHANGED <<held, cleared, phase, token, session>>
  BY DEF Work, authVars
<1>3. run[p] # Idle
  BY DEF Work, Working, Idle
<1>4. \A c \in Conn : run'[c] = run[c] \/ (run[c] # Idle /\ run'[c].stage = "done")
  BY <1>3 DEF Work, GateInv, Shape, Task
<1> QED
  BY <1>1, <1>2, <1>4, GateUntouched

LEMMA GateAnnounce ==
  ASSUME GateInv, NEW p \in Task, Announce(p)
  PROVE  GateInv'
<1> USE DEF authVars
<1>1. Shape'
  BY AnnounceShape DEF GateInv
<1>2. UNCHANGED <<held, cleared, token, session>>
  BY DEF Announce
<1>3. \A c \in Conn : phase'[c] \in Served <=> phase[c] \in Served
  BY DEF Announce, Served
<1>4. \A c \in Conn : run'[c] # Idle => run'[c] = run[c] /\ phase'[c] = phase[c]
  BY DEF Announce, GateInv, Shape, Task
<1>5. Authenticated' /\ CapturedCleared' /\ SessionsCleared'
  BY <1>2, <1>3 DEF GateInv, Authenticated, CapturedCleared, SessionsCleared, Valid
<1>6. HandlersInCalls'
  BY <1>4 DEF GateInv, HandlersInCalls
<1>7. GateHolds'
  BY <1>2, <1>4 DEF GateInv, GateHolds, Working, Idle
<1> QED
  BY <1>1, <1>5, <1>6, <1>7 DEF GateInv

LEMMA GateQuiet ==
  ASSUME GateInv, Interval \/ \E c \in Conn : TakeReply(c) \/ Forward(c) \/ Pong(c)
  PROVE  GateInv'
<1>1. Shape'
  BY IntervalShape, TakeReplyShape, ForwardShape, TimersShape DEF GateInv
<1>2. UNCHANGED <<held, cleared, phase, token, session, run>>
  BY DEF Interval, TakeReply, Forward, Pong, authVars
<1> QED
  BY <1>1, <1>2, GateUntouched

(* A connection that leaves takes its session with it.                      *)
LEMMA GateLeave ==
  ASSUME GateInv, NEW c \in Conn, TickerFires(c) \/ Close(c)
  PROVE  GateInv'
<1> USE DEF authVars
<1>1. Shape'
  BY TimersShape DEF GateInv
<1>2. UNCHANGED <<held, cleared, run>> /\ phase[c] = "open" /\ run[c] = Idle
  BY DEF TickerFires, Close, GateInv, HandlersInCalls
<1>3. \A d \in Conn : d # c => phase'[d] = phase[d] /\ token'[d] = token[d] /\ session'[d] = session[d]
  BY DEF TickerFires, Close, Leave, GateInv, Shape, TypeOK
<1>4. \/ phase'[c] \notin Served
      \/ phase'[c] = phase[c] /\ token'[c] = token[c] /\ session'[c] = session[c]
  BY DEF TickerFires, Close, Leave, Served, GateInv, Shape, TypeOK
<1>5. Authenticated' /\ CapturedCleared' /\ SessionsCleared'
  BY <1>2, <1>3, <1>4 DEF GateInv, Authenticated, CapturedCleared, SessionsCleared, Valid
<1>6. HandlersInCalls' /\ GateHolds'
  BY <1>2, <1>3 DEF GateInv, HandlersInCalls, GateHolds, Working, Idle
<1> QED
  BY <1>1, <1>5, <1>6 DEF GateInv

LEMMA GateStep == GateInv /\ [Next]_vars => GateInv'
<1> SUFFICES ASSUME GateInv, [Next]_vars PROVE GateInv'
  OBVIOUS
<1>1. ASSUME UNCHANGED vars PROVE GateInv'
  <2>1. Shape'
    BY <1>1 DEF vars, authVars, viewVars, timeVars, GateInv, Shape, TypeOK
  <2>2. UNCHANGED <<held, cleared, phase, token, session, run>>
    BY <1>1 DEF vars, authVars
  <2> QED
    BY <2>1, <2>2, GateUntouched
<1>2. ASSUME NEW p \in Task, Serving(p) PROVE GateInv'
  BY <1>2, GateWork, GateAnnounce DEF Serving
<1>3. ASSUME NEW c \in Conn, \E k \in Kinds : Request(c, k) PROVE GateInv'
  BY <1>3, GateRequest
<1>4. ASSUME NEW r \in Rest,
             \/ \E wrote \in SUBSET Table : HangUp(r, wrote)
             \/ \E t \in Token, k \in Kinds : RestCall(r, t, k)
      PROVE GateInv'
  BY <1>4, GateRest
<1> QED
  BY <1>1, <1>2, <1>3, <1>4, GateAccounts, GateConnecting, GateQuiet, GateLeave DEF Next

LEMMA GateAlways == Spec => []GateInv
<1> QED
  BY InitGate, GateStep, PTL DEF Spec

(* Every variable keeps its type (TypeOK of Connection).                    *)
THEOREM ConnectionTypes == Spec => []TypeOK
<1>1. GateInv => TypeOK
  BY DEF GateInv, Shape
<1> QED
  BY <1>1, GateAlways, PTL

(* The forced change of password holds back every connection (GateHolds):   *)
(* whatever happens to accounts and sessions while connections are open, a  *)
(* request that is not a self-service one is dispatched only on a token     *)
(* whose session was once free of the gate.                                 *)
THEOREM GateAlwaysHolds == Spec => []GateHolds
<1>1. GateInv => GateHolds
  BY DEF GateInv
<1> QED
  BY <1>1, GateAlways, PTL

(* A request is turned away at the gate under the session it was refreshed  *)
(* to.                                                                      *)
LEMMA GatedIsClosed ==
  ASSUME GateInv, NEW c \in Conn, NEW k \in Kinds, Request(c, k), reply'[c] = "gated"
  PROVE  ~Valid(token[c]) \/ held[token[c]].must
<1>1. reply'[c] = Verdict(session'[c], k) /\ session'[c] = Refreshed(c)
  BY DEF Request, GateInv, Shape, TypeOK
<1>2. Refreshed(c).must
  BY <1>1 DEF Verdict, Gated
<1> QED
  BY <1>2 DEF Refreshed

LEMMA GateOpensStep ==
  ASSUME GateInv, [Next]_vars, NEW c \in Conn, reply[c] = "none", reply'[c] = "gated"
  PROVE  ~Valid(token[c]) \/ held[token[c]].must
<1>1. CASE \E k \in Kinds : Request(c, k)
  BY <1>1, GatedIsClosed
<1>2. CASE UNCHANGED reply
  BY <1>2
<1>3. ASSUME NEW d \in Conn, d # c, NEW k \in Kinds, Request(d, k) PROVE reply'[c] = reply[c]
  BY <1>3 DEF Request, GateInv, Shape, TypeOK
<1>4. ASSUME NEW d \in Conn, TakeReply(d) \/ TickerFires(d) \/ Close(d)
      PROVE  reply'[c] \in {reply[c], "none"}
  BY <1>4 DEF TakeReply, TickerFires, Close, Leave, GateInv, Shape, TypeOK
<1>5. ASSUME NEW p \in Task, Announce(p) PROVE reply'[c] \in {reply[c], "answered"}
  BY <1>5 DEF Announce
<1>6. ASSUME \/ UNCHANGED vars \/ Accounts \/ Interval
             \/ \E d \in Conn : Connecting(d) \/ Forward(d) \/ Pong(d)
             \/ \E p \in Task, ok \in BOOLEAN, wrote \in SUBSET Table : Work(p, ok, wrote)
             \/ \E r \in Rest : \/ \E wrote \in SUBSET Table : HangUp(r, wrote)
                                \/ \E t \in Token, k \in Kinds : RestCall(r, t, k)
      PROVE  UNCHANGED reply
  <2>1. Accounts => UNCHANGED reply
    BY DEF Accounts, SessionEnds, Login, PasswordChanged, AccountRevoked, authRest
  <2>2. \A d \in Conn : Connecting(d) \/ Forward(d) \/ Pong(d) => UNCHANGED reply
    BY DEF Connecting, ConnectBare, NoToken, Subscribe, ConnectWithToken, FirstMessage,
       Authenticate, Forward, Pong
  <2> QED
    BY <1>6, <2>1, <2>2 DEF vars, Interval, Work, HangUp, RestCall
<1> QED
  BY <1>1, <1>2, <1>3, <1>4, <1>5, <1>6 DEF Next, Serving

(* The gate opens for connections that are open (GateOpens): a request is   *)
(* turned away at it only while the session of the token is gated, or gone, *)
(* however long ago the connection captured its own copy of the session.    *)
THEOREM GateReopens == Spec => GateOpens
<1>1. GateInv /\ [Next]_vars =>
        [\A c \in Conn : reply[c] = "none" /\ reply'[c] = "gated" =>
           ~Valid(token[c]) \/ held[token[c]].must]_vars
  BY GateOpensStep
<1> QED
  BY <1>1, GateAlways, PTL DEF Spec, GateOpens

-----------------------------------------------------------------------------
(* What a method is read by, segment by segment, and the table of methods   *)
(* against it: no method that the role matrix lets a reader call by its     *)
(* name writes a table.                                                     *)
Reading == {"list", "get", "status"}

LEMMA UnderOne ==
  ASSUME NEW a, NEW S, NEW m \in Under(<<a>>, S)
  PROVE  Len(m) = 2 /\ m[1] = a /\ m[2] \in S /\ Last(m) = m[2] /\ m = <<a, m[2]>>
<1>1. PICK n \in S : m = <<a>> \o <<n>>
  BY DEF Under
<1>2. <<a>> \in Seq({a, n}) /\ <<n>> \in Seq({a, n})
  OBVIOUS
<1>3. m \in Seq({a, n}) /\ Len(m) = 2 /\ m[1] = a /\ m[2] = n
  BY <1>1, <1>2
<1> QED
  BY <1>3 DEF Last

LEMMA UnderTwo ==
  ASSUME NEW a, NEW b, NEW S, NEW m \in Under(<<a, b>>, S)
  PROVE  /\ Len(m) = 3 /\ m[1] = a /\ m[2] = b /\ m[3] \in S /\ Last(m) = m[3]
         /\ m = <<a, b, m[3]>>
<1>1. PICK n \in S : m = <<a, b>> \o <<n>>
  BY DEF Under
<1>2. <<a, b>> \in Seq({a, b, n}) /\ <<n>> \in Seq({a, b, n})
  OBVIOUS
<1>3. m \in Seq({a, b, n}) /\ Len(m) = 3 /\ m[1] = a /\ m[2] = b /\ m[3] = n
  BY <1>1, <1>2
<1> QED
  BY <1>3 DEF Last

LEMMA ReadOnlyIs ==
  ASSUME NEW m, ReadOnly(m)
  PROVE  \/ Len(m) > 1 /\ Last(m) \in Reading
         \/ /\ Len(m) = 2 /\ m[1] = "system"
            /\ m[2] \in {"info", "health", "alerts", "stats", "disks", "logs"}
         \/ /\ Len(m) = 3 /\ m[1] = "system"
            /\ <<m[2], m[3]>> \in {<<"hardware", "summary">>, <<"metrics", "history">>,
                 <<"metrics", "prometheus">>, <<"network", "get">>,
                 <<"firewall", "restrictions">>, <<"logs", "units">>}
         \/ m \in {<<"device", "list">>, <<"auth", "me">>, <<"files", "browse">>,
                   <<"fs", "usage">>, <<"fs", "moving_ctxts">>}
         \/ Len(m) = 2 /\ m[1] = "bcachefs"
         \/ Len(m) = 2 /\ m[1] = "subvolume" /\ m[2] \in {"list_all", "children", "find_by_property"}
<1>1. ASSUME m \in Under(<<"system">>, {"info", "health", "alerts", "stats", "disks", "logs"})
      PROVE  Len(m) = 2 /\ m[1] = "system" /\ m[2] \in {"info", "health", "alerts", "stats", "disks", "logs"}
  BY <1>1, UnderOne
<1>2. ASSUME m \in BcachefsMethods
      PROVE  Len(m) = 2 /\ m[1] = "bcachefs"
  BY <1>2, UnderOne DEF BcachefsMethods
<1>3. ASSUME m \in Under(<<"subvolume">>, {"list_all", "children", "find_by_property"})
      PROVE  Len(m) = 2 /\ m[1] = "subvolume" /\ m[2] \in {"list_all", "children", "find_by_property"}
  BY <1>3, UnderOne
<1> QED
  BY <1>1, <1>2, <1>3 DEF ReadOnly, Reading

(* The methods of filesystems and devices that write.                       *)
LEMMA FsWriters ==
  ASSUME NEW m \in FsMethods \ {<<"fs", "list">>, <<"fs", "get">>, <<"fs", "usage">>,
                                <<"fs", "moving_ctxts">>, <<"fs", "key", "export">>,
                                <<"device", "list">>},
         Last(m) # "status"
  PROVE  ~ReadOnly(m)
<1> DEFINE Fits == m[1] \in {"fs", "device"} /\ Last(m) \notin Reading
<1>1. ASSUME m \in FilesystemMethods PROVE Fits
  <2>1. m \in Under(<<"fs">>, {"list", "get", "create", "destroy", "mount", "unmount",
                               "unlock", "lock"}) => Fits
    BY UnderOne DEF Reading
  <2>2. m \in Under(<<"fs", "tpm">>, {"status", "bind", "unbind"}) => Fits
    BY UnderTwo DEF Reading
  <2>3. m \in Under(<<"fs", "key">>, {"export", "delete"}) => Fits
    BY UnderTwo DEF Reading
  <2> QED
    BY <1>1, <2>1, <2>2, <2>3 DEF FilesystemMethods
<1>2. ASSUME m \in DeviceMethods PROVE Fits
  <2>1. m \in Under(<<"device">>, {"list", "set_type", "wipe"}) => Fits
    BY UnderOne DEF Reading
  <2>2. m \in {<<"fs", "options", "update">>, <<"fs", "device", "evacuate", "cancel">>} => Fits
    BY DEF Last, Reading
  <2>3. m \in Under(<<"fs", "device">>, {"add", "remove", "evacuate", "set_state", "online",
                                         "offline", "set_label"}) => Fits
    BY UnderTwo DEF Reading
  <2> QED
    BY <1>2, <2>1, <2>2, <2>3 DEF DeviceMethods
<1>3. ASSUME m \in BackgroundMethods PROVE Fits
  <2>1. m \in {<<"fs", d, v>> : d \in {"reconcile", "copygc"}, v \in {"status", "enable", "disable"}}
          => Fits
    BY DEF Last, Reading
  <2>2. m \in Under(<<"fs">>, {"usage", "moving_ctxts"}) => Fits
    BY UnderOne DEF Reading
  <2>3. m \in Under(<<"fs", "scrub">>, {"start", "status", "cancel"}) => Fits
    BY UnderTwo DEF Reading
  <2>4. m \in Under(<<"fs", "fsck">>, {"start", "status"}) => Fits
    BY UnderTwo DEF Reading
  <2> QED
    BY <1>3, <2>1, <2>2, <2>3, <2>4 DEF BackgroundMethods
<1>4. Fits
  BY <1>1, <1>2, <1>3 DEF FsMethods
<1> QED
  BY <1>4, ReadOnlyIs

(* A verb that no method is read by, in a domain without queries of other   *)
(* names.                                                                   *)
LEMMA VerbWrites ==
  ASSUME NEW m, Last(m) \notin Reading,
         m[1] \notin {"system", "device", "auth", "files", "fs", "bcachefs", "subvolume"}
  PROVE  ~ReadOnly(m)
BY ReadOnlyIs

LEMMA ShareWriters ==
  ASSUME NEW m \in ShareMethods, Last(m) \notin {"list", "get"}
  PROVE  ~ReadOnly(m)
<1> DEFINE Fits == m[1] = "share" /\ Last(m) # "status"
<1>1. ASSUME m \in FileShareMethods PROVE Fits
  BY <1>1 DEF FileShareMethods, Last
<1>2. ASSUME m \in IscsiMethods PROVE Fits
  BY <1>2, UnderTwo DEF IscsiMethods
<1>3. ASSUME m \in NvmeofMethods PROVE Fits
  BY <1>3, UnderTwo DEF NvmeofMethods
<1>4. Fits
  BY <1>1, <1>2, <1>3 DEF ShareMethods
<1> QED
  BY <1>4, VerbWrites DEF Reading

LEMMA SmbWriters ==
  ASSUME NEW m \in SmbMethods, Last(m) # "list"
  PROVE  ~ReadOnly(m)
<1>1. m \in Under(<<"smb", "user">>, {"list", "create", "delete", "set_password"})
        => m[1] = "smb" /\ Last(m) \notin Reading
  BY UnderTwo DEF Reading
<1>2. m \in Under(<<"smb", "group">>, {"list", "create", "delete", "add_member", "remove_member"})
        => m[1] = "smb" /\ Last(m) \notin Reading
  BY UnderTwo DEF Reading
<1>3. m[1] = "smb" /\ Last(m) \notin Reading
  BY <1>1, <1>2 DEF SmbMethods
<1> QED
  BY <1>3, VerbWrites

LEMMA AdminWriters ==
  ASSUME NEW m, AdminOnly(m)
  PROVE  ~ReadOnly(m)
<1> DEFINE Fits == Last(m) \notin Reading /\ Len(m) > 2 /\ m[1] \in {"system", "notifications", "alert"}
                   /\ <<m[2], m[3]>> \notin {<<"hardware", "summary">>, <<"metrics", "history">>,
                         <<"metrics", "prometheus">>, <<"network", "get">>,
                         <<"firewall", "restrictions">>, <<"logs", "units">>}
<1>1. m \in {<<"system", s, "update">> : s \in {"settings", "tuning"}} => Fits
  BY DEF Last, Reading
<1>2. m \in {<<"system", "nut", "config", "update">>, <<"system", "firewall", "restrict">>,
             <<"notifications", "config", "update">>} => Fits
  BY DEF Last, Reading
<1>3. m \in Under(<<"system", "ssh">>, {"add_key", "remove_key"}) => Fits
  BY UnderTwo DEF Reading
<1>4. m \in Under(<<"alert", "rules">>, {"create", "update", "delete"}) => Fits
  BY UnderTwo DEF Reading
<1>5. Fits
  BY <1>1, <1>2, <1>3, <1>4 DEF AdminOnly
<1> QED
  BY <1>5, ReadOnlyIs

LEMMA OtherWriters ==
  ASSUME NEW m,
         \/ m \in {<<"fs", v>> : v \in {"destroy", "mount", "unmount"}}
         \/ m \in SubvolumeMutations
         \/ m \in Under(<<"snapshot">>, {"create", "delete"})
         \/ m \in Under(<<"snapshot">>, {"clone", "rollback"})
         \/ m \in Under(<<"service", "protocol">>, {"enable", "disable"})
         \/ m \in Under(<<"auth">>, {"create_user", "delete_user", "change_password"})
         \/ m \in Under(<<"auth", "token">>, {"create", "delete"})
         \/ m \in Under(<<"files">>, {"mkdir", "delete", "rename"})
         \/ m = <<"service", "base_names", "update">>
  PROVE  ~ReadOnly(m)
<1>1. m \in {<<"fs", v>> : v \in {"destroy", "mount", "unmount"}} => ~ReadOnly(m)
  BY ReadOnlyIs DEF Last, Reading
<1>2. m \in SubvolumeMutations => ~ReadOnly(m)
  BY UnderOne, ReadOnlyIs DEF SubvolumeMutations, Reading
<1>3. m \in Under(<<"snapshot">>, {"create", "delete"}) => ~ReadOnly(m)
  BY UnderOne, VerbWrites DEF Reading
<1>4. m \in Under(<<"snapshot">>, {"clone", "rollback"}) => ~ReadOnly(m)
  BY UnderOne, VerbWrites DEF Reading
<1>5. m \in Under(<<"service", "protocol">>, {"enable", "disable"}) => ~ReadOnly(m)
  BY UnderTwo, VerbWrites DEF Reading
<1>6. m \in Under(<<"auth">>, {"create_user", "delete_user", "change_password"}) => ~ReadOnly(m)
  BY UnderOne, ReadOnlyIs DEF Reading
<1>7. m \in Under(<<"auth", "token">>, {"create", "delete"}) => ~ReadOnly(m)
  BY UnderTwo, ReadOnlyIs DEF Reading
<1>8. m \in Under(<<"files">>, {"mkdir", "delete", "rename"}) => ~ReadOnly(m)
  BY UnderOne, ReadOnlyIs DEF Reading
<1>9. m = <<"service", "base_names", "update">> => ~ReadOnly(m)
  BY VerbWrites DEF Last, Reading
<1> QED
  BY <1>1, <1>2, <1>3, <1>4, <1>5, <1>6, <1>7, <1>8, <1>9

(* The table of methods: what is read-only by its name writes nothing.      *)
LEMMA ReadersWriteNothing ==
  ASSUME NEW m, ReadOnly(m)
  PROVE  Writes(m) = {}
BY FsWriters, ShareWriters, SmbWriters, AdminWriters, OtherWriters DEF Writes

(* Where the methods of the other routers begin.                            *)
LEMMA FsDomain ==
  ASSUME NEW m \in FsMethods
  PROVE  m[1] \in {"fs", "device"}
<1> DEFINE In == m[1] \in {"fs", "device"}
<1>1. \A S : m \in Under(<<"fs">>, S) \/ m \in Under(<<"device">>, S) => In
  BY UnderOne
<1>2. \A b, S : m \in Under(<<"fs", b>>, S) => In
  BY UnderTwo
<1>3. m \in FilesystemMethods => In
  BY <1>1, <1>2 DEF FilesystemMethods
<1>4. m \in {<<"fs", "options", "update">>, <<"fs", "device", "evacuate", "cancel">>} => In
  OBVIOUS
<1>5. m \in DeviceMethods => In
  BY <1>1, <1>2, <1>4 DEF DeviceMethods
<1>6. m \in {<<"fs", d, v>> : d \in {"reconcile", "copygc"}, v \in {"status", "enable", "disable"}} => In
  OBVIOUS
<1>7. m \in BackgroundMethods => In
  BY <1>1, <1>2, <1>6 DEF BackgroundMethods
<1> QED
  BY <1>3, <1>5, <1>7 DEF FsMethods

LEMMA ShareDomain ==
  ASSUME NEW m \in ShareMethods
  PROVE  m[1] = "share"
<1>1. \A b, S : m \in Under(<<"share", b>>, S) => m[1] = "share"
  BY UnderTwo
<1>2. m \in FileShareMethods => m[1] = "share"
  BY DEF FileShareMethods
<1>3. m \in IscsiMethods \/ m \in NvmeofMethods => m[1] = "share"
  BY <1>1 DEF IscsiMethods, NvmeofMethods
<1> QED
  BY <1>2, <1>3 DEF ShareMethods

(* The end of a session writes no table.                                    *)
LEMMA LogoutWrites ==
  ASSUME NEW m, m = <<"auth", "logout">>
  PROVE  Writes(m) = {}
<1>1. m[1] = "auth" /\ m[2] = "logout" /\ Len(m) = 2
  OBVIOUS
<1>2. m \notin FsMethods /\ m \notin ShareMethods
  BY <1>1, FsDomain, ShareDomain
<1>3. m \notin {<<"fs", v>> : v \in {"destroy", "mount", "unmount"}}
  BY <1>1
<1>4. \A S : /\ m \notin Under(<<"snapshot">>, S) /\ m \notin Under(<<"files">>, S)
             /\ m \notin Under(<<"subvolume">>, S)
  BY <1>1, UnderOne
<1>5. m \notin Under(<<"auth">>, {"create_user", "delete_user", "change_password"})
  BY <1>1, UnderOne
<1>6. \A a, b, S : m \notin Under(<<a, b>>, S)
  BY <1>1, UnderTwo
<1>7. m \notin SubvolumeMutations /\ m \notin SmbMethods
  BY <1>4, <1>6 DEF SubvolumeMutations, SmbMethods
<1>8. ~AdminOnly(m) /\ m # <<"service", "base_names", "update">>
  <2>1. m \notin {<<"system", s, "update">> : s \in {"settings", "tuning"}}
    BY <1>1
  <2>2. m \notin {<<"system", "nut", "config", "update">>, <<"system", "firewall", "restrict">>,
                  <<"notifications", "config", "update">>, <<"service", "base_names", "update">>}
    BY <1>1
  <2> QED
    BY <1>6, <2>1, <2>2 DEF AdminOnly
<1> QED
  BY <1>2, <1>3, <1>4, <1>5, <1>6, <1>7, <1>8 DEF Writes

(* What writes and is open to every session is a change of a password.      *)
LEMMA SelfServiceWrites ==
  ASSUME NEW m, SelfService(m), Writes(m) # {}
  PROVE  m = ChangePassword
<1>1. m \in Under(<<"auth">>, {"logout", "change_password", "me"})
  BY DEF SelfService
<1>2. /\ m = <<"auth", m[2]>> /\ m[1] = "auth" /\ Len(m) = 2 /\ Last(m) = m[2]
      /\ m[2] \in {"logout", "change_password", "me"}
  BY <1>1, UnderOne
<1>3. CASE m[2] = "change_password"
  BY <1>2, <1>3 DEF ChangePassword
<1>4. CASE m[2] = "me"
  <2>1. ReadOnly(m)
    BY <1>2, <1>4 DEF ReadOnly
  <2> QED
    BY <2>1, ReadersWriteNothing
<1>5. CASE m[2] = "logout"
  BY <1>2, <1>5, LogoutWrites
<1> QED
  BY <1>2, <1>3, <1>4, <1>5

(* A handler that the role matrix let through oversteps only where every    *)
(* session is let through and the arm refuses.                              *)
Refrains(h) == h.oversteps => h.self /\ h.refuses

LEMMA ReadersKept ==
  ASSUME NEW p \in Task, NEW s \in Session, NEW k \in Kinds, Verdict(s, k) = "none"
  PROVE  Refrains(Handler(p, s, k))
<1>1. PICK m \in Calls, other \in BOOLEAN : k = Kind(m, other)
  BY DEF Kinds
<1>2. /\ k.denied = {r \in Role : Denied(r, m)} /\ k.refused = {r \in Role : Refuses(r, m, other)}
      /\ k.changes = (Writes(m) # {}) /\ k.self = SelfService(m)
      /\ k.own = (m = ChangePassword /\ ~other)
  BY <1>1 DEF Kind
<1>3. /\ Handler(p, s, k).oversteps = (s.role = "ReadOnly" /\ k.changes /\ ~k.own)
      /\ Handler(p, s, k).self = k.self /\ Handler(p, s, k).refuses = (s.role \in k.refused)
  BY DEF Handler
<1>4. SUFFICES ASSUME s.role = "ReadOnly", k.changes, ~k.own PROVE k.self /\ s.role \in k.refused
  BY <1>3 DEF Refrains
<1>5. s.role \in Role
  BY DEF Session
<1>6. ~ReadOnly(m) /\ Writes(m) # {}
  BY <1>2, <1>4, ReadersWriteNothing
<1>7. s.role \notin k.denied
  BY DEF Verdict
<1>8. SelfService(m)
  BY <1>2, <1>4, <1>5, <1>6, <1>7 DEF Denied
<1>9. m = ChangePassword /\ other
  BY <1>2, <1>4, <1>6, <1>8, SelfServiceWrites
<1>10. Refuses(s.role, m, other)
  BY <1>4, <1>9 DEF Refuses, RefusesAccount
<1> QED
  BY <1>2, <1>5, <1>8, <1>10

NothingOversteps == \A p \in Task : Working(p) => Refrains(run[p])

(* Steps that put no task in a handler.                                     *)
LEMMA OverstepsUntouched ==
  ASSUME NothingOversteps, \A p \in Task : Working(p)' => run'[p] = run[p]
  PROVE  NothingOversteps'
BY DEF NothingOversteps, Working, Refrains

LEMMA OverstepsDispatch ==
  ASSUME GateInv, NothingOversteps, NEW p \in Task, NEW s \in Session, NEW k \in Kinds,
         Dispatch(p, s, k)
  PROVE  NothingOversteps'
<1>1. \A q \in Task : q # p => run'[q] = run[q]
  BY DEF Dispatch, GateInv, Shape
<1>2. run'[p] = IF Verdict(s, k) = "none" THEN Handler(p, s, k) ELSE Idle
  BY DEF Dispatch, GateInv, Shape
<1>3. ASSUME Working(p)' PROVE Refrains(run'[p])
  <2>1. run'[p] # Idle
    BY <1>3 DEF Working, Idle
  <2>2. Verdict(s, k) = "none" /\ run'[p] = Handler(p, s, k)
    BY <1>2, <2>1
  <2> QED
    BY <2>2, ReadersKept
<1> QED
  BY <1>1, <1>3 DEF NothingOversteps, Working, Refrains

LEMMA OverstepsStep == GateInv /\ NothingOversteps /\ [Next]_vars => NothingOversteps'
<1> SUFFICES ASSUME GateInv, NothingOversteps, [Next]_vars PROVE NothingOversteps'
  OBVIOUS
<1>1. CASE \/ UNCHANGED vars \/ Accounts \/ Interval
           \/ \E c \in Conn : \/ Connecting(c) \/ TakeReply(c) \/ Forward(c)
                              \/ TickerFires(c) \/ Pong(c) \/ Close(c)
  <2>1. Accounts => UNCHANGED run
    BY DEF Accounts, SessionEnds, Login, PasswordChanged, AccountRevoked, authRest
  <2>2. \A c \in Conn : Connecting(c) => UNCHANGED run
    BY DEF Connecting, ConnectBare, NoToken, Subscribe, ConnectWithToken, FirstMessage,
       Authenticate
  <2>3. UNCHANGED run
    BY <1>1, <2>1, <2>2 DEF vars, Interval, TakeReply, Forward, TickerFires, Pong, Close
  <2> QED
    BY <2>3, OverstepsUntouched
<1>2. ASSUME NEW p \in Task, Serving(p) PROVE NothingOversteps'
  <2>1. \A q \in Task : Working(q)' => run'[q] = run[q]
    BY <1>2 DEF Serving, Work, Announce, Working, Idle, GateInv, Shape
  <2> QED
    BY <2>1, OverstepsUntouched
<1>3. ASSUME NEW c \in Conn, NEW k \in Kinds, Request(c, k) PROVE NothingOversteps'
  <2>1. c \in Task /\ session'[c] \in Session
    BY <1>3, RefreshedType DEF Request, GateInv, Authenticated, Served, Shape, TypeOK, Task
  <2> QED
    BY <1>3, <2>1, OverstepsDispatch DEF Request
<1>4. ASSUME NEW r \in Rest, NEW wrote \in SUBSET Table, HangUp(r, wrote) PROVE NothingOversteps'
  <2>1. \A q \in Task : Working(q)' => run'[q] = run[q]
    BY <1>4 DEF HangUp, Working, Idle, GateInv, Shape
  <2> QED
    BY <2>1, OverstepsUntouched
<1>5. ASSUME NEW r \in Rest, NEW t \in Token, NEW k \in Kinds, RestCall(r, t, k)
      PROVE  NothingOversteps'
  <2>1. r \in Task /\ held[t] \in Session
    BY <1>5, ValidHeld DEF RestCall, GateInv, Task
  <2> QED
    BY <1>5, <2>1, OverstepsDispatch DEF RestCall
<1> QED
  BY <1>1, <1>2, <1>3, <1>4, <1>5 DEF Next

(* A read-only session changes nothing but its own password                 *)
(* (ReadersChangeNothing), through any method of any router: what the role  *)
(* matrix lets it call by name, the handlers behind those names only read,  *)
(* but for the change of a password, whose arm refuses the other accounts'. *)
THEOREM ReadersOnlyRead == Spec => []ReadersChangeNothing
<1>1. Init => NothingOversteps
  BY DEF Init, NothingOversteps, Working, Idle
<1>2. NothingOversteps => ReadersChangeNothing
  BY DEF NothingOversteps, Refrains, ReadersChangeNothing
<1> QED
  BY <1>1, <1>2, OverstepsStep, GateAlways, PTL DEF Spec

-----------------------------------------------------------------------------
(* On top of that invariant: what a connection tells its client, and when   *)
(* it gives its client up.                                                  *)
Receiving == {"open", "rpc"}

-----------------------------------------------------------------------------
(* A client without a receiver shows nothing, and nothing it does not show  *)
(* is stale.                                                                *)
ShownByReceivers == \A c \in Conn : phase[c] \notin Receiving => shown[c] = {}
StaleShown == \A c \in Conn : stale[c] \subseteq shown[c]
Accounted == \A c \in Conn : stale[c] \subseteq Coming(c) \cup lost[c]

NewsInv == ShownByReceivers /\ StaleShown /\ Accounted

LEMMA InitNews == Init => NewsInv
BY DEF Init, NewsInv, ShownByReceivers, StaleShown, Accounted

(* Steps that neither change what clients know nor end a handler.           *)
LEMMA NewsUntouched ==
  ASSUME NewsInv, UNCHANGED viewVars,
         \A c \in Conn : phase'[c] \notin Receiving => phase[c] \notin Receiving,
         \A p \in Task : Done(p) => run'[p] = run[p]
  PROVE  NewsInv'
<1>1. ShownByReceivers' /\ StaleShown'
  BY DEF NewsInv, ShownByReceivers, StaleShown, viewVars
<1>2. \A c \in Conn : Coming(c) \subseteq Coming(c)'
  BY DEF Coming, Done, viewVars
<1>3. Accounted'
  BY <1>2 DEF NewsInv, Accounted, viewVars
<1> QED
  BY <1>1, <1>3 DEF NewsInv

(* An event is only ever lost by overrun.                                   *)
LEMMA PostedKeeps ==
  ASSUME Shape, NEW c \in Conn, NEW e \in EventName
  PROVE  /\ \A i \in DOMAIN backlog[c] :
              \/ \E j \in DOMAIN Posted(c, e) : Posted(c, e)[j] = backlog[c][i]
              \/ backlog[c][i] \in Overrun(c, e)
         /\ c \in Receivers /\ e # "none" => \E j \in DOMAIN Posted(c, e) : Posted(c, e)[j] = e
<1>1. backlog[c] \in Seq(EventName) /\ Len(backlog[c]) <= Cap /\ Cap \in Nat \ {0}
  BY ConnectionAssumption DEF Shape, TypeOK
<1>2. CASE c \notin Receivers \/ e = "none"
  BY <1>1, <1>2 DEF Posted
<1>3. CASE c \in Receivers /\ e # "none" /\ Len(backlog[c]) < Cap
  <2>1. Posted(c, e) = Append(backlog[c], e)
    BY <1>3 DEF Posted
  <2>2. \A i \in DOMAIN backlog[c] :
          i \in DOMAIN Posted(c, e) /\ Posted(c, e)[i] = backlog[c][i]
    BY <1>1, <2>1
  <2>3. Len(backlog[c]) + 1 \in DOMAIN Posted(c, e) /\ Posted(c, e)[Len(backlog[c]) + 1] = e
    BY <1>1, <2>1
  <2> QED
    BY <2>2, <2>3
<1>4. CASE c \in Receivers /\ e # "none" /\ ~(Len(backlog[c]) < Cap)
  <2>1. Posted(c, e) = Append(Tail(backlog[c]), e) /\ Len(backlog[c]) = Cap
    BY <1>1, <1>4 DEF Posted
  <2>2. /\ Tail(backlog[c]) \in Seq(EventName) /\ Len(Tail(backlog[c])) = Cap - 1
        /\ \A i \in 1 .. Cap - 1 : Tail(backlog[c])[i] = backlog[c][i + 1]
    BY <1>1, <2>1
  <2>3. Overrun(c, e) = {backlog[c][1]}
    BY <1>1, <1>4, <2>1 DEF Overrun
  <2>4. ASSUME NEW i \in DOMAIN backlog[c], i # 1
        PROVE  i - 1 \in DOMAIN Posted(c, e) /\ Posted(c, e)[i - 1] = backlog[c][i]
    <3>1. i - 1 \in 1 .. Cap - 1
      BY <1>1, <2>1, <2>4
    <3>2. i - 1 \in DOMAIN Posted(c, e) /\ Posted(c, e)[i - 1] = Tail(backlog[c])[i - 1]
      BY <1>1, <2>1, <2>2, <3>1
    <3>3. Tail(backlog[c])[i - 1] = backlog[c][i]
      BY <1>1, <2>2, <3>1
    <3> QED
      BY <3>2, <3>3
  <2>5. Cap \in DOMAIN Posted(c, e) /\ Posted(c, e)[Cap] = e
    BY <1>1, <2>1, <2>2
  <2> QED
    BY <2>3, <2>4, <2>5
<1> QED
  BY <1>2, <1>3, <1>4

(* A handler ends: what it wrote is announced soon or lost to those who     *)
(* show it, and what it lists is fresh.                                     *)
LEMMA NewsWork ==
  ASSUME GateInv, NewsInv, NEW p \in Task, NEW ok \in BOOLEAN, NEW wrote \in SUBSET Table,
         Work(p, ok, wrote)
  PROVE  NewsInv'
<1> DEFINE seen(c) == IF c = p /\ ok THEN run[p].lists ELSE {}
           announced == IF ok THEN {run[p].event} ELSE {}
<1>1. /\ shown' = [c \in Conn |-> shown[c] \cup seen(c)]
      /\ stale' = [c \in Conn |-> (stale[c] \cup (wrote \cap shown[c])) \ seen(c)]
      /\ told' = [c \in Conn |-> told[c] \ seen(c)]
      /\ lost' = [c \in Conn |-> (lost[c] \cup ((wrote \ announced) \cap shown[c])) \ seen(c)]
      /\ UNCHANGED <<phase, backlog>>
  BY DEF Work
<1>2. run' = [run EXCEPT ![p] = [stage |-> "done", event |-> IF ok THEN run[p].event ELSE "none"]]
  BY DEF Work
<1>3. Done(p)' /\ \A x \in announced : x = run'[p].event
  BY <1>2 DEF Done, GateInv, Shape
<1>4. \A q \in Task : Done(q) => Done(q)' /\ run'[q] = run[q]
  BY <1>2 DEF Work, Working, Done, GateInv, Shape
<1>5. \A c \in Conn : Coming(c) \ seen(c) \subseteq Coming(c)' /\ announced \subseteq Coming(c)'
  BY <1>1, <1>3, <1>4 DEF Coming
<1>6. \A c \in Conn : phase[c] \notin Receiving => c # p
  BY DEF GateInv, HandlersInCalls, Work, Working, Idle, Receiving
<1> HIDE DEF seen, announced
<1>7. \A c \in Conn : c # p => seen(c) = {}
  BY DEF seen
<1>8. ShownByReceivers'
  BY <1>1, <1>6, <1>7 DEF NewsInv, ShownByReceivers
<1>9. StaleShown'
  BY <1>1 DEF NewsInv, StaleShown
<1>10. Accounted'
  BY <1>1, <1>5 DEF NewsInv, Accounted
<1> QED
  BY <1>8, <1>9, <1>10 DEF NewsInv

(* The event of a success reaches every receiver or pushes out one that is  *)
(* accounted for.                                                           *)
LEMMA NewsAnnounce ==
  ASSUME GateInv, NewsInv, NEW p \in Task, Announce(p)
  PROVE  NewsInv'
<1> DEFINE e == run[p].event
<1>1. e \in EventName
  BY DEF Announce, GateInv, Shape, Done, Idle, WorkingHandler, DoneHandler
<1>2. /\ backlog' = [c \in Conn |-> Posted(c, e)]
      /\ lost' = [c \in Conn |-> lost[c] \cup (Overrun(c, e) \cap shown[c])]
      /\ UNCHANGED <<shown, stale, told>>
  BY DEF Announce
<1>3. \A q \in Task : Done(q) /\ q # p => Done(q)' /\ run'[q] = run[q]
  BY DEF Announce, Done, GateInv, Shape
<1>4. \A c \in Conn : phase'[c] \in Receiving <=> phase[c] \in Receiving
  BY DEF Announce, Receiving
<1>5. ShownByReceivers' /\ StaleShown'
  BY <1>2, <1>4 DEF NewsInv, ShownByReceivers, StaleShown
<1>6. ASSUME NEW c \in Conn, NEW x \in stale[c] PROVE x \in Coming(c)' \cup lost'[c]
  <2>1. x \in shown[c] /\ c \in Receivers
    BY DEF NewsInv, StaleShown, ShownByReceivers, Receivers, Subscribed, Receiving
  <2>2. x \in Table /\ x # "none"
    BY <2>1, ConnectionAssumption DEF GateInv, Shape, TypeOK
  <2>3. CASE x \in lost[c] \/ x \in told[c]
    BY <1>2, <2>3 DEF Coming
  <2>4. CASE x = e
    BY <1>1, <1>2, <2>1, <2>2, <2>4, PostedKeeps DEF Coming, GateInv
  <2>5. CASE \E i \in DOMAIN backlog[c] : x = backlog[c][i]
    BY <1>1, <1>2, <2>1, <2>5, PostedKeeps DEF Coming, GateInv
  <2>6. CASE \E q \in Task : Done(q) /\ q # p /\ x = run[q].event
    BY <1>3, <2>6 DEF Coming
  <2> QED
    BY <2>3, <2>4, <2>5, <2>6 DEF NewsInv, Accounted, Coming
<1>7. Accounted'
  BY <1>2, <1>6 DEF Accounted
<1> QED
  BY <1>5, <1>7 DEF NewsInv

LEMMA NewsHangUp ==
  ASSUME GateInv, NewsInv, NEW r \in Rest, NEW wrote \in SUBSET Table, HangUp(r, wrote)
  PROVE  NewsInv'
<1>1. \A q \in Task : Done(q) => Done(q)' /\ run'[q] = run[q]
  BY DEF HangUp, Working, Done, GateInv, Shape
<1>2. \A c \in Conn : Coming(c) \subseteq Coming(c)'
  BY <1>1 DEF HangUp, Coming
<1> QED
  BY <1>2 DEF HangUp, NewsInv, ShownByReceivers, StaleShown, Accounted

(* A forwarded event is delivered.                                          *)
LEMMA NewsForward ==
  ASSUME GateInv, NewsInv, NEW c \in Conn, Forward(c)
  PROVE  NewsInv'
<1>1. backlog[c] \in Seq(EventName) /\ backlog[c] # <<>>
  BY DEF Forward, GateInv, Shape
<1>2. \A i \in DOMAIN backlog[c] :
        backlog[c][i] = Head(backlog[c])
        \/ \E j \in DOMAIN Tail(backlog[c]) : Tail(backlog[c])[j] = backlog[c][i]
  <2> SUFFICES ASSUME NEW i \in DOMAIN backlog[c], i # 1
               PROVE  i - 1 \in DOMAIN Tail(backlog[c]) /\ Tail(backlog[c])[i - 1] = backlog[c][i]
    BY <1>1
  <2> QED
    BY <1>1
<1>3. /\ backlog'[c] = Tail(backlog[c])
      /\ told'[c] = told[c] \cup ({Head(backlog[c])} \cap Table)
      /\ \A d \in Conn : d # c => backlog'[d] = backlog[d] /\ told'[d] = told[d]
      /\ UNCHANGED <<phase, run, shown, stale, lost>>
  BY DEF Forward, GateInv, Shape, TypeOK
<1>4. \A d \in Conn : Coming(d) \cap Table \subseteq Coming(d)'
  <2>1. ASSUME NEW d \in Conn, d # c PROVE Coming(d)' = Coming(d)
    BY <1>3, <2>1 DEF Coming, Done
  <2>2. ASSUME NEW x \in Coming(c) \cap Table PROVE x \in Coming(c)'
    <3>1. CASE x \in told[c] \/ \E p \in Task : Done(p) /\ x = run[p].event
      BY <1>3, <3>1 DEF Coming, Done
    <3>2. CASE \E i \in DOMAIN backlog[c] : x = backlog[c][i]
      <4>1. x = Head(backlog[c]) \/ \E j \in DOMAIN Tail(backlog[c]) : Tail(backlog[c])[j] = x
        BY <1>2, <3>2
      <4>2. x \in told'[c] \/ \E j \in DOMAIN backlog'[c] : backlog'[c][j] = x
        BY <1>3, <2>2, <4>1
      <4> QED
        BY <4>2 DEF Coming
    <3> QED
      BY <2>2, <3>1, <3>2 DEF Coming
  <2> QED
    BY <2>1, <2>2
<1>5. \A d \in Conn : stale[d] \subseteq Table
  BY DEF GateInv, Shape, TypeOK
<1>6. Accounted'
  BY <1>3, <1>4, <1>5 DEF NewsInv, Accounted
<1> QED
  BY <1>3, <1>6 DEF NewsInv, ShownByReceivers, StaleShown

(* What a client knew goes with its connection.                             *)
LEMMA NewsLeave ==
  ASSUME GateInv, NewsInv, NEW c \in Conn, NEW how \in {"closed", "dropped"}, Leave(c, how),
         UNCHANGED run
  PROVE  NewsInv'
<1>1. /\ shown'[c] = {} /\ stale'[c] = {}
      /\ \A d \in Conn : d # c =>
           /\ phase'[d] = phase[d] /\ backlog'[d] = backlog[d] /\ told'[d] = told[d]
           /\ shown'[d] = shown[d] /\ stale'[d] = stale[d] /\ lost'[d] = lost[d]
  BY DEF Leave, GateInv, Shape, TypeOK
<1>2. \A d \in Conn : d # c => Coming(d)' = Coming(d)
  BY <1>1 DEF Coming, Done
<1> QED
  BY <1>1, <1>2 DEF NewsInv, ShownByReceivers, StaleShown, Accounted

LEMMA NewsStep == GateInv /\ NewsInv /\ [Next]_vars => NewsInv'
<1> SUFFICES ASSUME GateInv, NewsInv, [Next]_vars PROVE NewsInv'
  OBVIOUS
<1>1. CASE UNCHANGED vars \/ Accounts \/ Interval \/ \E c \in Conn : TakeReply(c) \/ Pong(c)
  <2>1. UNCHANGED <<phase, run, viewVars>>
    BY <1>1 DEF vars, authRest, Accounts, SessionEnds, Login, PasswordChanged, AccountRevoked,
       Interval, TakeReply, Pong
  <2> QED
    BY <2>1, NewsUntouched DEF Done
<1>2. ASSUME NEW p \in Task, Serving(p) PROVE NewsInv'
  BY <1>2, NewsWork, NewsAnnounce DEF Serving
<1>3. ASSUME NEW c \in Conn, Connecting(c) PROVE NewsInv'
  <2>1. UNCHANGED <<run, viewVars>> /\ phase[c] \in {"none", "auth", "subscribing"}
    BY <1>3 DEF Connecting, ConnectBare, NoToken, Subscribe, ConnectWithToken, FirstMessage,
       Authenticate
  <2>2. \A d \in Conn : d # c => phase'[d] = phase[d]
    BY <1>3 DEF Connecting, ConnectBare, NoToken, Subscribe, ConnectWithToken, FirstMessage,
       Authenticate, GateInv, Shape, TypeOK
  <2> QED
    BY <2>1, <2>2, NewsUntouched DEF Done, Receiving
<1>4. ASSUME NEW c \in Conn, NEW k \in Kinds, Request(c, k) PROVE NewsInv'
  <2>1. UNCHANGED viewVars /\ run[c] = Idle
    BY <1>4 DEF Request, Dispatch
  <2>2. \A p \in Task : Done(p) => run'[p] = run[p]
    BY <1>4, <2>1 DEF Request, Dispatch, Done, Idle, GateInv, Shape
  <2>3. \A d \in Conn : phase'[d] \notin Receiving => phase[d] \notin Receiving
    BY <1>4 DEF Request, Receiving, GateInv, Shape, TypeOK
  <2> QED
    BY <2>1, <2>2, <2>3, NewsUntouched
<1>5. ASSUME NEW r \in Rest, NEW t \in Token, NEW k \in Kinds, RestCall(r, t, k) PROVE NewsInv'
  <2>1. UNCHANGED <<phase, viewVars>> /\ run[r] = Idle
    BY <1>5 DEF RestCall, Dispatch
  <2>2. \A p \in Task : Done(p) => run'[p] = run[p]
    BY <1>5, <2>1 DEF RestCall, Dispatch, Done, Idle, GateInv, Shape
  <2> QED
    BY <2>1, <2>2, NewsUntouched
<1>6. ASSUME NEW r \in Rest, NEW wrote \in SUBSET Table, HangUp(r, wrote) PROVE NewsInv'
  BY <1>6, NewsHangUp
<1>7. ASSUME NEW c \in Conn, TickerFires(c) PROVE NewsInv'
  <2>1. CASE TooOld(c)
    BY <1>7, <2>1, NewsLeave DEF TickerFires
  <2>2. CASE ~TooOld(c)
    BY <1>7, <2>2, NewsUntouched DEF TickerFires, Done
  <2> QED
    BY <2>1, <2>2
<1>8. ASSUME NEW c \in Conn, Close(c) PROVE NewsInv'
  BY <1>8, NewsLeave DEF Close
<1> QED
  BY <1>1, <1>2, <1>3, <1>4, <1>5, <1>6, <1>7, <1>8, NewsForward DEF Next

(* No change of a table is silent (NoSilentChange): every client that shows *)
(* the table is told, will be, or lost the event in one of the known ways.  *)
THEOREM NothingSilent == Spec => []NoSilentChange
<1>1. NewsInv => NoSilentChange
  BY DEF NewsInv, Accounted, NoSilentChange, Subscribed
<1> QED
  BY <1>1, InitNews, NewsStep, GateAlways, PTL DEF Spec

-----------------------------------------------------------------------------
(* Whoever has been silent for an interval has a tick waiting or a ping     *)
(* unanswered, and whoever is over the limit has an excuse to be dropped.   *)
Unheard ==
  \A c \in Conn : phase[c] \in Receiving /\ age[c] >= 1 => due[c] \/ pinged[c]
Excused ==
  \A c \in Conn : phase[c] \in Receiving /\ age[c] > IdleLimit => excuse[c]
Young == \A c \in Conn : phase[c] \notin Receiving => age[c] = 0

IdleInv == Unheard /\ Excused /\ Young /\ AnsweringClientsKept

LEMMA InitIdle == Init => IdleInv
BY ConnectionAssumption DEF Init, IdleInv, Unheard, Excused, Young, AnsweringClientsKept, Receiving

(* Steps that move connections between open and in a call only.             *)
LEMMA IdleUntouched ==
  ASSUME IdleInv, UNCHANGED timeVars,
         \A c \in Conn : phase'[c] \in Receiving <=> phase[c] \in Receiving,
         \A c \in Conn : phase'[c] = "dropped" => phase[c] = "dropped"
  PROVE  IdleInv'
BY DEF IdleInv, Unheard, Excused, Young, AnsweringClientsKept, timeVars

LEMMA IdleInterval ==
  ASSUME GateInv, IdleInv, Interval
  PROVE  IdleInv'
<1>1. IdleLimit \in Nat \ {0} /\ \A c \in Conn : age[c] \in 0 .. IdleLimit + 1
  BY ConnectionAssumption DEF GateInv, Shape, TypeOK
<1>2. /\ UNCHANGED <<phase, pinged>>
      /\ \A c \in Conn : /\ phase[c] = "open" => ~due[c]
                         /\ due'[c] = (phase[c] \in Receiving)
                         /\ excuse[c] => excuse'[c]
                         /\ phase[c] = "open" /\ pinged[c] => excuse'[c]
                         /\ phase[c] = "rpc" /\ age[c] >= IdleLimit => excuse'[c]
  BY DEF Interval, Subscribed, Receiving
<1>3. \A c \in Conn : IF phase[c] \in Receiving /\ age[c] <= IdleLimit
                      THEN age'[c] = age[c] + 1 ELSE age'[c] = age[c]
  BY DEF Interval, Subscribed, Receiving
<1>4. Unheard' /\ Young'
  BY <1>2, <1>3 DEF IdleInv, Unheard, Young
<1>5. ASSUME NEW c \in Conn, phase[c] \in Receiving, age'[c] > IdleLimit PROVE excuse'[c]
  <2>1. CASE age[c] > IdleLimit
    BY <1>2, <1>5, <2>1 DEF IdleInv, Excused
  <2>2. CASE age[c] <= IdleLimit
    <3>1. age[c] >= IdleLimit /\ age[c] >= 1
      BY <1>1, <1>3, <1>5, <2>2
    <3>2. phase[c] = "open" => pinged[c]
      BY <1>2, <1>5, <3>1 DEF IdleInv, Unheard
    <3> QED
      BY <1>2, <1>5, <3>1, <3>2 DEF Receiving
  <2> QED
    BY <1>1, <2>1, <2>2
<1>6. Excused'
  BY <1>2, <1>5 DEF Excused
<1>7. AnsweringClientsKept'
  BY <1>2 DEF IdleInv, AnsweringClientsKept
<1> QED
  BY <1>4, <1>6, <1>7 DEF IdleInv

LEMMA IdleTicker ==
  ASSUME GateInv, IdleInv, NEW c \in Conn, TickerFires(c)
  PROVE  IdleInv'
<1>1. phase[c] = "open" /\ UNCHANGED excuse /\ \A d \in Conn : d # c => due'[d] = due[d]
  BY DEF TickerFires, GateInv, Shape, TypeOK
<1>2. CASE TooOld(c)
  <2>1. /\ phase'[c] = "dropped" /\ age'[c] = 0 /\ excuse[c]
        /\ UNCHANGED pinged
        /\ \A d \in Conn : d # c => phase'[d] = phase[d] /\ age'[d] = age[d]
    BY <1>1, <1>2 DEF TickerFires, TooOld, Leave, IdleInv, Excused, Receiving, GateInv, Shape, TypeOK
  <2> QED
    BY <1>1, <2>1 DEF IdleInv, Unheard, Excused, Young, AnsweringClientsKept, Receiving
<1>3. CASE ~TooOld(c)
  <2>1. /\ pinged'[c] /\ UNCHANGED <<phase, age>>
        /\ \A d \in Conn : d # c => pinged'[d] = pinged[d]
    BY <1>3 DEF TickerFires, GateInv, Shape, TypeOK
  <2> QED
    BY <1>1, <2>1 DEF IdleInv, Unheard, Excused, Young, AnsweringClientsKept
<1> QED
  BY <1>2, <1>3

(* A message or a pong makes the connection young again.                    *)
LEMMA IdleHeard ==
  ASSUME GateInv, IdleInv, NEW c \in Conn,
         Pong(c) \/ Close(c) \/ \E k \in Kinds : Request(c, k)
  PROVE  IdleInv'
<1>1. /\ phase[c] = "open" /\ age'[c] = 0 /\ UNCHANGED <<due, excuse>>
      /\ phase'[c] # "dropped"
      /\ \A d \in Conn : d # c => /\ phase'[d] = phase[d] /\ age'[d] = age[d]
                                  /\ pinged'[d] = pinged[d]
  BY DEF Pong, Close, Leave, Request, GateInv, Shape, TypeOK
<1>2. phase'[c] = phase[c] \/ phase'[c] = "rpc" \/ phase'[c] = "closed"
  BY <1>1 DEF Pong, Close, Leave, Request, GateInv, Shape, TypeOK
<1> QED
  BY <1>1, <1>2, ConnectionAssumption
     DEF IdleInv, Unheard, Excused, Young, AnsweringClientsKept, Receiving

LEMMA IdleStep == GateInv /\ IdleInv /\ [Next]_vars => IdleInv'
<1> SUFFICES ASSUME GateInv, IdleInv, [Next]_vars PROVE IdleInv'
  OBVIOUS
<1>1. CASE \/ UNCHANGED vars \/ Accounts
           \/ \E c \in Conn : TakeReply(c) \/ Forward(c)
           \/ \E r \in Rest : \/ \E wrote \in SUBSET Table : HangUp(r, wrote)
                              \/ \E t \in Token, k \in Kinds : RestCall(r, t, k)
  <2>1. UNCHANGED <<phase, timeVars>>
    BY <1>1 DEF vars, authRest, Accounts, SessionEnds, Login, PasswordChanged, AccountRevoked,
       TakeReply, Forward, HangUp, RestCall
  <2> QED
    BY <2>1, IdleUntouched
<1>2. ASSUME NEW p \in Task, Serving(p) PROVE IdleInv'
  <2>1. UNCHANGED timeVars
    BY <1>2 DEF Serving, Work, Announce
  <2>2. \A c \in Conn : phase'[c] = phase[c] \/ (phase[c] = "rpc" /\ phase'[c] = "open")
    BY <1>2 DEF Serving, Work, Announce
  <2> QED
    BY <2>1, <2>2, IdleUntouched DEF Receiving
<1>3. ASSUME NEW c \in Conn, Connecting(c) PROVE IdleInv'
  <2>1. UNCHANGED timeVars /\ phase[c] \in {"none", "auth", "subscribing"}
    BY <1>3 DEF Connecting, ConnectBare, NoToken, Subscribe, ConnectWithToken, FirstMessage,
       Authenticate
  <2>2. phase'[c] # "dropped" /\ \A d \in Conn : d # c => phase'[d] = phase[d]
    BY <1>3 DEF Connecting, ConnectBare, NoToken, Subscribe, ConnectWithToken, FirstMessage,
       Authenticate, GateInv, Shape, TypeOK
  <2> QED
    BY <2>1, <2>2, ConnectionAssumption
       DEF IdleInv, Unheard, Excused, Young, AnsweringClientsKept, Receiving, timeVars
<1> QED
  BY <1>1, <1>2, <1>3, IdleInterval, IdleTicker, IdleHeard DEF Next

(* Only a client that left a ping unanswered for an interval, or whose      *)
(* request outlasted the limit, is dropped (AnsweringClientsKept).          *)
THEOREM AnsweringKept == Spec => []AnsweringClientsKept
<1>1. IdleInv => AnsweringClientsKept
  BY DEF IdleInv
<1> QED
  BY <1>1, InitIdle, IdleStep, GateAlways, PTL DEF Spec

-----------------------------------------------------------------------------
(* A connection over the limit has a tick to handle: it got that old while  *)
(* the ticker fired.                                                        *)
OldDue == \A c \in Conn : phase[c] \in Receiving /\ TooOld(c) => due[c]

(* A connection that was served keeps its age and its tick, was heard, or   *)
(* has left; one that was not is young.                                     *)
LEMMA OldDueKept ==
  ASSUME OldDue,
         \A c \in Conn : phase'[c] \in Receiving =>
           age'[c] = 0 \/ (phase[c] \in Receiving /\ age'[c] = age[c] /\ due'[c] = due[c])
  PROVE  OldDue'
BY ConnectionAssumption DEF OldDue, TooOld

LEMMA OldDueTimers ==
  ASSUME GateInv, OldDue, NEW c \in Conn, TickerFires(c) \/ Close(c)
  PROVE  OldDue'
<1>1. \A d \in Conn : d # c => phase'[d] = phase[d] /\ age'[d] = age[d] /\ due'[d] = due[d]
  BY DEF TickerFires, Close, Leave, GateInv, Shape, TypeOK
<1>2. CASE phase'[c] \notin Receiving
  BY <1>1, <1>2 DEF OldDue, TooOld
<1>3. CASE TickerFires(c) /\ ~TooOld(c)
  <2>1. UNCHANGED <<phase, age>>
    BY <1>3 DEF TickerFires
  <2> QED
    BY <1>1, <1>3, <2>1 DEF OldDue, TooOld
<1>4. CASE Close(c) \/ (TickerFires(c) /\ TooOld(c))
  <2>1. phase'[c] \in {"closed", "dropped"}
    BY <1>4 DEF TickerFires, Close, Leave, GateInv, Shape, TypeOK
  <2> QED
    BY <1>2, <2>1 DEF Receiving
<1> QED
  BY <1>3, <1>4

LEMMA OldDueStep ==
  ASSUME GateInv, IdleInv, OldDue, [Next]_vars
  PROVE  OldDue'
<1>1. CASE Interval
  BY <1>1 DEF Interval, Subscribed, OldDue, Receiving
<1>2. CASE \/ UNCHANGED vars \/ Accounts
           \/ \E c \in Conn : TakeReply(c) \/ Forward(c)
           \/ \E r \in Rest : \/ \E wrote \in SUBSET Table : HangUp(r, wrote)
                              \/ \E t \in Token, k \in Kinds : RestCall(r, t, k)
  <2>1. UNCHANGED <<phase, age, due>>
    BY <1>2 DEF vars, timeVars, authRest, Accounts, SessionEnds, Login, PasswordChanged,
       AccountRevoked, TakeReply, Forward, HangUp, RestCall
  <2> QED
    BY <2>1, OldDueKept
<1>3. ASSUME NEW p \in Task, Serving(p) PROVE OldDue'
  <2>1. UNCHANGED <<age, due>>
    BY <1>3 DEF Serving, Work, Announce, timeVars
  <2>2. \A c \in Conn : phase'[c] = phase[c] \/ (phase[c] = "rpc" /\ phase'[c] = "open")
    BY <1>3 DEF Serving, Work, Announce
  <2> QED
    BY <2>1, <2>2, OldDueKept DEF Receiving
<1>4. ASSUME NEW c \in Conn, Connecting(c) PROVE OldDue'
  <2>1. UNCHANGED <<age, due>> /\ age[c] = 0
    BY <1>4 DEF Connecting, ConnectBare, NoToken, Subscribe, ConnectWithToken, FirstMessage,
       Authenticate, timeVars, IdleInv, Young, Receiving
  <2>2. \A d \in Conn : d # c => phase'[d] = phase[d]
    BY <1>4 DEF Connecting, ConnectBare, NoToken, Subscribe, ConnectWithToken, FirstMessage,
       Authenticate, GateInv, Shape, TypeOK
  <2> QED
    BY <2>1, <2>2, OldDueKept
<1>5. ASSUME NEW c \in Conn, Pong(c) \/ \E k \in Kinds : Request(c, k) PROVE OldDue'
  <2>1. /\ age'[c] = 0 /\ UNCHANGED due
        /\ \A d \in Conn : d # c => phase'[d] = phase[d] /\ age'[d] = age[d]
    BY <1>5 DEF Pong, Request, GateInv, Shape, TypeOK
  <2> QED
    BY <2>1, OldDueKept
<1> QED
  BY <1>1, <1>2, <1>3, <1>4, <1>5, OldDueTimers DEF Next

LEMMA OldDueAlways == Spec => [](GateInv /\ IdleInv /\ OldDue)
<1>1. Init => OldDue
  BY DEF Init, OldDue, Receiving
<1>2. GateInv /\ IdleInv /\ OldDue /\ [Next]_vars => OldDue'
  BY OldDueStep
<1> QED
  BY <1>1, <1>2, InitIdle, IdleStep, GateAlways, PTL DEF Spec

(* An open connection that has been silent for too long is heard again or   *)
(* dropped before another interval passes: time does not pass over it, and  *)
(* no other step, a login, a forwarded event, a handler of another task,    *)
(* takes its waiting tick away (handle_socket, IDLE_TIMEOUT).               *)
OldConnectionsGo ==
  [][\A c \in Conn : phase[c] = "open" /\ TooOld(c) =>
       /\ ~Interval
       /\ \/ phase'[c] = "dropped" \/ age'[c] = 0
          \/ phase'[c] = "open" /\ age'[c] = age[c] /\ due'[c]]_vars

LEMMA OldGoes ==
  ASSUME GateInv, OldDue, Next, NEW c \in Conn, phase[c] = "open", TooOld(c)
  PROVE  /\ ~Interval
         /\ \/ phase'[c] = "dropped" \/ age'[c] = 0
            \/ phase'[c] = "open" /\ age'[c] = age[c] /\ due'[c]
<1>1. due[c] /\ run[c] = Idle
  BY DEF OldDue, Receiving, GateInv, HandlersInCalls
<1>2. ~Interval
  BY <1>1 DEF Interval
<1>3. CASE \/ Accounts
           \/ \E d \in Conn : TakeReply(d) \/ Forward(d)
           \/ \E r \in Rest : \/ \E wrote \in SUBSET Table : HangUp(r, wrote)
                              \/ \E t \in Token, k \in Kinds : RestCall(r, t, k)
  <2>1. UNCHANGED <<phase, age, due>>
    BY <1>3 DEF timeVars, authRest, Accounts, SessionEnds, Login, PasswordChanged,
       AccountRevoked, TakeReply, Forward, HangUp, RestCall
  <2> QED
    BY <1>1, <1>2, <2>1
<1>4. ASSUME NEW p \in Task, Serving(p) PROVE UNCHANGED <<age, due>> /\ phase'[c] = phase[c]
  BY <1>4 DEF Serving, Work, Announce, timeVars
<1>5. ASSUME NEW d \in Conn, Connecting(d)
      PROVE  UNCHANGED <<age, due>> /\ phase'[c] = phase[c]
  BY <1>5 DEF Connecting, ConnectBare, NoToken, Subscribe, ConnectWithToken, FirstMessage,
     Authenticate, timeVars, GateInv, Shape, TypeOK
<1>6. ASSUME NEW d \in Conn, d # c,
             Pong(d) \/ Close(d) \/ TickerFires(d) \/ \E k \in Kinds : Request(d, k)
      PROVE  age'[c] = age[c] /\ due'[c] = due[c] /\ phase'[c] = phase[c]
  BY <1>6 DEF Pong, Close, TickerFires, Leave, Request, GateInv, Shape, TypeOK
<1>7. ASSUME Pong(c) \/ Close(c) \/ TickerFires(c) \/ \E k \in Kinds : Request(c, k)
      PROVE  age'[c] = 0
  BY <1>7 DEF Pong, Close, TickerFires, Leave, Request, GateInv, Shape, TypeOK
<1> QED
  BY <1>1, <1>2, <1>3, <1>4, <1>5, <1>6, <1>7 DEF Next

THEOREM SilentConnectionsGo == Spec => OldConnectionsGo
<1> DEFINE A == \A c \in Conn : phase[c] = "open" /\ TooOld(c) =>
                  /\ ~Interval
                  /\ \/ phase'[c] = "dropped" \/ age'[c] = 0
                     \/ phase'[c] = "open" /\ age'[c] = age[c] /\ due'[c]
<1>1. GateInv /\ OldDue /\ [Next]_vars => [A]_vars
  BY OldGoes
<1> HIDE DEF A
<1>2. Spec => [][A]_vars
  BY <1>1, OldDueAlways, PTL DEF Spec
<1> QED
  BY <1>2 DEF A, OldConnectionsGo

-----------------------------------------------------------------------------
(* What a session may become: its gate is lifted, nothing else.             *)
Becomes(s, h) == h.user = s.user /\ h.role = s.role /\ (h.must => s.must)

(* The session of a connection's token, while it lasts, is what the one the *)
(* connection captured may have become.                                     *)
CapturedCurrent ==
  \A c \in Conn : phase[c] \in Served =>
    /\ held[token[c]] # Unissued
    /\ Valid(token[c]) => Becomes(session[c], held[token[c]])

LEMMA HeldBecomes ==
  ASSUME GateInv, Accounts, NEW t \in Token, held[t] # Unissued
  PROVE  /\ held'[t] # Unissued
         /\ Valid(t)' => Valid(t) /\ Becomes(held[t], held'[t])
<1>1. held \in [Token -> Session \cup {Null, Unissued}] /\ Unissued # Null
  BY ConnectionAssumption DEF GateInv, Shape, TypeOK
<1>2. ASSUME NEW u \in Token, SessionEnds(u)
      PROVE  held'[t] # Unissued /\ (Valid(t)' => Valid(t) /\ held'[t] = held[t])
  BY <1>1, <1>2 DEF SessionEnds, Ended, Valid
<1>3. ASSUME NEW u \in Token, NEW s \in Session, Login(u, s) PROVE held'[t] = held[t]
  BY <1>1, <1>3 DEF Login, Appears
<1>4. ASSUME NEW u \in User, AccountRevoked(u)
      PROVE  held'[t] # Unissued /\ (Valid(t)' => Valid(t) /\ held'[t] = held[t])
  BY <1>1, <1>4 DEF AccountRevoked, Revoked, Valid
<1>5. ASSUME NEW u \in User, PasswordChanged(u), t \in SessionsOf(u)
      PROVE  held'[t] # Unissued /\ Valid(t) /\ Becomes(held[t], held'[t])
  <2>1. held[t] \in Session /\ Valid(t)
    BY <1>1, <1>5 DEF SessionsOf, Valid
  <2>2. held'[t] = [held[t] EXCEPT !.must = FALSE]
    BY <1>5 DEF PasswordChanged, Lifted
  <2>3. held'[t] \in Session /\ Becomes(held[t], held'[t])
    BY <2>1, <2>2 DEF Session, Becomes
  <2> QED
    BY <2>1, <2>3, ConnectionAssumption
<1>6. ASSUME NEW u \in User, PasswordChanged(u), t \notin SessionsOf(u) PROVE held'[t] = held[t]
  BY <1>6 DEF PasswordChanged, Lifted
<1>7. Becomes(held[t], held[t])
  BY DEF Becomes
<1> QED
  BY <1>2, <1>3, <1>4, <1>5, <1>6, <1>7 DEF Accounts, Valid

(* Each step either changes what tokens hold or what connections captured.  *)
LEMMA CapturedAccounts ==
  ASSUME GateInv, CapturedCurrent, Accounts
  PROVE  CapturedCurrent'
<1>1. UNCHANGED <<phase, token, session>>
  BY DEF Accounts, SessionEnds, Login, PasswordChanged, AccountRevoked, authRest
<1> SUFFICES ASSUME NEW c \in Conn, phase[c] \in Served
             PROVE  /\ held'[token[c]] # Unissued
                    /\ held'[token[c]] \notin {Null, Unissued} =>
                         Becomes(session[c], held'[token[c]])
  BY <1>1 DEF CapturedCurrent, Valid
<1>2. token[c] \in Token /\ held[token[c]] # Unissued
  BY DEF GateInv, Authenticated, CapturedCurrent
<1>3. /\ held'[token[c]] # Unissued
      /\ held'[token[c]] \notin {Null, Unissued} =>
           Valid(token[c]) /\ Becomes(held[token[c]], held'[token[c]])
  BY <1>2, HeldBecomes DEF Valid
<1> QED
  BY <1>3 DEF CapturedCurrent, Becomes

LEMMA CapturedKept ==
  ASSUME CapturedCurrent, UNCHANGED held,
         \A c \in Conn : phase'[c] \in Served =>
           phase[c] \in Served /\ token'[c] = token[c] /\ session'[c] = session[c]
  PROVE  CapturedCurrent'
BY DEF CapturedCurrent, Valid

LEMMA CapturedConnecting ==
  ASSUME GateInv, CapturedCurrent, NEW c \in Conn, Connecting(c)
  PROVE  CapturedCurrent'
<1>1. /\ UNCHANGED held
      /\ \A d \in Conn : d # c => /\ phase'[d] = phase[d] /\ token'[d] = token[d]
                                  /\ session'[d] = session[d]
  BY DEF Connecting, ConnectBare, NoToken, Subscribe, ConnectWithToken, FirstMessage, Authenticate,
     authVars, GateInv, Shape, TypeOK
<1>2. ASSUME ConnectBare(c) \/ NoToken(c) PROVE phase'[c] \notin Served
  BY <1>2 DEF ConnectBare, NoToken, Served, GateInv, Shape, TypeOK
<1>3. ASSUME Subscribe(c)
      PROVE  phase[c] \in Served /\ UNCHANGED <<token, session>>
  BY <1>3 DEF Subscribe, Served
<1>4. ASSUME NEW t \in Token, Authenticate(c, t), phase'[c] \in Served
      PROVE  token'[c] = t /\ session'[c] = held[t] /\ Valid(t)
  BY <1>4 DEF Authenticate, Served, GateInv, Shape, TypeOK
<1>5. ASSUME phase'[c] \in Served
      PROVE  /\ held[token'[c]] # Unissued
             /\ Valid(token'[c]) => Becomes(session'[c], held[token'[c]])
  BY <1>2, <1>3, <1>4, <1>5
     DEF Connecting, ConnectWithToken, FirstMessage, CapturedCurrent, Becomes, Valid
<1> QED
  BY <1>1, <1>5 DEF CapturedCurrent, Valid

LEMMA RefreshBecomes ==
  ASSUME CapturedCurrent, NEW c \in Conn, phase[c] \in Served
  PROVE  /\ Becomes(session[c], Refreshed(c))
         /\ Valid(token[c]) => Becomes(Refreshed(c), held[token[c]])
BY DEF CapturedCurrent, Refreshed, Becomes

LEMMA CapturedRequest ==
  ASSUME GateInv, CapturedCurrent, NEW c \in Conn, NEW k \in Kinds, Request(c, k)
  PROVE  CapturedCurrent'
<1>1. /\ UNCHANGED <<held, token>> /\ phase[c] \in Served /\ session'[c] = Refreshed(c)
      /\ \A d \in Conn : d # c => phase'[d] = phase[d] /\ session'[d] = session[d]
  BY DEF Request, authVars, Served, GateInv, Shape, TypeOK
<1>2. held[token[c]] # Unissued /\ (Valid(token[c]) => Becomes(session'[c], held[token[c]]))
  BY <1>1, RefreshBecomes DEF CapturedCurrent
<1> QED
  BY <1>1, <1>2 DEF CapturedCurrent, Valid

LEMMA CapturedStep == GateInv /\ CapturedCurrent /\ [Next]_vars => CapturedCurrent'
<1> SUFFICES ASSUME GateInv, CapturedCurrent, [Next]_vars PROVE CapturedCurrent'
  OBVIOUS
<1>1. CASE \/ UNCHANGED vars \/ Interval
           \/ \E c \in Conn : TakeReply(c) \/ Forward(c) \/ Pong(c)
           \/ \E r \in Rest : \/ \E wrote \in SUBSET Table : HangUp(r, wrote)
                              \/ \E t \in Token, k \in Kinds : RestCall(r, t, k)
  <2>1. UNCHANGED <<held, phase, token, session>>
    BY <1>1 DEF vars, authVars, Interval, TakeReply, Forward, Pong, HangUp, RestCall
  <2> QED
    BY <2>1, CapturedKept
<1>2. ASSUME NEW p \in Task, Serving(p) PROVE CapturedCurrent'
  <2>1. /\ UNCHANGED <<held, token, session>>
        /\ \A c \in Conn : phase'[c] = phase[c] \/ (phase[c] = "rpc" /\ phase'[c] = "open")
    BY <1>2 DEF Serving, Work, Announce, authVars
  <2> QED
    BY <2>1, CapturedKept DEF Served
<1>3. ASSUME NEW c \in Conn, TickerFires(c) \/ Close(c) PROVE CapturedCurrent'
  <2>1. /\ UNCHANGED held
        /\ \A d \in Conn : d # c => /\ phase'[d] = phase[d] /\ token'[d] = token[d]
                                    /\ session'[d] = session[d]
        /\ \/ phase'[c] \notin Served
           \/ phase'[c] = phase[c] /\ token'[c] = token[c] /\ session'[c] = session[c]
    BY <1>3 DEF TickerFires, Close, Leave, authVars, Served, GateInv, Shape, TypeOK
  <2> QED
    BY <2>1, CapturedKept
<1> QED
  BY <1>1, <1>2, <1>3, CapturedAccounts, CapturedConnecting, CapturedRequest DEF Next

LEMMA CapturedAlways == Spec => [](GateInv /\ CapturedCurrent)
<1>1. Init => CapturedCurrent
  BY DEF Init, CapturedCurrent, Served
<1> QED
  BY <1>1, CapturedStep, GateAlways, PTL DEF Spec

(* A connection that captured its session before the gate was lifted acts,  *)
(* while its token lasts, under the very session that a REST call with the  *)
(* same token would be given: to validate the token again only while the    *)
(* gate is closed is as good as to do so for every message (handle_socket,  *)
(* rest.rs dispatch).                                                       *)
AsIfValidated ==
  [][\A c \in Conn, k \in Kinds :
       Request(c, k) /\ Valid(token[c]) => session'[c] = held[token[c]]]_vars

LEMMA RefreshIsHeld ==
  ASSUME GateInv, CapturedCurrent, NEW c \in Conn, phase[c] \in Served, Valid(token[c])
  PROVE  Refreshed(c) = held[token[c]]
<1>1. held[token[c]] \in Session /\ session[c] \in Session
  BY ValidHeld DEF GateInv, Authenticated
<1>2. Becomes(session[c], held[token[c]])
  BY DEF CapturedCurrent
<1>3. CASE session[c].must
  BY <1>3 DEF Refreshed
<1>4. CASE ~session[c].must
  <2>1. session[c] = held[token[c]]
    BY <1>1, <1>2, <1>4 DEF Session, Becomes
  <2> QED
    BY <1>4, <2>1 DEF Refreshed
<1> QED
  BY <1>3, <1>4

THEOREM ActsAsValidated == Spec => AsIfValidated
<1> DEFINE A == \A c \in Conn, k \in Kinds :
                  Request(c, k) /\ Valid(token[c]) => session'[c] = held[token[c]]
<1>1. GateInv /\ CapturedCurrent => A
  <2> SUFFICES ASSUME GateInv, CapturedCurrent, NEW c \in Conn, NEW k \in Kinds, Request(c, k),
                      Valid(token[c])
               PROVE  session'[c] = held[token[c]]
    OBVIOUS
  <2>1. phase[c] \in Served /\ session'[c] = Refreshed(c)
    BY DEF Request, Served, GateInv, Shape, TypeOK
  <2> QED
    BY <2>1, RefreshIsHeld
<1>2. GateInv /\ CapturedCurrent => [A]_vars
  BY <1>1
<1> HIDE DEF A
<1>3. Spec => [][A]_vars
  BY <1>2, CapturedAlways, PTL DEF Spec
<1> QED
  BY <1>3 DEF A, AsIfValidated

(* Nobody becomes somebody else on an open connection: from authentication  *)
(* to its end its session keeps the account and the role, and a gate that   *)
(* has opened for it stays open, whatever becomes of the account and of the *)
(* sessions meanwhile (handle_socket).                                      *)
IdentityKept ==
  [][\A c \in Conn : phase[c] \in Served /\ phase'[c] \in Served =>
       Becomes(session[c], session'[c])]_vars

LEMMA IdentityStep ==
  ASSUME GateInv, CapturedCurrent, Next,
         NEW c \in Conn, phase[c] \in Served, phase'[c] \in Served
  PROVE  Becomes(session[c], session'[c])
<1>1. ASSUME NEW k \in Kinds, Request(c, k) PROVE Becomes(session[c], session'[c])
  <2>1. session'[c] = Refreshed(c)
    BY <1>1 DEF Request, GateInv, Shape, TypeOK
  <2> QED
    BY <2>1, RefreshBecomes
<1>2. ASSUME NEW d \in Conn, d # c, \E k \in Kinds : Request(d, k) PROVE session'[c] = session[c]
  BY <1>2 DEF Request, GateInv, Shape, TypeOK
<1>3. ASSUME NEW d \in Conn, Connecting(d) PROVE session'[c] = session[c]
  <2>1. d = c => ~\E t \in Token : ConnectWithToken(d, t) \/ FirstMessage(d, t)
    BY DEF ConnectWithToken, FirstMessage, Served
  <2> QED
    BY <1>3, <2>1 DEF Connecting, ConnectBare, NoToken, Subscribe, ConnectWithToken, FirstMessage,
       Authenticate, GateInv, Shape, TypeOK
<1>4. ASSUME NEW d \in Conn, TickerFires(d) \/ Close(d) PROVE session'[c] = session[c]
  BY <1>4 DEF TickerFires, Close, Leave, Served, GateInv, Shape, TypeOK
<1>5. CASE \/ Accounts \/ Interval
           \/ \E d \in Conn : TakeReply(d) \/ Forward(d) \/ Pong(d)
           \/ \E p \in Task : Serving(p)
           \/ \E r \in Rest : \/ \E wrote \in SUBSET Table : HangUp(r, wrote)
                              \/ \E t \in Token, k \in Kinds : RestCall(r, t, k)
  <2>1. UNCHANGED session
    BY <1>5 DEF authRest, Accounts, SessionEnds, Login, PasswordChanged, AccountRevoked, Interval,
       TakeReply, Forward, Pong, Serving, Work, Announce, HangUp, RestCall
  <2> QED
    BY <2>1 DEF Becomes
<1> QED
  BY <1>1, <1>2, <1>3, <1>4, <1>5 DEF Next, Becomes

THEOREM NobodyElse == Spec => IdentityKept
<1> DEFINE A == \A c \in Conn : phase[c] \in Served /\ phase'[c] \in Served =>
                  Becomes(session[c], session'[c])
<1>1. GateInv /\ CapturedCurrent /\ [Next]_vars => [A]_vars
  BY IdentityStep
<1> HIDE DEF A
<1>2. Spec => [][A]_vars
  BY <1>1, CapturedAlways, PTL DEF Spec
<1> QED
  BY <1>2 DEF A, IdentityKept
=============================================================================
