----------------------------- MODULE Connection -----------------------------
(* The WebSocket connections of nastty (src/src/ws.rs), the RPC dispatcher  *)
(* they share with the REST calls (src/src/rpc/mod.rs, src/src/rest.rs) and *)
(* the event bus (src/src/state.rs).  The handlers are modelled by the      *)
(* tables they write; the sessions by what the authentication service       *)
(* promises of them (SessionTable).  Time passes in ping intervals of 30 s. *)
EXTENDS Naturals, FiniteSets, Methods, SessionTable

CONSTANTS Conn,        \* WebSocket connections
          Rest,        \* REST calls
          Table,       \* the tables of the instance
          Calls,       \* the methods that are called
          Cap,         \* events the bus keeps for a receiver (64)
          IdleLimit    \* IDLE_TIMEOUT in ping intervals (3)

ASSUME ConnectionAssumption ==
  /\ Conn \cap Rest = {}
  /\ Role \subseteq {"Admin", "Operator", "ReadOnly"}
  /\ Calls \subseteq Method
  /\ Table \cap {"none", "other"} = {}
  /\ Cap \in Nat \ {0}
  /\ IdleLimit \in Nat \ {0}
  /\ Null \notin Token /\ Unissued # Null
  /\ {Null, Unissued} \cap Session = {}

VARIABLES
  cleared,   \* history: tokens whose session was once free of the gate
  phase,     \* where the task of each connection stands
  token,     \* the token each connection authenticated with
  session,   \* the session each connection captured
  backlog,   \* the events the bus keeps for each connection
  run,       \* the handler each connection or REST call is in
  reply,     \* the last answer the client has not taken yet
  shown,     \* the tables each client has listed
  stale,     \* those among them that changed since
  told,      \* tables an event named, not listed again yet
  lost,      \* history: stale tables whose event was never sent, or overrun
  age,       \* ping intervals since the connection read a frame
  due,       \* the ping ticker has fired and was not handled yet
  pinged,    \* a ping is unanswered
  excuse     \* history: why an idle connection may be dropped

authVars == <<held, cleared>>
viewVars == <<backlog, shown, stale, told, lost>>
timeVars == <<age, due, pinged, excuse>>
vars == <<authVars, phase, token, session, run, reply, viewVars, timeVars>>

Task == Conn \cup Rest

Phase == {"none", "auth", "subscribing", "open", "rpc", "closed", "dropped"}

(* Events that name no watched table are all alike.                         *)
Event(k) == IF k \in Table \cup {"none"} THEN k ELSE "other"

(* What a request does depends on its method, and on whether it names       *)
(* another account than the caller's, only through these.                   *)
Kind(m, other) ==
  [self |-> SelfService(m), own |-> m = ChangePassword /\ ~other, reading |-> ReadOnly(m),
   denied |-> {r \in Role : Denied(r, m)},
   refused |-> {r \in Role : Refuses(r, m, other)}, changes |-> Writes(m) # {},
   writes |-> Writes(m) \cap Table, lists |-> {Lists(m)} \cap Table,
   event |-> Event(Collection(m))]

Kinds == {Kind(m, other) : m \in Calls, other \in BOOLEAN}

(* A handler at work, for a session.  Stage "done" is after the handler,    *)
(* before the event.  "oversteps" is history: a read-only session has asked *)
(* for a change of something else than its own password.                    *)
Idle == [stage |-> "idle"]

Handler(p, s, k) ==
  [stage |-> "working", self |-> k.self, refuses |-> s.role \in k.refused,
   oversteps |-> s.role = "ReadOnly" /\ k.changes /\ ~k.own, writes |-> k.writes,
   lists |-> IF p \in Conn THEN k.lists ELSE {}, event |-> k.event]

Working(p) == run[p].stage = "working"

Done(p) == run[p].stage = "done"

Subscribed == {c \in Conn : phase[c] \in {"open", "rpc"}}

Init ==
  /\ TableInit
  /\ cleared = {}
  /\ phase = [c \in Conn |-> "none"]
  /\ token = [c \in Conn |-> Null]
  /\ session = [c \in Conn |-> Null]
  /\ run = [p \in Task |-> Idle]
  /\ reply = [c \in Conn |-> "none"]
  /\ backlog = [c \in Conn |-> <<>>]
  /\ shown = [c \in Conn |-> {}]
  /\ stale = [c \in Conn |-> {}]
  /\ told = [c \in Conn |-> {}]
  /\ lost = [c \in Conn |-> {}]
  /\ age = [c \in Conn |-> 0]
  /\ due = [c \in Conn |-> FALSE]
  /\ pinged = [c \in Conn |-> FALSE]
  /\ excuse = [c \in Conn |-> FALSE]

-----------------------------------------------------------------------------
(* The authentication service, as SessionTable has it: a login, a changed   *)
(* password (which clears the gate of the account's sessions), a reset or a *)
(* deletion (which ends them), and the end of one session.                  *)
authRest == <<phase, token, session, run, reply, viewVars, timeVars>>

Login(t, s) ==
  /\ Appears(t, s)
  /\ cleared' = IF s.must THEN cleared ELSE cleared \cup {t}
  /\ UNCHANGED authRest

PasswordChanged(u) ==
  /\ Lifted(u)
  /\ cleared' = cleared \cup SessionsOf(u)
  /\ UNCHANGED authRest

AccountRevoked(u) == Revoked(u) /\ UNCHANGED <<cleared, authRest>>

SessionEnds(t) == Ended(t) /\ UNCHANGED <<cleared, authRest>>

-----------------------------------------------------------------------------
(* resolve_session: a valid token is acknowledged, any other is answered    *)
(* with an error and the socket closed.                                     *)
Authenticate(c, t) ==
  /\ token' = [token EXCEPT ![c] = t]
  /\ IF Valid(t)
     THEN /\ phase' = [phase EXCEPT ![c] = "subscribing"]
          /\ session' = [session EXCEPT ![c] = held[t]]
     ELSE /\ phase' = [phase EXCEPT ![c] = "closed"]
          /\ UNCHANGED session
  /\ UNCHANGED <<authVars, run, reply, viewVars, timeVars>>

(* The upgrade request carries the token, in a cookie or a header ...       *)
ConnectWithToken(c, t) == phase[c] = "none" /\ Authenticate(c, t)

(* ... or the first message does.                                           *)
ConnectBare(c) ==
  /\ phase[c] = "none"
  /\ phase' = [phase EXCEPT ![c] = "auth"]
  /\ UNCHANGED <<authVars, token, session, run, reply, viewVars, timeVars>>

FirstMessage(c, t) == phase[c] = "auth" /\ Authenticate(c, t)

(* wait_for_auth gives up after 10 s, and at once on anything but a token.  *)
NoToken(c) ==
  /\ phase[c] = "auth"
  /\ phase' = [phase EXCEPT ![c] = "closed"]
  /\ UNCHANGED <<authVars, token, session, run, reply, viewVars, timeVars>>

(* handle_socket after the acknowledgement: subscribe, start the ticker.    *)
Subscribe(c) ==
  /\ phase[c] = "subscribing"
  /\ phase' = [phase EXCEPT ![c] = "open"]
  /\ UNCHANGED <<authVars, token, session, run, reply, viewVars, timeVars>>

-----------------------------------------------------------------------------
(* Mutation: the dispatcher lets a gated session list things.               *)
GatedUnlessReading(s, k) == s.must /\ ~k.self /\ ~k.reading

(* handle_rpc_request: the forced password change, then the role matrix.    *)
Gated(s, k) == s.must /\ ~k.self

Verdict(s, k) ==
  IF Gated(s, k) THEN "gated" ELSE IF s.role \in k.denied THEN "denied" ELSE "none"

Dispatch(p, s, k) ==
  /\ run[p] = Idle
  /\ run' = [run EXCEPT ![p] = IF Verdict(s, k) = "none" THEN Handler(p, s, k) ELSE Idle]

(* Mutation: the captured session is used as it is.                         *)
NeverRefreshed(c) == session[c]

(* While the gate is closed the session is validated again before each      *)
(* message; a failure keeps the old one.                                    *)
Refreshed(c) ==
  IF session[c].must /\ Valid(token[c]) THEN held[token[c]] ELSE session[c]

Request(c, k) ==
  /\ phase[c] = "open"
  /\ session' = [session EXCEPT ![c] = Refreshed(c)]
  /\ reply[c] = "none"
  /\ Dispatch(c, session'[c], k)
  /\ reply' = [reply EXCEPT ![c] = Verdict(session'[c], k)]
  /\ phase' = [phase EXCEPT ![c] = IF run'[c] = Idle THEN "open" ELSE "rpc"]
  /\ age' = [age EXCEPT ![c] = 0]
  /\ UNCHANGED <<authVars, token, viewVars, due, pinged, excuse>>

(* rest.rs dispatch: the token is validated for every call.                 *)
RestCall(r, t, k) ==
  /\ Valid(t)
  /\ Dispatch(r, held[t], k)
  /\ UNCHANGED <<authVars, phase, token, session, reply, viewVars, timeVars>>

(* The handler writes its tables, some of them if it fails half way, and a  *)
(* listing that succeeds shows its client the table as it is.  A table that *)
(* no event will name is lost to the clients that show it.                  *)
Work(p, ok, wrote) ==
  LET h == run[p]
      announced == IF ok THEN {h.event} ELSE {}
      seen(c) == IF c = p /\ ok THEN h.lists ELSE {}
  IN /\ Working(p)
     /\ IF h.refuses THEN ~ok /\ wrote = {} ELSE wrote \subseteq h.writes
     /\ ok => wrote = h.writes
     /\ run' = [run EXCEPT ![p] = [stage |-> "done", event |-> IF ok THEN h.event ELSE "none"]]
     /\ shown' = [c \in Conn |-> shown[c] \cup seen(c)]
     /\ stale' = [c \in Conn |-> (stale[c] \cup (wrote \cap shown[c])) \ seen(c)]
     /\ told' = [c \in Conn |-> told[c] \ seen(c)]
     /\ lost' = [c \in Conn |-> (lost[c] \cup ((wrote \ announced) \cap shown[c])) \ seen(c)]
     /\ UNCHANGED <<authVars, phase, token, session, reply, backlog, timeVars>>

(* Mutation: an event is only sent to a connection that waits for one.      *)
ReceiversWaiting == {c \in Conn : phase[c] = "open"}

Receivers == Subscribed

(* Mutation: a full receiver keeps everything.                              *)
PostedUnbounded(c, e) ==
  IF c \notin Receivers \/ e = "none" THEN backlog[c] ELSE Append(backlog[c], e)

(* The event of a success is sent to every receiver; a receiver that is     *)
(* more than Cap events behind loses its oldest one.                        *)
Posted(c, e) ==
  IF c \notin Receivers \/ e = "none" THEN backlog[c]
  ELSE IF Len(backlog[c]) < Cap THEN Append(backlog[c], e)
  ELSE Append(Tail(backlog[c]), e)

Overrun(c, e) ==
  IF c \in Receivers /\ e # "none" /\ Len(backlog[c]) = Cap THEN {Head(backlog[c])} ELSE {}

Announce(p) ==
  /\ Done(p)
  /\ backlog' = [c \in Conn |-> Posted(c, run[p].event)]
  /\ lost' = [c \in Conn |-> lost[c] \cup (Overrun(c, run[p].event) \cap shown[c])]
  /\ run' = [run EXCEPT ![p] = Idle]
  /\ phase' = [c \in Conn |-> IF c = p /\ phase[c] = "rpc" THEN "open" ELSE phase[c]]
  /\ reply' = [c \in Conn |-> IF c = p THEN "answered" ELSE reply[c]]
  /\ UNCHANGED <<authVars, token, session, shown, stale, told, timeVars>>

(* A REST client that hangs up takes its handler with it, at an await: what *)
(* it has written so far is not announced.                                  *)
HangUp(r, wrote) ==
  /\ Working(r)
  /\ wrote \subseteq IF run[r].refuses THEN {} ELSE run[r].writes
  /\ lost' = [c \in Conn |-> lost[c] \cup (wrote \cap shown[c])]
  /\ stale' = [c \in Conn |-> stale[c] \cup (wrote \cap shown[c])]
  /\ run' = [run EXCEPT ![r] = Idle]
  /\ UNCHANGED <<authVars, phase, token, session, reply, backlog, shown, told, timeVars>>

(* The client reads the answer.                                             *)
TakeReply(c) ==
  /\ reply[c] # "none"
  /\ reply' = [reply EXCEPT ![c] = "none"]
  /\ UNCHANGED <<authVars, phase, token, session, run, viewVars, timeVars>>

(* select!: the next event of the bus is forwarded to the client.           *)
Forward(c) ==
  /\ phase[c] = "open"
  /\ backlog[c] # <<>>
  /\ backlog' = [backlog EXCEPT ![c] = Tail(@)]
  /\ told' = [told EXCEPT ![c] = @ \cup ({Head(backlog[c])} \cap Table)]
  /\ UNCHANGED <<authVars, phase, token, session, run, reply, shown, stale, lost, timeVars>>

-----------------------------------------------------------------------------
(* The loop is left: the task ends, and with it its session, its receiver   *)
(* and what its client showed.                                              *)
Leave(c, how) ==
  /\ phase' = [phase EXCEPT ![c] = how]
  /\ token' = [token EXCEPT ![c] = Null]
  /\ session' = [session EXCEPT ![c] = Null]
  /\ reply' = [reply EXCEPT ![c] = "none"]
  /\ backlog' = [backlog EXCEPT ![c] = <<>>]
  /\ shown' = [shown EXCEPT ![c] = {}]
  /\ stale' = [stale EXCEPT ![c] = {}]
  /\ told' = [told EXCEPT ![c] = {}]
  /\ lost' = [lost EXCEPT ![c] = {}]
  /\ age' = [age EXCEPT ![c] = 0]

(* 30 s pass.  A waiting connection handles its ticker first.  A client     *)
(* that left a ping unanswered all that time, or one whose request has been *)
(* running for longer than the limit, may be dropped.                       *)
Interval ==
  /\ \A c \in Conn : phase[c] = "open" => ~due[c]
  /\ age' = [c \in Conn |-> IF c \in Subscribed /\ age[c] <= IdleLimit THEN age[c] + 1
                            ELSE age[c]]
  /\ due' = [c \in Conn |-> c \in Subscribed]
  /\ excuse' = [c \in Conn |-> \/ excuse[c]
                               \/ phase[c] = "open" /\ pinged[c]
                               \/ phase[c] = "rpc" /\ age[c] >= IdleLimit]
  /\ UNCHANGED <<authVars, phase, token, session, run, reply, viewVars, pinged>>

(* Mutation: a ping under way counts as a sign of life.                     *)
IdleUnlessPinged(c) == age[c] > IdleLimit /\ ~pinged[c]

(* Mutation: the limit is one interval short.                               *)
IdleTooSoon(c) == age[c] >= IdleLimit

(* last_seen.elapsed() > IDLE_TIMEOUT                                       *)
TooOld(c) == age[c] > IdleLimit

(* select!: the ping ticker.                                                *)
TickerFires(c) ==
  /\ phase[c] = "open"
  /\ due[c]
  /\ due' = [due EXCEPT ![c] = FALSE]
  /\ IF TooOld(c)
     THEN Leave(c, "dropped") /\ UNCHANGED pinged
     ELSE /\ pinged' = [pinged EXCEPT ![c] = TRUE]
          /\ UNCHANGED <<phase, token, session, reply, viewVars, age>>
  /\ UNCHANGED <<authVars, run, excuse>>

(* The client answers the ping.                                             *)
Pong(c) ==
  /\ phase[c] = "open"
  /\ pinged[c]
  /\ age' = [age EXCEPT ![c] = 0]
  /\ pinged' = [pinged EXCEPT ![c] = FALSE]
  /\ UNCHANGED <<authVars, phase, token, session, run, reply, viewVars, due, excuse>>

(* The client closes the socket, or a write to it fails.                    *)
Close(c) ==
  /\ phase[c] = "open"
  /\ Leave(c, "closed")
  /\ UNCHANGED <<authVars, run, due, pinged, excuse>>

-----------------------------------------------------------------------------
Accounts ==
  \/ \E t \in Token : SessionEnds(t) \/ \E s \in Session : Login(t, s)
  \/ \E u \in User : PasswordChanged(u) \/ AccountRevoked(u)

Connecting(c) ==
  \/ ConnectBare(c)
  \/ NoToken(c)
  \/ Subscribe(c)
  \/ \E t \in Token : ConnectWithToken(c, t) \/ FirstMessage(c, t)

Serving(p) ==
  \/ \E ok \in BOOLEAN, wrote \in SUBSET Table : Work(p, ok, wrote)
  \/ Announce(p)

Next ==
  \/ Accounts
  \/ Interval
  \/ \E p \in Task : Serving(p)
  \/ \E c \in Conn : \/ Connecting(c)
                     \/ TakeReply(c)
                     \/ Forward(c)
                     \/ TickerFires(c)
                     \/ Pong(c)
                     \/ Close(c)
                     \/ \E k \in Kinds : Request(c, k)
  \/ \E r \in Rest : \/ \E wrote \in SUBSET Table : HangUp(r, wrote)
                     \/ \E t \in Token, k \in Kinds : RestCall(r, t, k)

Spec == Init /\ [][Next]_vars

(* The timers fire, the tasks run, and handlers return.                     *)
Fairness ==
  /\ WF_vars(Interval)
  /\ \A c \in Conn : WF_vars(NoToken(c)) /\ WF_vars(Subscribe(c)) /\ WF_vars(TickerFires(c))
  /\ \A p \in Task : WF_vars(Announce(p))
                     /\ WF_vars(\E ok \in BOOLEAN, wrote \in SUBSET Table : Work(p, ok, wrote))

FairSpec == Spec /\ Fairness

-----------------------------------------------------------------------------
(* Every variable keeps its type.                                           *)
TypeOK ==
  /\ held \in [Token -> Session \cup {Null, Unissued}]
  /\ cleared \subseteq Token
  /\ phase \in [Conn -> Phase]
  /\ token \in [Conn -> Token \cup {Null}]
  /\ session \in [Conn -> Session \cup {Null}]
  /\ \A p \in Task : run[p].stage \in {"idle", "working", "done"}
  /\ reply \in [Conn -> {"none", "gated", "denied", "answered"}]
  /\ \A c \in Conn : Len(backlog[c]) <= Cap
  /\ shown \in [Conn -> SUBSET Table]
  /\ stale \in [Conn -> SUBSET Table]
  /\ told \in [Conn -> SUBSET Table]
  /\ lost \in [Conn -> SUBSET Table]
  /\ age \in [Conn -> 0 .. IdleLimit + 1]
  /\ due \in [Conn -> BOOLEAN]
  /\ pinged \in [Conn -> BOOLEAN]
  /\ excuse \in [Conn -> BOOLEAN]

(* A table a connected client shows is up to date, or its event is on the   *)
(* way: kept by the bus, delivered, or about to be sent by the task that    *)
(* made the change.  The exceptions are the known ones: an event overrun in *)
(* a full receiver, a handler that failed half way or was dropped, a table  *)
(* no event names.  The subscription after the acknowledgement, and events  *)
(* sent only after the handler, open no other gap.                          *)
Coming(c) ==
  told[c] \cup {backlog[c][i] : i \in DOMAIN backlog[c]} \cup {run[p].event : p \in {q \in Task : Done(q)}}

NoSilentChange == \A c \in Subscribed : stale[c] \subseteq Coming(c) \cup lost[c]

(* A request other than the self-service ones is only ever dispatched on a  *)
(* connection whose token had, at some time, a session free of the forced   *)
(* password change, whatever happened to the account meanwhile.             *)
GateHolds ==
  \A c \in Conn : Working(c) /\ ~run[c].self => token[c] \in cleared

(* And once the password was changed, no live connection is turned away at  *)
(* the gate any more, though it captured its session before the change.     *)
GateOpens ==
  [][\A c \in Conn : reply[c] = "none" /\ reply'[c] = "gated" =>
        ~Valid(token[c]) \/ held[token[c]].must]_vars

(* A read-only session changes nothing but its own password, through any    *)
(* method of any router.  The gate and the role matrix let it reach only    *)
(* handlers that write nothing or that are open to every session, and the   *)
(* arm of such a one refuses it what is not its own: the password of        *)
(* another account.                                                         *)
ReadersChangeNothing ==
  \A p \in Task : Working(p) /\ run[p].oversteps => run[p].self /\ run[p].refuses

(* Only a client that left a ping unanswered for a whole interval, or whose *)
(* request outlasted the limit, is dropped as idle.                         *)
AnsweringClientsKept == \A c \in Conn : phase[c] = "dropped" => excuse[c]

(* An open connection hears from its client again or is given up, and a     *)
(* socket that never authenticates is closed.                               *)
SilentClientsDropped ==
  \A c \in Conn :
    /\ phase[c] = "auth" ~> phase[c] # "auth"
    /\ phase[c] = "open" ~> phase[c] # "open" \/ age[c] = 0
=============================================================================
