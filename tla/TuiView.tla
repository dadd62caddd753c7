------------------------------ MODULE TuiView ------------------------------
(* How the terminal client keeps its view of the server (app.rs, client.rs  *)
(* under src/src): requests and replies travel in order, events of other    *)
(* clients' changes come in between, and replies are told apart by fixed    *)
(* request ids, of which the ones of a fan-out are used again by the next.  *)
(* The lists that are fetched as a whole and by one event are alike; one of *)
(* them, the subvolumes, stands for all.                                    *)
EXTENDS Naturals, Sequences, FiniteSets

CONSTANTS Fs,         \* filesystems
          OwnLabel,   \* whether the engine's snapshots name their filesystem
          Budget,     \* bound: how often the server changes or refuses, and the user
                      \* asks, as the pairs of counts that are reached
          Room,       \* bound: a tick comes while less than this is under way
          Null

(* What the server may answer about its filesystems, and about one of them. *)
Listings == [names : Seq(Fs), mounted : SUBSET Fs]
Reports == Fs \X Nat

ASSUME TuiViewAssumption ==
  /\ IsFiniteSet(Fs) /\ OwnLabel \in BOOLEAN
  /\ Budget \subseteq Nat \X Nat /\ <<0, 0>> \in Budget /\ Room \in Nat
  /\ Null \notin Fs \cup Nat \cup Listings \cup Reports

VARIABLES
  table,      \* server: the filesystems, in the order they are listed
  mounted,    \* server: those that are mounted
  version,    \* server: of each filesystem's snapshots, its status, and the subvolumes
  changes,    \* changes made, and requests refused, so far
  bus,        \* events not forwarded yet
  missed,     \* history: the lists that changed, or failed, with no event to tell
  toServer,   \* requests under way
  toClient,   \* replies and events under way
  view,       \* client: filesystems, subvolumes, snapshots, status strip
  pending,    \* client: pending_snapshots, a filesystem per position
  panel,      \* client: the filesystem of the status panel
  slots,      \* client: what the status panel shows
  asked       \* panels opened, raw reports and refreshes asked for so far

serverVars == <<table, mounted, version, changes, bus, missed>>
clientVars == <<view, pending, panel, slots, asked>>
vars == <<serverVars, toServer, toClient, clientVars>>

Subvolumes == <<Null, "subvolumes">>

Subject == Fs \X {"snapshots", "status"} \cup {Subvolumes}

Listing == [names |-> table, mounted |-> mounted]

(* The entries of a list that are in a set, in the order of the list: the   *)
(* k-th is the one with k of them up to it.                                 *)
Kept(s, S) ==
  LET at == {i \in DOMAIN s : s[i] \in S}
      rank(i) == Cardinality({j \in at : j <= i}) IN
  [k \in 1..Cardinality(at) |-> s[CHOOSE i \in at : rank(i) = k]]

(* The positions of a listing's mounted filesystems among themselves: what  *)
(* request_snapshots enumerates.                                            *)
MountedNames(l) == Kept(l.names, l.mounted)

(* Requests.  "at" is what the id adds to its base; the ids of lists carry  *)
(* nothing.                                                                 *)
Request(kind, f, at) == [kind |-> kind, of |-> f, at |-> at]

ListFs == Request("fs", Null, 0)
ListSubvolumes == Request("subvolumes", Null, 0)

Snapshots(names) == [i \in DOMAIN names |-> Request("snapshots", names[i], i)]

(* Mutation: the strip is asked for by the position among the mounted ones. *)
StripByMountedPosition(l) ==
  [i \in DOMAIN MountedNames(l) |-> Request("status", MountedNames(l)[i], i)]

(* Mutation: the strip is kept fresh by listing once more.                  *)
StripPolled(l) == IF MountedNames(l) = <<>> THEN <<>> ELSE <<ListFs>>

(* The four status queries of each mounted filesystem, as one.              *)
Strip(l) ==
  LET at(f) == CHOOSE i \in DOMAIN l.names : l.names[i] = f IN
  [i \in DOMAIN MountedNames(l) |-> Request("status", MountedNames(l)[i], at(MountedNames(l)[i]))]

(* refresh_all.                                                             *)
RefreshAll == <<ListFs, ListSubvolumes>>

(* refresh_collection.                                                      *)
Refresh(collection) ==
  IF collection = "subvolume" THEN <<ListSubvolumes>> ELSE <<ListFs>>

(* What the panel shows: its five reports, as one, and the raw one.         *)
(* history: asked, failed, the panel's own query was sent, was refused;     *)
(* stray, a reply to a query about another filesystem came.                 *)
Slots == {"panel", "raw"}

EmptySlot(own) == [shows |-> Null, asked |-> own, failed |-> FALSE, stray |-> FALSE]

(* App::new and run_app: nothing is known, everything is asked for.         *)
Init ==
  /\ table \in {s \in [1..Cardinality(Fs) -> Fs] : \A i, j \in DOMAIN s : s[i] = s[j] => i = j}
  /\ mounted \in SUBSET Fs
  /\ version = [s \in Subject |-> 0]
  /\ changes = 0
  /\ bus = <<>>
  /\ missed = {}
  /\ toServer = RefreshAll
  /\ toClient = <<>>
  /\ view = [fs |-> [names |-> <<>>, mounted |-> {}], subvolumes |-> Null, snapshots |-> {},
             strip |-> [f \in Fs |-> Null]]
  /\ pending = <<>>
  /\ panel = Null
  /\ slots = [k \in Slots |-> EmptySlot(FALSE)]
  /\ asked = 0

-----------------------------------------------------------------------------
(* The server: changes by anyone, each with its event.  The event is lost   *)
(* when the server's bus overflows, the handler fails half way or its REST  *)
(* client hangs up; "also" are the lists that change with no event of their *)
(* own.                                                                     *)
ListOf(event) == IF event = "subvolume" THEN "subvolumes" ELSE "fs"

Changed(event, also) ==
  /\ <<changes + 1, asked>> \in Budget
  /\ changes' = changes + 1
  /\ \/ bus' = Append(bus, event) /\ missed' = missed \cup also
     \/ bus' = bus /\ missed' = missed \cup also \cup {ListOf(event)}
  /\ UNCHANGED <<toServer, toClient, clientVars>>

Touched(subjects) ==
  version' = [s \in Subject |-> IF s \in subjects THEN version[s] + 1 ELSE version[s]]

SubvolumeChanged ==
  Touched({Subvolumes}) /\ Changed("subvolume", {}) /\ UNCHANGED <<table, mounted>>

(* A clone and a rollback make a subvolume too.                             *)
SnapshotChanged(f) ==
  /\ f \in mounted
  /\ \/ Touched({<<f, "snapshots">>}) /\ Changed("snapshot", {})
     \/ Touched({<<f, "snapshots">>, Subvolumes}) /\ Changed("snapshot", {"subvolumes"})
  /\ UNCHANGED <<table, mounted>>

StatusChanged(f) ==
  /\ f \in mounted
  /\ Touched({<<f, "status">>}) /\ Changed("filesystem", {})
  /\ UNCHANGED <<table, mounted>>

(* The subvolumes that are listed are those of the mounted filesystems.     *)
MountChanged(f) ==
  /\ \E i \in DOMAIN table : table[i] = f
  /\ mounted' = IF f \in mounted THEN mounted \ {f} ELSE mounted \cup {f}
  /\ Touched({Subvolumes}) /\ Changed("filesystem", {"subvolumes"})
  /\ UNCHANGED table

(* Mutation: a destroyed filesystem still counts as mounted.                *)
ForgottenOnly(f) == mounted
Without(f) == mounted \ {f}

Destroyed(f) ==
  /\ \E i \in DOMAIN table : table[i] = f
  /\ table' = Kept(table, Fs \ {f})
  /\ mounted' = Without(f)
  /\ Touched({Subvolumes}) /\ Changed("filesystem", {"subvolumes"})

Answer(r) ==
  CASE r.kind = "fs" -> Listing
    [] r.kind = "subvolumes" -> version[Subvolumes]
    [] r.kind \in {"snapshots", "status", "panel", "raw"} /\ r.of \in mounted ->
         <<r.of, version[<<r.of, IF r.kind = "snapshots" THEN "snapshots" ELSE "status">>]>>
    [] r.kind = "tick" -> 0
    [] OTHER -> Null

(* The queries that keep the lists, and the list each serves.               *)
FanOut == {"fs", "snapshots", "status"}
Serves(kind) ==
  IF kind \in FanOut THEN {"fs"} ELSE IF kind = "subvolumes" THEN {"subvolumes"} ELSE {}

(* A list that is answered catches up with what was missed; the list of     *)
(* filesystems only if no query of an earlier one is under way, which the   *)
(* client would take for an answer to the new one's.                        *)
Alone ==
  /\ \A q \in DOMAIN toServer : q > 1 => toServer[q].kind \notin FanOut
  /\ \A p \in DOMAIN toClient :
       "request" \in DOMAIN toClient[p] => toClient[p].request.kind \notin FanOut

CaughtUp(kind) ==
  IF kind = "subvolumes" \/ (kind = "fs" /\ Alone) THEN missed \ Serves(kind) ELSE missed

(* A connection's requests are handled one after the other, in order.       *)
ReplyWith(result) ==
  /\ toServer # <<>>
  /\ toServer' = Tail(toServer)
  /\ toClient' = Append(toClient, [request |-> Head(toServer), result |-> result])
  /\ UNCHANGED <<table, mounted, version, bus, clientVars>>

Serve ==
  /\ ReplyWith(Answer(Head(toServer)))
  /\ missed' = CaughtUp(Head(toServer).kind)
  /\ UNCHANGED changes

(* A handler fails: the file or the tool it reads from does.                *)
Refuse ==
  /\ <<changes + 1, asked>> \in Budget
  /\ changes' = changes + 1
  /\ ReplyWith(Null)
  /\ missed' = missed \cup Serves(Head(toServer).kind)

Forward ==
  /\ bus # <<>>
  /\ bus' = Tail(bus)
  /\ toClient' = Append(toClient, [event |-> Head(bus)])
  /\ UNCHANGED <<table, mounted, version, changes, missed, toServer, clientVars>>

-----------------------------------------------------------------------------
(* The client: handle_incoming.                                             *)
Incoming == toClient # <<>> /\ toClient' = Tail(toClient)

IsReply(kind) ==
  Incoming /\ "request" \in DOMAIN Head(toClient) /\ Head(toClient).request.kind = kind

Result == Head(toClient).result

Ask(requests) == toServer' = toServer \o requests

OnEvent ==
  /\ Incoming /\ "event" \in DOMAIN Head(toClient)
  /\ Ask(Refresh(Head(toClient).event))
  /\ UNCHANGED <<serverVars, clientVars>>

(* An error only shows in the status line.                                  *)
OnError ==
  /\ Incoming /\ "request" \in DOMAIN Head(toClient) /\ Result = Null
  /\ slots' = [k \in Slots |->
                 IF Head(toClient).request.kind = k /\ Head(toClient).request.of = panel
                 THEN [slots[k] EXCEPT !.failed = TRUE] ELSE slots[k]]
  /\ UNCHANGED <<serverVars, toServer, view, pending, panel, asked>>

(* What the tick asked for is shown, and has no say here.                   *)
OnTick ==
  /\ IsReply("tick") /\ Result # Null
  /\ UNCHANGED <<serverVars, toServer, clientVars>>

OnSubvolumes ==
  /\ IsReply("subvolumes") /\ Result # Null
  /\ view' = [view EXCEPT !.subvolumes = Result]
  /\ UNCHANGED <<serverVars, toServer, pending, panel, slots, asked>>

(* The list of filesystems starts the fan-outs: request_snapshots, which    *)
(* forgets the one before it, then the status strip.                        *)
OnFs ==
  /\ IsReply("fs") /\ Result # Null
  /\ view' = [view EXCEPT !.fs = Result,
                          !.snapshots = IF MountedNames(Result) = <<>> THEN {} ELSE @]
  /\ pending' = MountedNames(Result)
  /\ Ask(Snapshots(MountedNames(Result)) \o Strip(Result))
  /\ UNCHANGED <<serverVars, panel, slots, asked>>

(* Mutation: a listing is added to those there are.                         *)
AddedListing(f, e) == view.snapshots \cup {e}

(* `retain` drops what is labelled with the filesystem, `extend` adds.      *)
ReplacedListing(f, e) == {s \in view.snapshots : s.label # f} \cup {e}

(* A snapshot listing is taken for the filesystem its position has now, and *)
(* only once; entries without a label get that one.                         *)
OnSnapshots ==
  /\ IsReply("snapshots") /\ Result # Null
  /\ LET i == Head(toClient).request.at
         known == i \in DOMAIN pending /\ pending[i] # Null IN
       IF known
       THEN /\ view' = [view EXCEPT !.snapshots = ReplacedListing(pending[i],
                  [label |-> IF OwnLabel THEN Result[1] ELSE pending[i], of |-> Result])]
            /\ pending' = [pending EXCEPT ![i] = Null]
       ELSE UNCHANGED <<view, pending>>
  /\ UNCHANGED <<serverVars, toServer, panel, slots, asked>>

(* A status is taken for the filesystem at that position of the list.       *)
OnStrip ==
  /\ IsReply("status") /\ Result # Null
  /\ LET i == Head(toClient).request.at IN
       view' = IF i \in DOMAIN view.fs.names
               THEN [view EXCEPT !.strip[view.fs.names[i]] = Result] ELSE view
  /\ UNCHANGED <<serverVars, toServer, pending, panel, slots, asked>>

(* A report is shown in whatever panel is open by then.                     *)
OnPanel ==
  /\ \E k \in Slots :
       /\ IsReply(k) /\ Result # Null
       /\ slots' = [slots EXCEPT ![k].shows = Result, ![k].stray = @ \/ Result[1] # panel]
  /\ UNCHANGED <<serverVars, toServer, view, pending, panel, asked>>

(* Mutation: what the panel showed last is kept.                            *)
KeptSlots ==
  [k \in Slots |-> [slots[k] EXCEPT !.asked = (k = "panel"), !.failed = FALSE, !.stray = FALSE]]
ClearedSlots == [k \in Slots |-> EmptySlot(k = "panel")]

(* open_fs_status: the panel is cleared, its five queries are sent (as      *)
(* one); replies to a panel opened earlier may still come.                  *)
OpenFsStatus(f) ==
  /\ \E i \in DOMAIN view.fs.names : view.fs.names[i] = f
  /\ <<changes, asked + 1>> \in Budget
  /\ asked' = asked + 1
  /\ panel' = f
  /\ slots' = ClearedSlots
  /\ Ask(<<Request("panel", f, 0)>>)
  /\ UNCHANGED <<serverVars, toClient, view, pending>>

(* handle_fs_status_key: `u` and `t` clear and ask for the raw report.      *)
AskRaw ==
  /\ panel # Null
  /\ <<changes, asked + 1>> \in Budget
  /\ asked' = asked + 1
  /\ slots' = [slots EXCEPT !["raw"] = EmptySlot(TRUE)]
  /\ Ask(<<Request("raw", panel, 0)>>)
  /\ UNCHANGED <<serverVars, toClient, view, pending, panel>>

(* A reply to a mutation of one's own, and the key `r`: refresh_all.        *)
UserRefresh ==
  /\ <<changes, asked + 1>> \in Budget
  /\ asked' = asked + 1
  /\ Ask(RefreshAll)
  /\ UNCHANGED <<serverVars, toClient, view, pending, panel, slots>>

(* Every five seconds run_app asks for the system's state, its three        *)
(* queries as one, whatever else goes on.                                   *)
Tick ==
  /\ Len(toServer) + Len(toClient) < Room
  /\ Ask(<<Request("tick", Null, 0)>>)
  /\ UNCHANGED <<serverVars, toClient, clientVars>>

-----------------------------------------------------------------------------
Server ==
  \/ SubvolumeChanged
  \/ \E f \in Fs : SnapshotChanged(f) \/ StatusChanged(f) \/ MountChanged(f) \/ Destroyed(f)

Handle ==
  \/ OnEvent \/ OnError \/ OnTick \/ OnSubvolumes \/ OnFs \/ OnSnapshots \/ OnStrip \/ OnPanel

User == UserRefresh \/ AskRaw \/ \E f \in Fs : OpenFsStatus(f)

Next == Server \/ Serve \/ Refuse \/ Forward \/ Handle \/ User \/ Tick

Spec == Init /\ [][Next]_vars

(* The server polls the connection, the client its socket.                  *)
Fairness == WF_vars(Serve \/ Refuse) /\ WF_vars(Forward) /\ WF_vars(Handle)

FairSpec == Spec /\ Fairness

-----------------------------------------------------------------------------
TypeOK ==
  /\ mounted \subseteq {table[i] : i \in DOMAIN table}
  /\ <<changes, asked>> \in Budget /\ missed \subseteq {"fs", "subvolumes"}
  /\ Len(bus) <= changes
  /\ view.subvolumes \in 0..changes \cup {Null}
  /\ Len(pending) <= Cardinality(Fs)
  /\ panel \in Fs \cup {Null}

(* Nothing is under way but what a tick asked for.                          *)
Settled ==
  /\ bus = <<>>
  /\ \A q \in DOMAIN toServer : toServer[q].kind = "tick"
  /\ \A p \in DOMAIN toClient :
       "request" \in DOMAIN toClient[p] /\ toClient[p].request.kind = "tick"

(* When nothing is under way the client shows the server's filesystems, and *)
(* the strip of every mounted filesystem is its own and its current one,    *)
(* though replies of an earlier fan-out were taken for whatever stood at    *)
(* their position by then; and it shows the server's subvolumes.  Of each   *)
(* list this holds unless it was missed: an event was lost or a query was   *)
(* refused, or the subvolumes changed by a mount, an unmount, a destruction,*)
(* a clone or a rollback, and no later list has caught up.                  *)
SettledView ==
  Settled =>
    /\ "fs" \notin missed =>
         /\ view.fs = Listing
         /\ \A f \in mounted : view.strip[f] = <<f, version[<<f, "status">>]>>
    /\ "subvolumes" \notin missed => view.subvolumes = version[Subvolumes]

(* When nothing is under way the snapshots labelled with a mounted          *)
(* filesystem are its current ones, although a fan-out reuses the ids of    *)
(* the one before and only the first reply to an id counts: a reply that is *)
(* taken for another filesystem is always followed by one more fan-out,     *)
(* unless the event of it was lost or a query refused.                      *)
SettledSnapshots ==
  Settled /\ "fs" \notin missed =>
    \A f \in mounted :
      {s \in view.snapshots : s.label = f}
        = {[label |-> f, of |-> <<f, version[<<f, "snapshots">>]>>]}

(* Once the replies have come, the status panel shows its own filesystem:   *)
(* replies to an earlier panel that arrive late are overtaken, unless its   *)
(* own query failed - or, of the raw report, was not sent, since opening a  *)
(* panel sends none.                                                        *)
PanelOwn ==
  \A k \in Slots :
    Settled /\ slots[k].shows # Null =>
      \/ slots[k].shows[1] = panel
      \/ slots[k].stray /\ (slots[k].failed \/ ~slots[k].asked)

(* A refresh never feeds itself: when the changes stop, so does the traffic *)
(* but that of the ticks.                                                   *)
Quiesces == <>[]Settled
=============================================================================
