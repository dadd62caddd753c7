-------------------------------- MODULE Auth --------------------------------
(***************************************************************************)
(* The authentication service (src/src/auth.rs): accounts and API tokens   *)
(* kept in memory behind one RwLock and persisted to a JSON file, login    *)
(* sessions kept in memory behind another, and request tasks that touch    *)
(* the two locks and the file one after the other.                         *)
(*                                                                         *)
(* A request is atomic between two awaits.  Every mutator is               *)
(*   idle --(write the state)--> save --(read guard)--> saving             *)
(*        --(rename)--> sweep --(rewrite the sessions)--> idle             *)
(* and a login is  idle --(verify)--> push --(push the session)--> idle.   *)
(* save() keeps the read guard until the rename is done, so the state      *)
(* cannot be written while any task is in "saving".                        *)
(*                                                                         *)
(* How a save reaches the disk through the shared .tmp file is             *)
(* abstracted to its outcomes here.                                        *)
(***************************************************************************)
EXTENDS Naturals, FiniteSets

CONSTANTS
  Proc,             \* the request tasks
  UserName,         \* the account names used
  DefaultUser,      \* "admin", created on the first run
  Role,             \* the roles an account is created with
  Admin,            \* the administrator role
  Password,         \* the passwords used
  DefaultPassword,  \* the password of the default account
  LongPassword,     \* the passwords of at least 8 characters
  Token,            \* session tokens: the bound on sessions alive at once
  ApiId,            \* identities of API tokens
  TTL,              \* SESSION_TTL_SECS
  MaxClock,         \* the bound on the wall clock
  MaxLate,          \* the bound on abandoned writes outstanding at once
  Faults,           \* what may go wrong: a subset of {"io", "cancel", "crash"}
  Absent,           \* no such account, session or local value
  Missing,          \* the state file does not exist
  Torn              \* the state file exists and does not parse

ASSUME NamesAssumption ==
  /\ DefaultUser \in UserName
  /\ Admin \in Role
  /\ DefaultPassword \in Password
  /\ LongPassword \subseteq Password
  /\ Faults \subseteq {"io", "cancel", "crash"}

ASSUME FiniteAssumption == IsFiniteSet(UserName)

ASSUME ClockAssumption == TTL \in Nat /\ MaxClock \in Nat

VARIABLES
  users,      \* AuthState.users, by name
  api,        \* AuthState.api_tokens, by id
  sessions,   \* AuthService.sessions, by token
  clock,      \* now()
  disk,       \* the content of nastty-auth.json
  late,       \* history: contents that writes of abandoned saves may still put there
  spoiled,    \* the savers whose .tmp a failed write of another has truncated
  lost,       \* history: the last word on disk may have been lost to a fault
  pc,         \* where each request task is
  req,        \* the operation it performs
  local       \* the session it will push, or the text it is saving

vars == <<users, api, sessions, clock, disk, late, spoiled, lost, pc, req, local>>

-----------------------------------------------------------------------------
User == [role: Role, pw: Password, must: BOOLEAN]

AuthState == [users: [UserName -> User \cup {Absent}], api: SUBSET ApiId]

(* "stale" is history, not code: the session was pushed, or un-gated, by a  *)
(* request that another write to the same account had overtaken.            *)
Session == [user: UserName, role: Role, must: BOOLEAN, created: Nat, stale: BOOLEAN]

Mutators == {"create_user", "delete_user", "change_password", "admin_set_password",
             "create_api_token", "delete_api_token"}

(* The operations that rewrite the session table, and those that empty it.  *)
Sweepers == {"change_password", "delete_user", "admin_set_password"}
Revokers == {"delete_user", "admin_set_password"}

(* "stale" is history here too: the account was written again since this    *)
(* request read or wrote it.                                                *)
Request == [op: Mutators \cup {"login"}, user: UserName \cup {Absent}, stale: BOOLEAN]

NoRequest == [op |-> "none", user |-> Absent, stale |-> FALSE]

(* The null values are none of the values they stand in for.                *)
ASSUME NullAssumption ==
  /\ Absent \notin UserName \cup User \cup Session \cup AuthState
  /\ Absent \notin [user: UserName, role: Role, must: BOOLEAN]
  /\ Missing \notin AuthState
  /\ Torn \notin AuthState

State == [users |-> users, api |-> api]

Exists(u) == users[u] # Absent

Live(t) == sessions[t] # Absent

Admins(us) == {u \in UserName : us[u] # Absent /\ us[u].role = Admin}

Savers == {p \in Proc : pc[p] = "saving"}

(* Mutation: save() clones the state and drops its read guard at once.      *)
WritableDuringSaves == TRUE

(* The state's write lock is free: writes are atomic here, so only the read *)
(* guards that saves hold can keep a writer waiting.                        *)
Writable == Savers = {}

(* now().saturating_sub(created_at)                                         *)
Age(s) == IF clock >= s.created THEN clock - s.created ELSE 0

Expired(s) == Age(s) > TTL

-----------------------------------------------------------------------------
(* The state of a first run: the default administrator, who must change     *)
(* the password, and nobody else.                                           *)
FirstRun ==
  [users |-> [u \in UserName |->
                IF u = DefaultUser
                THEN [role |-> Admin, pw |-> DefaultPassword, must |-> TRUE]
                ELSE Absent],
   api   |-> {}]

(* AuthService::new(): what a boot makes of the file it finds.              *)
Loaded(file) == IF file \in {Missing, Torn} THEN FirstRun ELSE file

(* The boot saves what it loaded and ignores a failure.                     *)
Booted(st, file) ==
  \/ disk' = st /\ lost' = FALSE
  \/ "io" \in Faults /\ disk' = file /\ lost' = TRUE

Init ==
  /\ users = FirstRun.users
  /\ api = FirstRun.api
  /\ sessions = [t \in Token |-> Absent]
  /\ clock = 0
  /\ disk \in {FirstRun} \cup (IF "io" \in Faults THEN {Missing} ELSE {})
  /\ late = {}
  /\ spoiled = {}
  /\ lost = (disk = Missing)
  /\ pc = [p \in Proc |-> "idle"]
  /\ req = [p \in Proc |-> NoRequest]
  /\ local = [p \in Proc |-> Absent]

-----------------------------------------------------------------------------
(* Every request about account u that is still running has been overtaken.  *)
Overtaken(u) ==
  [q \in Proc |-> IF req[q].user = u /\ u # Absent
                  THEN [req[q] EXCEPT !.stale = TRUE]
                  ELSE req[q]]

(* Mutation: a deletion or a reset is not saved.                            *)
WriteSavingSome(p, op, u) ==
  /\ pc[p] = "idle"
  /\ Writable
  /\ pc' = [pc EXCEPT ![p] = IF op \in Revokers THEN "sweep" ELSE "save"]
  /\ req' = [Overtaken(u) EXCEPT ![p] = [op |-> op, user |-> u, stale |-> FALSE]]
  /\ UNCHANGED <<sessions, clock, disk, late, spoiled, lost, local>>

(* What every mutator does first: write the state under the write lock,     *)
(* release it, and go on to save().                                         *)
Write(p, op, u) ==
  /\ pc[p] = "idle"
  /\ Writable
  /\ pc' = [pc EXCEPT ![p] = "save"]
  /\ req' = [Overtaken(u) EXCEPT ![p] = [op |-> op, user |-> u, stale |-> FALSE]]
  /\ UNCHANGED <<sessions, clock, disk, late, spoiled, lost, local>>

(* create_user: the name is new and the password long enough.  The caller   *)
(* chose that password, so no change is forced.                             *)
CreateUser(p, u, pw, role) ==
  /\ pw \in LongPassword
  /\ ~Exists(u)
  /\ users' = [users EXCEPT ![u] = [role |-> role, pw |-> pw, must |-> FALSE]]
  /\ UNCHANGED api
  /\ Write(p, "create_user", u)

(* Mutation: the count that protects the last administrator is off by one.  *)
LastAdminOffByOne(u) == users[u].role = Admin /\ Cardinality(Admins(users)) < 1

LastAdmin(u) == users[u].role = Admin /\ Cardinality(Admins(users)) <= 1

(* delete_user by an actor, an account name or (Absent) an API token: not   *)
(* oneself, and not the last administrator.                                 *)
DeleteUser(p, actor, u) ==
  /\ actor # u
  /\ Exists(u)
  /\ ~LastAdmin(u)
  /\ users' = [users EXCEPT ![u] = Absent]
  /\ UNCHANGED api
  /\ Write(p, "delete_user", u)

(* change_password: one's own, knowing the old one.                         *)
ChangePassword(p, u, old, new) ==
  /\ new \in LongPassword
  /\ Exists(u)
  /\ users[u].pw = old
  /\ users' = [users EXCEPT ![u].pw = new, ![u].must = FALSE]
  /\ UNCHANGED api
  /\ Write(p, "change_password", u)

(* admin_set_password: somebody else's, who must then change it.            *)
AdminSetPassword(p, u, new) ==
  /\ new \in LongPassword
  /\ Exists(u)
  /\ users' = [users EXCEPT ![u].pw = new, ![u].must = TRUE]
  /\ UNCHANGED api
  /\ Write(p, "admin_set_password", u)

CreateApiToken(p, id) ==
  /\ id \notin api
  /\ api' = api \cup {id}
  /\ UNCHANGED users
  /\ Write(p, "create_api_token", Absent)

DeleteApiToken(p, id) ==
  /\ id \in api
  /\ api' = api \ {id}
  /\ UNCHANGED users
  /\ Write(p, "delete_api_token", Absent)

-----------------------------------------------------------------------------
(* save(): take the read guard and serialise.                               *)
SaveBegin(p) ==
  /\ pc[p] = "save"
  /\ pc' = [pc EXCEPT ![p] = "saving"]
  /\ local' = [local EXCEPT ![p] = State]
  /\ UNCHANGED <<users, api, sessions, clock, disk, late, spoiled, lost, req>>

(* No other task has had its hand on the shared .tmp since p opened it.     *)
Undisturbed(p) == Savers = {p} /\ late = {} /\ p \notin spoiled

(* What p's rename may leave in the file: its own text; or, when others use *)
(* the same .tmp, a file one of them has truncated and not (yet) written,   *)
(* or what an abandoned save wrote there.                                   *)
Outcomes(p) == {local[p]} \cup late \cup (IF Undisturbed(p) THEN {} ELSE {Torn})

(* Mutation: every mutator goes on to the sweep.                            *)
AfterSaveSweeps(p) == "sweep"

AfterSave(p) == IF req[p].op \in Sweepers THEN "sweep" ELSE "idle"

(* The request leaves save(), and is done unless it sweeps the sessions.    *)
LeaveSave(p) ==
  /\ pc' = [pc EXCEPT ![p] = AfterSave(p)]
  /\ req' = [req EXCEPT ![p] = IF AfterSave(p) = "idle" THEN NoRequest ELSE @]
  /\ local' = [local EXCEPT ![p] = Absent]
  /\ UNCHANGED <<users, api, sessions, clock, late>>

(* The write and the rename are done, and the read guard is released.       *)
SaveEnd(p) ==
  /\ pc[p] = "saving"
  /\ disk' \in Outcomes(p)
  /\ lost' = (lost /\ ~Undisturbed(p))
  /\ spoiled' = spoiled \ {p}
  /\ LeaveSave(p)

(* Mutation: a save that failed is tried again until it works.              *)
SaveFailRetries(p) ==
  /\ "io" \in Faults
  /\ pc[p] = "saving"
  /\ lost' = TRUE
  /\ spoiled' = (spoiled \cup Savers) \ {p}
  /\ pc' = [pc EXCEPT ![p] = "save"]
  /\ UNCHANGED <<users, api, sessions, clock, disk, late, req, local>>

(* The file could not be written: a warning, and the request goes on.       *)
SaveFail(p) ==
  /\ "io" \in Faults
  /\ pc[p] = "saving"
  /\ lost' = TRUE
  /\ spoiled' = (spoiled \cup Savers) \ {p}
  /\ UNCHANGED disk
  /\ LeaveSave(p)

-----------------------------------------------------------------------------
Finish(p) ==
  /\ pc' = [pc EXCEPT ![p] = "idle"]
  /\ req' = [req EXCEPT ![p] = NoRequest]
  /\ local' = [local EXCEPT ![p] = Absent]

(* Mutation: a change of password gives the user's sessions the gate that   *)
(* the account has by then.                                                 *)
UngatedAsAccount(s, stale) ==
  [s EXCEPT !.must = Exists(s.user) /\ users[s.user].must, !.stale = @ \/ stale]

(* A change of password lifts the gate from the user's sessions.            *)
Ungated(s, stale) ==
  [s EXCEPT !.must = FALSE, !.stale = @ \/ (stale /\ s.must)]

(* Mutation: the sessions of a deleted user are not revoked.                *)
SweptUnlessDeleted(s, r) ==
  CASE s = Absent          -> Absent
    [] s # Absent /\ s.user # r.user -> s
    [] s # Absent /\ s.user = r.user /\ r.op = "admin_set_password" -> Absent
    [] OTHER               -> Ungated(s, r.stale)

(* Mutation: a deletion or a reset revokes the sessions of everybody.       *)
SweptForAll(s, r) ==
  CASE s = Absent          -> Absent
    [] s # Absent /\ r.op \in Revokers -> Absent
    [] s # Absent /\ r.op \notin Revokers /\ s.user # r.user -> s
    [] OTHER               -> Ungated(s, r.stale)

(* A session's fate when the request r sweeps the table.                    *)
Swept(s, r) ==
  CASE s = Absent          -> Absent
    [] s # Absent /\ s.user # r.user -> s
    [] s # Absent /\ s.user = r.user /\ r.op \in Revokers -> Absent
    [] OTHER               -> Ungated(s, r.stale)

(* The end of change_password, delete_user and admin_set_password.          *)
Sweep(p) ==
  /\ pc[p] = "sweep"
  /\ sessions' = [t \in Token |-> Swept(sessions[t], req[p])]
  /\ Finish(p)
  /\ UNCHANGED <<users, api, clock, disk, late, spoiled, lost>>

(* The bound on sessions: every login that has verified will find a token.  *)
TokenLeft ==
  Cardinality({t \in Token : ~Live(t)}) > Cardinality({q \in Proc : pc[q] = "push"})

(* login, first half: under the state's read lock, check the password and   *)
(* copy the role and the gate.                                              *)
LoginVerify(p, u, pw) ==
  /\ pc[p] = "idle"
  /\ TokenLeft
  /\ Exists(u)
  /\ users[u].pw = pw
  /\ pc' = [pc EXCEPT ![p] = "push"]
  /\ req' = [req EXCEPT ![p] = [op |-> "login", user |-> u, stale |-> FALSE]]
  /\ local' = [local EXCEPT ![p] =
                [user |-> u, role |-> users[u].role, must |-> users[u].must,
                 created |-> clock, stale |-> FALSE]]
  /\ UNCHANGED <<users, api, sessions, clock, disk, late, spoiled, lost>>

(* login, second half: push the session under the sessions' write lock.     *)
LoginPush(p, t) ==
  /\ pc[p] = "push"
  /\ ~Live(t)
  /\ sessions' = [sessions EXCEPT ![t] = [local[p] EXCEPT !.stale = req[p].stale]]
  /\ Finish(p)
  /\ UNCHANGED <<users, api, clock, disk, late, spoiled, lost>>

(* validate removes the session it finds expired, and changes nothing else. *)
ValidateExpired(t) ==
  /\ Live(t)
  /\ Expired(sessions[t])
  /\ sessions' = [sessions EXCEPT ![t] = Absent]
  /\ UNCHANGED <<users, api, clock, disk, late, spoiled, lost, pc, req, local>>

Logout(t) ==
  /\ Live(t)
  /\ sessions' = [sessions EXCEPT ![t] = Absent]
  /\ UNCHANGED <<users, api, clock, disk, late, spoiled, lost, pc, req, local>>

-----------------------------------------------------------------------------
(* The environment.  The wall clock runs, and may be set back.              *)
Tick(c) ==
  /\ c # clock
  /\ clock' = c
  /\ UNCHANGED <<users, api, sessions, disk, late, spoiled, lost, pc, req, local>>

(* A REST client hangs up and its handler is dropped at an await: nothing   *)
(* that is left of the request happens, except that a file write already    *)
(* handed to the blocking pool still takes place, at any later time.  The   *)
(* sessions that a dropped sweep leaves behind are excused from here on.    *)
Cancel(p) ==
  /\ "cancel" \in Faults
  /\ pc[p] # "idle"
  /\ pc[p] = "saving" => Cardinality(late) < MaxLate
  /\ late' = IF pc[p] = "saving" THEN late \cup {local[p]} ELSE late
  /\ lost' = (lost \/ pc[p] \in {"save", "saving"})
  /\ sessions' = [t \in Token |->
       IF Live(t) /\ req[p].op \in Sweepers /\ sessions[t].user = req[p].user
       THEN [sessions[t] EXCEPT !.stale = TRUE]
       ELSE sessions[t]]
  /\ spoiled' = spoiled \ {p}
  /\ Finish(p)
  /\ UNCHANGED <<users, api, clock, disk>>

LateWrite(s) ==
  /\ disk' \in {s, Torn, disk}
  /\ late' = late \ {s}
  /\ lost' = TRUE
  /\ UNCHANGED <<users, api, sessions, clock, spoiled, pc, req, local>>

(* The server stops at any point and boots again from what the file holds.  *)
(* A file that cannot be read counts as a missing one.                      *)
Restart(file) ==
  /\ "crash" \in Faults
  /\ users' = Loaded(file).users
  /\ api' = Loaded(file).api
  /\ Booted(Loaded(file), disk)
  /\ sessions' = [t \in Token |-> Absent]
  /\ late' = {}
  /\ spoiled' = {}
  /\ pc' = [p \in Proc |-> "idle"]
  /\ req' = [p \in Proc |-> NoRequest]
  /\ local' = [p \in Proc |-> Absent]
  /\ UNCHANGED clock

Readable == {disk} \cup (IF "io" \in Faults THEN {Missing} ELSE {})

-----------------------------------------------------------------------------
Mutate(p) ==
  \/ \E u \in UserName, pw \in Password, r \in Role : CreateUser(p, u, pw, r)
  \/ \E actor \in UserName \cup {Absent}, u \in UserName : DeleteUser(p, actor, u)
  \/ \E u \in UserName, old, new \in Password : ChangePassword(p, u, old, new)
  \/ \E u \in UserName, new \in Password : AdminSetPassword(p, u, new)
  \/ \E id \in ApiId : CreateApiToken(p, id)
  \/ \E id \in ApiId : DeleteApiToken(p, id)

(* The steps by which a request that has begun comes to its end.  An I/O    *)
(* error ends a save as well as a rename does.                              *)
Continue(p) ==
  \/ SaveBegin(p)
  \/ SaveEnd(p)
  \/ SaveFail(p)
  \/ Sweep(p)
  \/ \E t \in Token : LoginPush(p, t)

Next ==
  \/ \E p \in Proc : Mutate(p)
  \/ \E p \in Proc : Continue(p)
  \/ \E p \in Proc, u \in UserName, pw \in Password : LoginVerify(p, u, pw)
  \/ \E t \in Token : ValidateExpired(t) \/ Logout(t)
  \/ \E c \in 0..MaxClock : Tick(c)
  \/ \E p \in Proc : Cancel(p)
  \/ \E s \in late : LateWrite(s)
  \/ \E file \in Readable : Restart(file)

Spec == Init /\ [][Next]_vars

(* The runtime keeps polling a task it has started, and no step of a        *)
(* request waits for anything but a lock that others hold for one step.     *)
Fairness == \A p \in Proc : WF_vars(Continue(p))

FairSpec == Spec /\ Fairness
-----------------------------------------------------------------------------
(* Every variable keeps the shape the declarations in auth.rs give it.      *)
TypeOK ==
  /\ users \in [UserName -> User \cup {Absent}]
  /\ api \subseteq ApiId
  /\ sessions \in [Token -> Session \cup {Absent}]
  /\ clock \in 0..MaxClock
  /\ disk \in AuthState \cup {Missing, Torn}
  /\ late \subseteq AuthState
  /\ spoiled \subseteq Savers
  /\ lost \in BOOLEAN
  /\ pc \in [Proc -> {"idle", "save", "saving", "sweep", "push"}]
  /\ req \in [Proc -> Request \cup {NoRequest}]
  /\ local \in [Proc -> Session \cup AuthState \cup {Absent}]
  /\ \A p \in Proc :
       /\ pc[p] = "idle" <=> req[p] = NoRequest
       /\ pc[p] = "push" <=> req[p].op = "login"
       /\ pc[p] = "push" => local[p] \in Session /\ local[p].user = req[p].user
       /\ pc[p] = "saving" => local[p] \in AuthState
       /\ pc[p] = "sweep" => req[p].op \in Sweepers

HasAdmin(st) == Admins(st.users) # {}

(* An administrator exists in memory, in the file whenever the file parses, *)
(* and in everything a save may still put there: no order of deletions,     *)
(* saves, faults and restarts bricks the box (auth.rs:460).                 *)
AdminExists ==
  /\ HasAdmin(State)
  /\ disk \in AuthState => HasAdmin(disk)
  /\ \A s \in late : HasAdmin(s)
  /\ \A p \in Savers : HasAdmin(local[p])

(* A request about account u that has yet to rewrite the session table.     *)
Sweeping(u, ops) ==
  \E p \in Proc : pc[p] \in {"save", "saving", "sweep"} /\ req[p].op \in ops /\ req[p].user = u

(* The disagreements of a session with its account that some request is     *)
(* about to settle: no account or another role, until the deletion revokes  *)
(* the session; the gate open while the account demands a change, until the *)
(* reset revokes it; the gate still shut after a change of password, until  *)
(* the session is revoked or its gate opened.                               *)
Follows(s) ==
  LET u == s.user
  IN /\ ~Exists(u) => Sweeping(u, {"delete_user"})
     /\ Exists(u) =>
          /\ users[u].role # s.role => Sweeping(u, {"delete_user"})
          /\ users[u].must /\ ~s.must => Sweeping(u, {"admin_set_password"})
          /\ ~users[u].must /\ s.must => Sweeping(u, Sweepers)

(* The session table follows the accounts: a session agrees with its        *)
(* account, or a request that settles the disagreement is on its way.  The  *)
(* sessions of overtaken and abandoned requests are the only exceptions.    *)
SessionsFollowAccounts ==
  \A t \in Token : Live(t) /\ ~sessions[t].stale => Follows(sessions[t])

(* While a save is under way its text is the state: nobody writes the state *)
(* behind the read guard.  Once every save is over the file holds the       *)
(* state, unless a fault took the last word away; in particular what two    *)
(* concurrent saves tear, the last of them mends.                           *)
Durable ==
  /\ \A p \in Savers : local[p] = State
  /\ ~lost /\ (\A p \in Proc : pc[p] \notin {"save", "saving"}) => disk = State

(* The file never goes back to an older state: whatever replaces its        *)
(* content is the state of that moment, or is torn.  Only the write of an   *)
(* abandoned save can break this.                                           *)
DiskNeverRegresses == [][late = {} /\ disk' # disk => disk' \in {State', Torn}]_vars

(* Save, sweep and boot together keep the promise of SavedFile, as long as   *)
(* nothing worse than a crash happens.                                      *)
Persistence == INSTANCE SavedFile WITH
  Task <- Proc, Recovered <- Loaded,
  state <- State, file <- disk, savers <- Savers, trusted <- TRUE

KeepsPromise == Persistence!FileSpec

(* To those who hold tokens the session table is what SessionTable says,    *)
(* under every fault: only gates are lifted, and nothing else of a live     *)
(* session ever changes, whatever becomes of its account.  A token is free  *)
(* again here when its session is over.                                     *)
Outside(s) == [user |-> s.user, role |-> s.role, must |-> s.must]

Held == [t \in Token |-> IF Live(t) THEN Outside(sessions[t]) ELSE Absent]

Table == INSTANCE SessionTable WITH
  User <- UserName, Unissued <- Absent, Null <- Absent, held <- Held

KeepsTable == Table!TableSpec

(* A request that no other has overtaken revokes the sessions of an account *)
(* for a cause that still stands: the account is gone, or must change its   *)
(* password.  Nobody is logged out by somebody else's deletion or reset, or *)
(* by a change of password.                                                 *)
RevokedForCause ==
  [][\A p \in Proc : pc[p] = "sweep" /\ pc'[p] = "idle" /\ ~req[p].stale =>
       \/ \A t \in Token : Live(t) /\ ~Live(t)' =>
            LET u == sessions[t].user IN Exists(u) => users[u].must
       \/ \E file \in Readable : Restart(file)]_vars

(* Every request comes to an end, whatever others do and even when nothing  *)
(* can be written (auth.rs:376: persistence failure is non-fatal).          *)
RequestsEnd == \A p \in Proc : pc[p] # "idle" ~> pc[p] = "idle"

(* What the comments of auth.rs promise, without the exceptions.            *)
(* "Revoke every session the deleted user had" (auth.rs:473): once no       *)
(* deletion is under way, no session belongs to a deleted account.          *)
DeletedUsersHaveNoSession ==
  \A t \in Token : Live(t) /\ ~Sweeping(sessions[t].user, {"delete_user"}) =>
    Exists(sessions[t].user)

(* "forces a change on their next login, and revokes their sessions"        *)
(* (auth.rs:482-483): once no reset is under way, every session of an       *)
(* account that must change its password is gated.                          *)
ResetForcesChange ==
  \A t \in Token :
    LET u == sessions[t].user
    IN Live(t) /\ ~Sweeping(u, {"admin_set_password"}) =>
         (Exists(u) /\ users[u].must => sessions[t].must)
=============================================================================
