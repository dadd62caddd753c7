----------------------------- MODULE AuthProofs -----------------------------
(* Theorems about the authentication service, for every value of the        *)
(* constants of Auth: any number of request tasks, accounts, passwords,     *)
(* roles, sessions and API tokens, and any combination of faults.           *)
EXTENDS Auth, TLAPS, FiniteSetTheorems

(* The null values told apart from the values, one kind at a time.          *)
LEMMA Nulls ==
  /\ Absent \notin UserName
  /\ Absent \notin User
  /\ Absent \notin Session
  /\ Absent \notin AuthState
BY NullAssumption

(* The state of a first run has the shape of a saved state.                 *)
LEMMA FirstRunType == FirstRun \in AuthState /\ FirstRun.users[DefaultUser] # Absent
<1> DEFINE first == [role |-> Admin, pw |-> DefaultPassword, must |-> TRUE]
<1>1. first \in User
  BY NamesAssumption DEF User
<1> HIDE DEF first
<1>6. first # Absent
  BY <1>1, Nulls
<1>2. FirstRun.users = [u \in UserName |-> IF u = DefaultUser THEN first ELSE Absent]
  BY DEF FirstRun, first
<1>3. FirstRun.users \in [UserName -> User \cup {Absent}]
  BY <1>1, <1>2
<1>4. FirstRun \in [users: [UserName -> User \cup {Absent}], api: SUBSET ApiId]
  BY <1>3 DEF FirstRun
<1>5. FirstRun.users[DefaultUser] = first
  BY <1>2, NamesAssumption
<1> QED
  BY <1>4, <1>5, <1>6 DEF AuthState

(* What a boot loads from any file has the shape of a saved state.          *)
LEMMA LoadedType ==
  ASSUME TypeOK, NEW file \in Readable
  PROVE  Loaded(file) \in AuthState
BY FirstRunType DEF TypeOK, Readable, Loaded

(* The state is one that can be saved.                                      *)
LEMMA StateType == TypeOK => State \in AuthState
BY DEF TypeOK, State, AuthState

LEMMA InitType == Init => TypeOK
<1> SUFFICES ASSUME Init PROVE TypeOK
  OBVIOUS
<1>1. FirstRun.users \in [UserName -> User \cup {Absent}] /\ FirstRun.api \subseteq ApiId
  BY FirstRunType DEF AuthState
<1>2. NoRequest.op = "none"
  BY DEF NoRequest
<1>3. clock \in 0..MaxClock
  BY ClockAssumption DEF Init
<1> QED
  BY <1>1, <1>2, <1>3, FirstRunType DEF Init, TypeOK, Savers

(* A request overtaken is the same request but for its history mark.        *)
LEMMA OvertakenType ==
  ASSUME TypeOK, NEW u \in UserName \cup {Absent}, NEW q \in Proc
  PROVE  /\ Overtaken(u)[q] \in Request \cup {NoRequest}
         /\ Overtaken(u)[q].op = req[q].op
         /\ Overtaken(u)[q].user = req[q].user
         /\ Overtaken(u)[q] = NoRequest <=> req[q] = NoRequest
<1>1. req[q] \in Request \cup {NoRequest}
  BY DEF TypeOK
<1>2. CASE req[q].user = u /\ u # Absent
  <2>1. req[q] \in Request
    BY <1>1, <1>2 DEF NoRequest
  <2>2. Overtaken(u)[q] = [req[q] EXCEPT !.stale = TRUE]
    BY <1>2 DEF Overtaken
  <2>3. Overtaken(u)[q].user # NoRequest.user /\ req[q].user # NoRequest.user
    BY <1>2, <2>1, <2>2 DEF NoRequest, Request
  <2> QED
    BY <2>1, <2>2, <2>3 DEF Request
<1>3. CASE ~ (req[q].user = u /\ u # Absent)
  BY <1>1, <1>3 DEF Overtaken
<1> QED
  BY <1>2, <1>3

(* What every mutator does to the tasks, given what it does to the state.   *)
LEMMA WriteType ==
  ASSUME TypeOK, NEW p \in Proc, NEW op \in Mutators, NEW u \in UserName \cup {Absent},
         Write(p, op, u),
         users' \in [UserName -> User \cup {Absent}], api' \subseteq ApiId
  PROVE  TypeOK'
<1> DEFINE r == [op |-> op, user |-> u, stale |-> FALSE]
<1>1. r \in Request /\ r.op = op /\ r.op # "login" /\ r # NoRequest
  BY DEF Request, NoRequest, Mutators
<1> HIDE DEF r
<1>2. req' = [Overtaken(u) EXCEPT ![p] = r]
  BY DEF Write, r
<1>3. req' = [q \in Proc |-> IF q = p THEN r ELSE Overtaken(u)[q]]
  BY <1>2 DEF Overtaken
<1>4. /\ pc \in [Proc -> {"idle", "save", "saving", "sweep", "push"}]
      /\ pc[p] = "idle"
      /\ pc' = [pc EXCEPT ![p] = "save"]
      /\ UNCHANGED <<sessions, clock, disk, late, spoiled, lost, local>>
  BY DEF Write, TypeOK
<1>5. req' \in [Proc -> Request \cup {NoRequest}]
  BY <1>1, <1>3, OvertakenType
<1>6. Savers' = Savers
  BY <1>4 DEF Savers
<1>7. ASSUME NEW q \in Proc
      PROVE  /\ pc'[q] = "idle" <=> req'[q] = NoRequest
             /\ pc'[q] = "push" <=> req'[q].op = "login"
             /\ pc'[q] = "push" => local'[q] \in Session /\ local'[q].user = req'[q].user
             /\ pc'[q] = "saving" => local'[q] \in AuthState
             /\ pc'[q] = "sweep" => req'[q].op \in Sweepers
  <2>1. CASE q = p
    BY <1>1, <1>3, <1>4, <2>1 DEF Mutators
  <2>2. CASE q # p
    <3>1. req'[q] = Overtaken(u)[q] /\ pc'[q] = pc[q] /\ local'[q] = local[q]
      BY <1>3, <1>4, <2>2
    <3> QED
      BY <3>1, OvertakenType DEF TypeOK
  <2> QED
    BY <2>1, <2>2
<1> QED
  BY <1>4, <1>5, <1>6, <1>7 DEF TypeOK
-----------------------------------------------------------------------------
(* The facts of TypeOK about a single task.                                 *)
TaskOK(q) ==
  /\ pc[q] = "idle" <=> req[q] = NoRequest
  /\ pc[q] = "push" <=> req[q].op = "login"
  /\ pc[q] = "push" => local[q] \in Session /\ local[q].user = req[q].user
  /\ pc[q] = "saving" => local[q] \in AuthState
  /\ pc[q] = "sweep" => req[q].op \in Sweepers

(* The mutators.                                                            *)
LEMMA MutateType ==
  ASSUME TypeOK, NEW p \in Proc, Mutate(p)
  PROVE  TypeOK'
<1>1. ASSUME NEW u \in UserName, NEW pw \in Password, NEW r \in Role, CreateUser(p, u, pw, r)
      PROVE  TypeOK'
  <2>1. users' \in [UserName -> User \cup {Absent}] /\ api' \subseteq ApiId
    BY <1>1 DEF CreateUser, TypeOK, User
  <2> QED
    BY <1>1, <2>1, WriteType DEF CreateUser, Mutators
<1>2. ASSUME NEW actor \in UserName \cup {Absent}, NEW u \in UserName, DeleteUser(p, actor, u)
      PROVE  TypeOK'
  <2>1. users' \in [UserName -> User \cup {Absent}] /\ api' \subseteq ApiId
    BY <1>2 DEF DeleteUser, TypeOK
  <2> QED
    BY <1>2, <2>1, WriteType DEF DeleteUser, Mutators
<1>3. ASSUME NEW u \in UserName, NEW old \in Password, NEW new \in Password,
             ChangePassword(p, u, old, new)
      PROVE  TypeOK'
  <2>1. users' \in [UserName -> User \cup {Absent}] /\ api' \subseteq ApiId
    <3>1. users[u] \in User /\ new \in Password
      BY <1>3 DEF ChangePassword, Exists, TypeOK
    <3>2. users' = [users EXCEPT ![u] = [users[u] EXCEPT !.pw = new, !.must = FALSE]]
      BY <1>3 DEF ChangePassword, TypeOK
    <3>3. [users[u] EXCEPT !.pw = new, !.must = FALSE] \in User
      BY <3>1 DEF User
    <3> QED
      BY <1>3, <3>2, <3>3 DEF ChangePassword, TypeOK
  <2> QED
    BY <1>3, <2>1, WriteType DEF ChangePassword, Mutators
<1>4. ASSUME NEW u \in UserName, NEW new \in Password, AdminSetPassword(p, u, new)
      PROVE  TypeOK'
  <2>1. users' \in [UserName -> User \cup {Absent}] /\ api' \subseteq ApiId
    <3>1. users[u] \in User /\ new \in Password
      BY <1>4 DEF AdminSetPassword, Exists, TypeOK
    <3>2. users' = [users EXCEPT ![u] = [users[u] EXCEPT !.pw = new, !.must = TRUE]]
      BY <1>4 DEF AdminSetPassword, TypeOK
    <3>3. [users[u] EXCEPT !.pw = new, !.must = TRUE] \in User
      BY <3>1 DEF User
    <3> QED
      BY <1>4, <3>2, <3>3 DEF AdminSetPassword, TypeOK
  <2> QED
    BY <1>4, <2>1, WriteType DEF AdminSetPassword, Mutators
<1>5. ASSUME NEW id \in ApiId, CreateApiToken(p, id) \/ DeleteApiToken(p, id)
      PROVE  TypeOK'
  <2>1. users' \in [UserName -> User \cup {Absent}] /\ api' \subseteq ApiId
    BY <1>5 DEF CreateApiToken, DeleteApiToken, TypeOK
  <2> QED
    BY <1>5, <2>1, WriteType DEF CreateApiToken, DeleteApiToken, Mutators
<1> QED
  BY <1>1, <1>2, <1>3, <1>4, <1>5 DEF Mutate

(* Leaving save(): to the sweep, or to the end of the request.              *)
LEMMA LeaveSaveType ==
  ASSUME TypeOK, NEW p \in Proc, pc[p] = "saving", LeaveSave(p),
         disk' \in AuthState \cup {Missing, Torn}, lost' \in BOOLEAN,
         spoiled' \subseteq Savers \ {p}
  PROVE  TypeOK'
<1>1. Savers' = Savers \ {p}
  BY DEF LeaveSave, AfterSave, Savers, TypeOK
<1>2. NoRequest.op = "none" /\ Absent \notin Session
  BY Nulls DEF NoRequest
<1>3. ASSUME NEW q \in Proc PROVE TaskOK(q)'
  BY <1>2 DEF TypeOK, LeaveSave, AfterSave, TaskOK, Sweepers
<1>4. /\ pc' \in [Proc -> {"idle", "save", "saving", "sweep", "push"}]
      /\ req' \in [Proc -> Request \cup {NoRequest}]
      /\ local' \in [Proc -> Session \cup AuthState \cup {Absent}]
  BY DEF TypeOK, LeaveSave, AfterSave
<1> QED
  BY <1>1, <1>3, <1>4 DEF TypeOK, LeaveSave, TaskOK

(* The end of a request.                                                    *)
LEMMA FinishType ==
  ASSUME TypeOK, NEW p \in Proc, Finish(p),
         sessions' \in [Token -> Session \cup {Absent}],
         late' \subseteq AuthState, spoiled' \subseteq spoiled \ {p}, lost' \in BOOLEAN,
         UNCHANGED <<users, api, clock, disk>>
  PROVE  TypeOK'
<1>1. Savers' = Savers \ {p}
  BY DEF Finish, Savers, TypeOK
<1>2. NoRequest.op = "none" /\ Absent \notin Session
  BY Nulls DEF NoRequest
<1>3. ASSUME NEW q \in Proc PROVE TaskOK(q)'
  BY <1>2 DEF TypeOK, Finish, TaskOK, Sweepers
<1>4. /\ pc' \in [Proc -> {"idle", "save", "saving", "sweep", "push"}]
      /\ req' \in [Proc -> Request \cup {NoRequest}]
      /\ local' \in [Proc -> Session \cup AuthState \cup {Absent}]
  BY DEF TypeOK, Finish
<1> QED
  BY <1>1, <1>3, <1>4 DEF TypeOK, TaskOK

LEMMA SaveBeginType ==
  ASSUME TypeOK, NEW p \in Proc, SaveBegin(p)
  PROVE  TypeOK'
<1>1. Savers' = Savers \cup {p}
  BY DEF SaveBegin, Savers, TypeOK
<1>2. ASSUME NEW q \in Proc PROVE TaskOK(q)'
  BY StateType DEF TypeOK, SaveBegin, TaskOK
<1> QED
  BY <1>1, <1>2, StateType DEF TypeOK, SaveBegin, TaskOK

LEMMA SaveEndType ==
  ASSUME TypeOK, NEW p \in Proc, SaveEnd(p)
  PROVE  TypeOK'
<1>1. Outcomes(p) \subseteq AuthState \cup {Torn}
  BY DEF SaveEnd, Outcomes, TypeOK
<1>2. lost' \in BOOLEAN /\ spoiled' \subseteq Savers \ {p}
  BY DEF SaveEnd, TypeOK
<1> QED
  BY <1>1, <1>2, LeaveSaveType DEF SaveEnd

LEMMA SaveFailType ==
  ASSUME TypeOK, NEW p \in Proc, SaveFail(p)
  PROVE  TypeOK'
<1>1. disk' \in AuthState \cup {Missing, Torn} /\ lost' \in BOOLEAN
  BY DEF SaveFail, TypeOK
<1>2. spoiled' \subseteq Savers \ {p}
  BY DEF SaveFail, TypeOK
<1> QED
  BY <1>1, <1>2, LeaveSaveType DEF SaveFail

LEMMA StaleType ==
  ASSUME TypeOK, NEW p \in Proc
  PROVE  req[p].stale \in BOOLEAN
<1>1. req[p] \in Request \cup {NoRequest}
  BY DEF TypeOK
<1>2. \A r \in Request : r.stale \in BOOLEAN
  BY DEF Request
<1>3. NoRequest.stale = FALSE
  BY DEF NoRequest
<1> QED
  BY <1>1, <1>2, <1>3

(* A sweep leaves sessions, or nothing in their place.                      *)
LEMMA SweptType ==
  ASSUME TypeOK, NEW p \in Proc, NEW t \in Token
  PROVE  Swept(sessions[t], req[p]) \in Session \cup {Absent}
<1>1. CASE sessions[t] = Absent
  BY <1>1 DEF Swept
<1>2. CASE sessions[t] # Absent
  <2>1. sessions[t] \in Session /\ req[p].stale \in BOOLEAN
    BY <1>2, StaleType DEF TypeOK
  <2>2. Ungated(sessions[t], req[p].stale) \in Session
    BY <2>1 DEF Ungated, Session
  <2> QED
    BY <1>2, <2>1, <2>2 DEF Swept
<1> QED
  BY <1>1, <1>2

LEMMA SweepType ==
  ASSUME TypeOK, NEW p \in Proc, Sweep(p)
  PROVE  TypeOK'
<1>1. sessions' \in [Token -> Session \cup {Absent}]
  BY SweptType DEF Sweep
<1>2. spoiled' \subseteq spoiled \ {p}
  BY DEF Sweep, TypeOK, Savers
<1> QED
  BY <1>1, <1>2, FinishType DEF Sweep, TypeOK

LEMMA LoginVerifyType ==
  ASSUME TypeOK, NEW p \in Proc, NEW u \in UserName, NEW pw \in Password,
         LoginVerify(p, u, pw)
  PROVE  TypeOK'
<1> DEFINE s == [user |-> u, role |-> users[u].role, must |-> users[u].must,
                 created |-> clock, stale |-> FALSE]
           r == [op |-> "login", user |-> u, stale |-> FALSE]
<1>1. users[u] \in User /\ clock \in Nat
  BY ClockAssumption DEF LoginVerify, Exists, TypeOK
<1>2. s \in Session /\ s.user = u
  BY <1>1 DEF Session, User
<1>3. r \in Request /\ r # NoRequest /\ r.op = "login" /\ r.user = u
  BY DEF Request, NoRequest
<1>4. local' = [local EXCEPT ![p] = s] /\ req' = [req EXCEPT ![p] = r]
  BY DEF LoginVerify
<1> HIDE DEF s, r
<1>5. Savers' = Savers
  BY DEF LoginVerify, Savers, TypeOK
<1>6. ASSUME NEW q \in Proc PROVE TaskOK(q)'
  <2>1. CASE q = p
    <3>1. pc'[q] = "push" /\ req'[q] = r /\ local'[q] = s
      BY <1>4, <2>1 DEF TypeOK, LoginVerify
    <3> QED
      BY <1>2, <1>3, <3>1 DEF TaskOK
  <2>2. CASE q # p
    BY <1>4, <2>2 DEF TypeOK, LoginVerify, TaskOK
  <2> QED
    BY <2>1, <2>2
<1>7. pc' \in [Proc -> {"idle", "save", "saving", "sweep", "push"}]
  BY DEF TypeOK, LoginVerify
<1>8. req' \in [Proc -> Request \cup {NoRequest}]
  BY <1>3, <1>4 DEF TypeOK
<1>9. local' \in [Proc -> Session \cup AuthState \cup {Absent}]
  BY <1>2, <1>4 DEF TypeOK
<1> QED
  BY <1>5, <1>6, <1>7, <1>8, <1>9 DEF TypeOK, LoginVerify, TaskOK

LEMMA LoginPushType ==
  ASSUME TypeOK, NEW p \in Proc, NEW t \in Token, LoginPush(p, t)
  PROVE  TypeOK'
<1>1. local[p] \in Session /\ req[p].stale \in BOOLEAN
  BY StaleType DEF LoginPush, TypeOK
<1>2. [local[p] EXCEPT !.stale = req[p].stale] \in Session
  BY <1>1 DEF Session
<1>3. sessions' \in [Token -> Session \cup {Absent}]
  BY <1>2 DEF LoginPush, TypeOK
<1>4. spoiled' \subseteq spoiled \ {p}
  BY DEF LoginPush, TypeOK, Savers
<1> QED
  BY <1>3, <1>4, FinishType DEF LoginPush, TypeOK

LEMMA CancelType ==
  ASSUME TypeOK, NEW p \in Proc, Cancel(p)
  PROVE  TypeOK'
<1>1. sessions' \in [Token -> Session \cup {Absent}]
  <2>1. \A t \in Token : Live(t) => [sessions[t] EXCEPT !.stale = TRUE] \in Session
    <3>1. \A t \in Token : Live(t) => sessions[t] \in Session
      BY DEF TypeOK, Live
    <3> QED
      BY <3>1 DEF Session
  <2> QED
    BY <2>1 DEF Cancel, TypeOK
<1>2. late' \subseteq AuthState /\ lost' \in BOOLEAN
  BY DEF Cancel, TypeOK
<1>3. spoiled' \subseteq spoiled \ {p}
  BY DEF Cancel
<1> QED
  BY <1>1, <1>2, <1>3, FinishType DEF Cancel

LEMMA RestartType ==
  ASSUME TypeOK, NEW file \in Readable, Restart(file)
  PROVE  TypeOK'
<1>1. NoRequest.op = "none"
  BY DEF NoRequest
<1>2. /\ users' \in [UserName -> User \cup {Absent}]
      /\ api' \subseteq ApiId
      /\ disk' \in AuthState \cup {Missing, Torn}
      /\ lost' \in BOOLEAN
  BY LoadedType DEF Restart, Booted, AuthState, TypeOK
<1> QED
  BY <1>1, <1>2 DEF Restart, TypeOK, Savers

(* The steps of the clock, of validate and logout, and of abandoned writes. *)
LEMMA OtherType ==
  ASSUME TypeOK,
         \/ \E t \in Token : ValidateExpired(t) \/ Logout(t)
         \/ \E c \in 0..MaxClock : Tick(c)
         \/ \E s \in late : LateWrite(s)
         \/ UNCHANGED vars
  PROVE  TypeOK'
<1>1. Savers' = Savers
  BY DEF ValidateExpired, Logout, Tick, LateWrite, vars, Savers
<1>2. sessions' \in [Token -> Session \cup {Absent}] /\ clock' \in 0..MaxClock
  BY DEF ValidateExpired, Logout, Tick, LateWrite, vars, TypeOK
<1>3. disk' \in AuthState \cup {Missing, Torn} /\ late' \subseteq AuthState /\ lost' \in BOOLEAN
  BY DEF ValidateExpired, Logout, Tick, LateWrite, vars, TypeOK
<1>4. UNCHANGED <<users, api, spoiled, pc, req, local>>
  BY DEF ValidateExpired, Logout, Tick, LateWrite, vars
<1> QED
  BY <1>1, <1>2, <1>3, <1>4 DEF TypeOK

LEMMA StepType == TypeOK /\ [Next]_vars => TypeOK'
BY MutateType, SaveBeginType, SaveEndType, SaveFailType, SweepType, LoginVerifyType,
   LoginPushType, CancelType, RestartType, OtherType DEF Next, Continue

(* Every variable keeps its declared shape, and every request task is at a  *)
(* place its operation reaches.                                             *)
THEOREM TypeCorrect == Spec => []TypeOK
BY InitType, StepType, PTL DEF Spec

-----------------------------------------------------------------------------
(* Removing an account that is not the last administrator leaves one.       *)
LEMMA DeletionLeavesAdmin ==
  ASSUME TypeOK, NEW u \in UserName, Exists(u), ~LastAdmin(u), Admins(users) # {}
  PROVE  Admins([users EXCEPT ![u] = Absent]) # {}
<1> DEFINE after == Admins([users EXCEPT ![u] = Absent])
<1>1. after = Admins(users) \ {u}
  BY DEF Admins, TypeOK
<1>2. CASE users[u].role # Admin
  BY <1>1, <1>2 DEF Admins
<1>3. CASE users[u].role = Admin
  <2>1. IsFiniteSet(Admins(users))
    BY FiniteAssumption, FS_Subset DEF Admins
  <2>2. Cardinality(Admins(users)) \in Nat /\ ~ (Cardinality(Admins(users)) <= 1)
    BY <1>3, <2>1, FS_CardinalityType DEF LastAdmin
  <2>3. u \in Admins(users)
    BY <1>3 DEF Admins, Exists
  <2>4. Cardinality(Admins(users) \ {u}) = Cardinality(Admins(users)) - 1
    BY <2>1, <2>3, FS_RemoveElement
  <2>5. Cardinality(after) # 0
    <3>1. Cardinality(after) = Cardinality(Admins(users)) - 1
      BY <1>1, <2>4
    <3> HIDE DEF after
    <3> QED
      BY <2>2, <3>1
  <2> QED
    BY <2>5, FS_EmptySet
<1> QED
  BY <1>2, <1>3

LEMMA FirstRunAdmin == HasAdmin(FirstRun)
BY FirstRunType, NamesAssumption DEF FirstRun, HasAdmin, Admins

(* Every write of the state leaves an administrator in memory.              *)
LEMMA MutateAdmin ==
  ASSUME TypeOK, HasAdmin(State), NEW p \in Proc, Mutate(p)
  PROVE  HasAdmin(State')
<1> USE DEF HasAdmin, State
<1>1. ASSUME NEW u \in UserName, NEW pw \in Password, NEW r \in Role, CreateUser(p, u, pw, r)
      PROVE  Admins(users') # {}
  BY <1>1 DEF CreateUser, Exists, Admins, TypeOK
<1>2. ASSUME NEW actor \in UserName \cup {Absent}, NEW u \in UserName, DeleteUser(p, actor, u)
      PROVE  Admins(users') # {}
  BY <1>2, DeletionLeavesAdmin DEF DeleteUser
<1>3. ASSUME NEW u \in UserName, users[u] # Absent, NEW new, NEW m \in BOOLEAN,
             new \in Password, users' = [users EXCEPT ![u] = [users[u] EXCEPT !.pw = new, !.must = m]]
      PROVE  Admins(users') # {}
  <2>1. users[u] \in User
    BY <1>3 DEF TypeOK
  <2>2. [users[u] EXCEPT !.pw = new, !.must = m] \in User
    BY <1>3, <2>1 DEF User
  <2>3. users'[u] # Absent /\ users'[u].role = users[u].role
    BY <1>3, <2>1, <2>2, Nulls DEF TypeOK, User
  <2>4. \A v \in UserName : (users'[v] # Absent /\ users'[v].role = Admin)
                               <=> (users[v] # Absent /\ users[v].role = Admin)
    BY <1>3, <2>3 DEF TypeOK
  <2>5. Admins(users') = Admins(users)
    BY <2>4 DEF Admins
  <2> QED
    BY <2>5
<1>4. ASSUME NEW u \in UserName, NEW old \in Password, NEW new \in Password,
             ChangePassword(p, u, old, new)
      PROVE  Admins(users') # {}
  BY <1>3, <1>4 DEF ChangePassword, Exists, TypeOK
<1>5. ASSUME NEW u \in UserName, NEW new \in Password, AdminSetPassword(p, u, new)
      PROVE  Admins(users') # {}
  BY <1>3, <1>5 DEF AdminSetPassword, Exists, TypeOK
<1>6. ASSUME NEW id \in ApiId, CreateApiToken(p, id) \/ DeleteApiToken(p, id)
      PROVE  Admins(users') # {}
  BY <1>6 DEF CreateApiToken, DeleteApiToken
<1> QED
  BY <1>1, <1>2, <1>4, <1>5, <1>6 DEF Mutate

LEMMA StepAdmin == TypeOK /\ AdminExists /\ [Next]_vars => AdminExists'
<1> SUFFICES ASSUME TypeOK, AdminExists, [Next]_vars PROVE AdminExists'
  OBVIOUS
<1>1. ASSUME NEW p \in Proc, Mutate(p) PROVE AdminExists'
  <2>1. UNCHANGED <<disk, late, local>> /\ Savers' = Savers
    BY <1>1 DEF Mutate, CreateUser, DeleteUser, ChangePassword, AdminSetPassword,
                CreateApiToken, DeleteApiToken, Write, Savers, TypeOK
  <2> QED
    BY <1>1, <2>1, MutateAdmin DEF AdminExists
<1>2. ASSUME NEW p \in Proc, SaveBegin(p) PROVE AdminExists'
  BY <1>2 DEF AdminExists, SaveBegin, State, Savers, TypeOK, HasAdmin
<1>3. ASSUME NEW p \in Proc, SaveEnd(p) PROVE AdminExists'
  <2>1. \A q \in Savers' : q \in Savers /\ local'[q] = local[q]
    BY <1>3 DEF SaveEnd, LeaveSave, AfterSave, Savers, TypeOK
  <2>2. disk' \in AuthState => HasAdmin(disk')
    BY <1>3, NullAssumption DEF SaveEnd, Outcomes, AdminExists, Savers
  <2>3. UNCHANGED <<users, api, late>>
    BY <1>3 DEF SaveEnd, LeaveSave
  <2> QED
    BY <2>1, <2>2, <2>3 DEF AdminExists, State
<1>4. ASSUME NEW p \in Proc, SaveFail(p) PROVE AdminExists'
  <2>1. \A q \in Savers' : q \in Savers /\ local'[q] = local[q]
    BY <1>4 DEF SaveFail, LeaveSave, AfterSave, Savers, TypeOK
  <2> QED
    BY <1>4, <2>1 DEF AdminExists, State, SaveFail, LeaveSave
<1>5. ASSUME NEW p \in Proc, UNCHANGED <<users, api, disk>>, Finish(p),
             late' \subseteq late \cup (IF pc[p] = "saving" THEN {local[p]} ELSE {})
      PROVE  AdminExists'
  <2>1. \A q \in Savers' : q \in Savers /\ local'[q] = local[q]
    BY <1>5 DEF Finish, Savers, TypeOK
  <2> QED
    BY <1>5, <2>1 DEF AdminExists, State, Savers
<1>6. ASSUME NEW p \in Proc, Sweep(p) PROVE AdminExists'
  BY <1>5, <1>6 DEF Sweep
<1>7. ASSUME NEW p \in Proc, NEW t \in Token, LoginPush(p, t) PROVE AdminExists'
  BY <1>5, <1>7 DEF LoginPush
<1>8. ASSUME NEW p \in Proc, Cancel(p) PROVE AdminExists'
  BY <1>5, <1>8 DEF Cancel
<1>9. ASSUME NEW p \in Proc, NEW u \in UserName, NEW pw \in Password, LoginVerify(p, u, pw)
      PROVE  AdminExists'
  <2>1. \A q \in Savers' : q \in Savers /\ local'[q] = local[q]
    BY <1>9 DEF LoginVerify, Savers, TypeOK
  <2> QED
    BY <1>9, <2>1 DEF AdminExists, State, LoginVerify
<1>10. ASSUME NEW file \in Readable, Restart(file) PROVE AdminExists'
  <2>1. HasAdmin(Loaded(file)) /\ (disk \in AuthState => HasAdmin(disk))
    BY FirstRunAdmin DEF AdminExists, Loaded, Readable, TypeOK
  <2>2. State' = [users |-> Loaded(file).users, api |-> Loaded(file).api]
    BY <1>10 DEF Restart, State
  <2>3. disk' = Loaded(file) \/ disk' = disk
    BY <1>10 DEF Restart, Booted
  <2>4. late' = {} /\ Savers' = {}
    BY <1>10 DEF Restart, Savers
  <2> QED
    BY <2>1, <2>2, <2>3, <2>4 DEF AdminExists, HasAdmin
<1>11. ASSUME NEW s \in late, LateWrite(s) PROVE AdminExists'
  <2>1. UNCHANGED <<users, api, local>> /\ Savers' = Savers /\ late' \subseteq late
    BY <1>11 DEF LateWrite, Savers
  <2>2. disk' \in {s, Torn, disk}
    BY <1>11 DEF LateWrite
  <2> QED
    BY <1>11, <2>1, <2>2, NullAssumption DEF AdminExists, State
<1>12. CASE \/ \E t \in Token : ValidateExpired(t) \/ Logout(t)
            \/ \E c \in 0..MaxClock : Tick(c)
            \/ UNCHANGED vars
  BY <1>12 DEF ValidateExpired, Logout, Tick, vars, AdminExists, State, Savers
<1> QED
  BY <1>1, <1>2, <1>3, <1>4, <1>6, <1>7, <1>8, <1>9, <1>10, <1>11, <1>12 DEF Next, Continue

LEMMA InitAdmin == Init => AdminExists
BY FirstRunAdmin, NullAssumption DEF Init, AdminExists, State, HasAdmin, Savers

(* No order of requests, saves, faults and restarts leaves the box without  *)
(* an administrator, in memory or on disk.                                  *)
THEOREM AdminAlways == Spec => []AdminExists
BY InitType, StepType, InitAdmin, StepAdmin, PTL DEF Spec

-----------------------------------------------------------------------------
(* What the state file holds, for every value of the constants of Auth.      *)
(* A save that another's failure or abandonment disturbs is remembered.     *)
DiskInv ==
  /\ TypeOK
  /\ Durable
  /\ spoiled # {} \/ late # {} => lost

LEMMA MutateDisk ==
  ASSUME DiskInv, NEW p \in Proc, Mutate(p)
  PROVE  Durable' /\ (spoiled' # {} \/ late' # {} => lost') /\ disk' = disk
<1>1. /\ UNCHANGED <<disk, late, spoiled, lost, local>>
      /\ Savers = {} /\ pc' = [pc EXCEPT ![p] = "save"]
  BY DEF Mutate, CreateUser, DeleteUser, ChangePassword, AdminSetPassword,
         CreateApiToken, DeleteApiToken, Write, Writable
<1>2. Savers' = {} /\ pc'[p] = "save"
  BY <1>1 DEF DiskInv, TypeOK, Savers
<1> QED
  BY <1>1, <1>2 DEF DiskInv, Durable

LEMMA SaveBeginDisk ==
  ASSUME DiskInv, NEW p \in Proc, SaveBegin(p)
  PROVE  Durable' /\ (spoiled' # {} \/ late' # {} => lost') /\ disk' = disk
<1>1. State' = State /\ pc'[p] = "saving" /\ local'[p] = State
  BY DEF SaveBegin, DiskInv, TypeOK, State
<1>2. \A q \in Savers' : q = p \/ (q \in Savers /\ local'[q] = local[q])
  BY DEF SaveBegin, DiskInv, TypeOK, Savers
<1> QED
  BY <1>1, <1>2 DEF DiskInv, Durable, SaveBegin

(* Leaving the file protocol, with or without success.                      *)
LEMMA LeaveDisk ==
  ASSUME DiskInv, NEW p \in Proc, pc[p] = "saving", LeaveSave(p)
  PROVE  /\ State' = State
         /\ \A q \in Savers' : local'[q] = State'
         /\ \A q \in Proc : q # p => pc'[q] = pc[q]
<1>1. State' = State
  BY DEF LeaveSave, State
<1>2. \A q \in Proc : q # p => pc'[q] = pc[q] /\ local'[q] = local[q]
  BY DEF LeaveSave, DiskInv, TypeOK
<1>3. p \notin Savers'
  BY DEF LeaveSave, AfterSave, DiskInv, TypeOK, Savers
<1> QED
  BY <1>1, <1>2, <1>3 DEF DiskInv, Durable, Savers

LEMMA SaveEndDisk ==
  ASSUME DiskInv, NEW p \in Proc, SaveEnd(p)
  PROVE  /\ Durable' /\ (spoiled' # {} \/ late' # {} => lost')
         /\ late = {} => disk' \in {State', Torn}
<1>1. /\ pc[p] = "saving" /\ LeaveSave(p) /\ disk' \in Outcomes(p)
      /\ lost' = (lost /\ ~Undisturbed(p)) /\ spoiled' = spoiled \ {p} /\ late' = late
      /\ local[p] = State
  BY DEF SaveEnd, LeaveSave, DiskInv, Durable, Savers
<1>2. late = {} => disk' \in {State', Torn}
  BY <1>1, LeaveDisk DEF Outcomes
<1>3. ASSUME Undisturbed(p) PROVE spoiled = {} /\ late = {} /\ disk' = State
  BY <1>1, <1>3 DEF Undisturbed, Outcomes, DiskInv, TypeOK
<1>4. spoiled' # {} \/ late' # {} => lost'
  BY <1>1, <1>3 DEF DiskInv
<1>5. ASSUME ~lost', \A q \in Proc : pc'[q] \notin {"save", "saving"} PROVE disk' = State'
  <2>1. Savers \subseteq {p}
    BY <1>1, <1>5, LeaveDisk DEF Savers
  <2>2. Undisturbed(p) \/ spoiled # {} \/ late # {}
    BY <1>1, <2>1 DEF Undisturbed, Savers
  <2>3. Undisturbed(p)
    BY <1>1, <1>5, <2>2 DEF DiskInv
  <2> QED
    BY <1>1, <1>3, <2>3, LeaveDisk
<1> QED
  BY <1>1, <1>2, <1>4, <1>5, LeaveDisk DEF Durable

LEMMA SaveFailDisk ==
  ASSUME DiskInv, NEW p \in Proc, SaveFail(p)
  PROVE  Durable' /\ (spoiled' # {} \/ late' # {} => lost') /\ disk' = disk
BY LeaveDisk DEF SaveFail, Durable

(* The end of a request that is not, or is no longer, saving.               *)
LEMMA FinishDisk ==
  ASSUME DiskInv, NEW p \in Proc, Finish(p), UNCHANGED <<users, api, disk>>,
         lost' = (lost \/ pc[p] \in {"save", "saving"})
  PROVE  Durable'
<1>1. State' = State
  BY DEF State
<1>2. \A q \in Proc : q # p => pc'[q] = pc[q] /\ local'[q] = local[q]
  BY DEF Finish, DiskInv, TypeOK
<1>3. p \notin Savers'
  BY DEF Finish, DiskInv, TypeOK, Savers
<1>4. \A q \in Savers' : local'[q] = State'
  BY <1>1, <1>2, <1>3 DEF DiskInv, Durable, Savers
<1>5. ASSUME ~lost', \A q \in Proc : pc'[q] \notin {"save", "saving"} PROVE disk' = State'
  BY <1>1, <1>2, <1>5 DEF DiskInv, Durable
<1> QED
  BY <1>4, <1>5 DEF Durable

LEMMA RestartDisk ==
  ASSUME DiskInv, NEW file \in Readable, Restart(file)
  PROVE  /\ Durable' /\ (spoiled' # {} \/ late' # {} => lost')
         /\ disk' = disk \/ disk' = State'
<1>1. Loaded(file) \in AuthState
  BY LoadedType DEF DiskInv
<1>2. State' = Loaded(file)
  BY <1>1 DEF Restart, State, AuthState
<1>3. (disk' = State' /\ lost' = FALSE) \/ (disk' = disk /\ lost' = TRUE)
  BY <1>2 DEF Restart, Booted
<1>4. Savers' = {} /\ spoiled' = {} /\ late' = {}
  BY DEF Restart, Savers
<1> QED
  BY <1>3, <1>4 DEF Durable

(* One step: the invariant holds again, and the file has not gone back.     *)
LEMMA StepDisk ==
  ASSUME DiskInv, [Next]_vars
  PROVE  DiskInv' /\ (late = {} /\ disk' # disk => disk' \in {State', Torn})
<1>1. TypeOK'
  BY StepType DEF DiskInv
<1> DEFINE Goal == /\ Durable' /\ (spoiled' # {} \/ late' # {} => lost')
                   /\ late = {} /\ disk' # disk => disk' \in {State', Torn}
<1>2. ASSUME NEW p \in Proc, Mutate(p) \/ Continue(p) PROVE Goal
  <2>1. CASE Mutate(p)
    BY <2>1, MutateDisk
  <2>2. CASE SaveBegin(p)
    BY <2>2, SaveBeginDisk
  <2>3. CASE SaveEnd(p)
    BY <2>3, SaveEndDisk
  <2>4. CASE SaveFail(p)
    BY <2>4, SaveFailDisk
  <2>5. CASE Sweep(p) \/ \E t \in Token : LoginPush(p, t)
    BY <2>5, FinishDisk DEF Sweep, LoginPush, DiskInv, TypeOK
  <2> QED
    BY <1>2, <2>1, <2>2, <2>3, <2>4, <2>5 DEF Continue
<1>3. ASSUME NEW p \in Proc, Cancel(p) PROVE Goal
  <2>1. Durable' /\ disk' = disk
    BY <1>3, FinishDisk DEF Cancel
  <2>2. spoiled' \subseteq spoiled /\ (late' = late \/ lost') /\ (lost => lost')
    BY <1>3 DEF Cancel
  <2> QED
    BY <2>1, <2>2 DEF DiskInv
<1>4. ASSUME NEW p \in Proc, NEW u \in UserName, NEW pw \in Password, LoginVerify(p, u, pw)
      PROVE  Goal
  <2>1. State' = State /\ UNCHANGED <<disk, late, spoiled, lost>>
    BY <1>4 DEF LoginVerify, State
  <2>2. /\ \A q \in Proc : q # p => pc'[q] = pc[q] /\ local'[q] = local[q]
        /\ pc[p] = "idle" /\ pc'[p] = "push"
    BY <1>4 DEF LoginVerify, DiskInv, TypeOK
  <2> QED
    BY <2>1, <2>2 DEF DiskInv, Durable, Savers
<1>5. ASSUME NEW file \in Readable, Restart(file) PROVE Goal
  BY <1>5, RestartDisk
<1>6. ASSUME NEW s \in late, LateWrite(s) PROVE Goal
  <2>1. State' = State /\ Savers' = Savers /\ UNCHANGED local /\ lost' = TRUE
    BY <1>6 DEF LateWrite, State, Savers
  <2> QED
    BY <1>6, <2>1 DEF DiskInv, Durable
<1>7. ASSUME \/ \E t \in Token : ValidateExpired(t) \/ Logout(t)
             \/ \E c \in 0..MaxClock : Tick(c)
             \/ UNCHANGED vars
      PROVE  Goal
  <2>1. State' = State /\ Savers' = Savers /\ UNCHANGED <<disk, late, spoiled, lost, pc, local>>
    BY <1>7 DEF ValidateExpired, Logout, Tick, vars, State, Savers
  <2> QED
    BY <2>1 DEF DiskInv, Durable
<1>8. Goal
  BY <1>2, <1>3, <1>4, <1>5, <1>6, <1>7 DEF Next
<1> QED
  BY <1>1, <1>8 DEF DiskInv

LEMMA InitDisk == Init => DiskInv
<1> SUFFICES ASSUME Init PROVE DiskInv
  OBVIOUS
<1>1. State = FirstRun
  BY FirstRunType DEF Init, State, AuthState
<1>2. ~lost => disk = State
  BY <1>1 DEF Init
<1> QED
  BY <1>2, InitType DEF Init, DiskInv, Durable, Savers

(* Once every save is over the file holds the state, unless a fault took    *)
(* the last word away: two saves that share the .tmp file never leave a     *)
(* torn or an older file behind them.                                       *)
THEOREM DurableAlways == Spec => []Durable
<1>1. DiskInv => Durable
  BY DEF DiskInv
<1>2. DiskInv /\ [Next]_vars => DiskInv'
  BY StepDisk
<1> QED
  BY <1>1, <1>2, InitDisk, PTL DEF Spec

(* The file never goes back to an older state.                              *)
THEOREM DiskOnward == Spec => DiskNeverRegresses
<1>1. DiskInv /\ [Next]_vars => DiskInv'
  BY StepDisk
<1>2. DiskInv /\ [Next]_vars => [late = {} /\ disk' # disk => disk' \in {State', Torn}]_vars
  BY StepDisk
<1> QED
  BY <1>1, <1>2, InitDisk, PTL DEF Spec, DiskNeverRegresses
-----------------------------------------------------------------------------
(* Without an I/O error or a dropped request no save ever fails, and no     *)
(* abandoned write is outstanding.                                          *)
CrashOnly == Faults \subseteq {"crash"}

PromiseInv == DiskInv /\ late = {} /\ spoiled = {}

LEMMA NoFault ==
  ASSUME CrashOnly, PromiseInv, [Next]_vars
  PROVE  late' = {} /\ spoiled' = {}
<1>1. ASSUME NEW p \in Proc, Mutate(p) \/ Continue(p) PROVE late' = {} /\ spoiled' = {}
  BY <1>1
  DEF CrashOnly, PromiseInv, Continue, SaveBegin, SaveEnd, SaveFail, LeaveSave, Sweep, LoginPush,
         Mutate, CreateUser, DeleteUser, ChangePassword, AdminSetPassword,
         CreateApiToken, DeleteApiToken, Write
<1>2. ~ \E p \in Proc : Cancel(p)
  BY DEF CrashOnly, Cancel
<1>3. ASSUME NEW p \in Proc, NEW u \in UserName, NEW pw \in Password, LoginVerify(p, u, pw)
      PROVE  late' = {} /\ spoiled' = {}
  BY <1>3 DEF PromiseInv, LoginVerify
<1>4. ASSUME NEW file \in Readable, Restart(file) PROVE late' = {} /\ spoiled' = {}
  BY <1>4 DEF Restart
<1>5. ASSUME \/ \E t \in Token : ValidateExpired(t) \/ Logout(t)
             \/ \E c \in 0..MaxClock : Tick(c)
             \/ UNCHANGED vars
      PROVE  late' = {} /\ spoiled' = {}
  BY <1>5 DEF ValidateExpired, Logout, Tick, vars, PromiseInv
<1> QED
  BY <1>1, <1>2, <1>3, <1>4, <1>5 DEF Next, PromiseInv

(* A step that touches neither the state nor the file nor the saves.        *)
LEMMA OffFile ==
  ASSUME UNCHANGED <<State, disk, Savers>>
  PROVE  [Persistence!FileNext]_(Persistence!fileVars)
BY DEF Persistence!fileVars

(* A request that is not saving begins, or ends.                            *)
LEMMA NotSaving ==
  ASSUME DiskInv, NEW p \in Proc, pc[p] # "saving", NEW l, l # "saving",
         pc' = [pc EXCEPT ![p] = l]
  PROVE  Savers' = Savers
BY DEF DiskInv, TypeOK, Savers

LEMMA SaveEndPromise ==
  ASSUME PromiseInv, NEW p \in Proc, SaveEnd(p)
  PROVE  Persistence!EndSave
<1>1. /\ pc[p] = "saving" /\ LeaveSave(p) /\ disk' \in Outcomes(p) /\ local[p] = State
      /\ State' = State
  BY LeaveDisk DEF SaveEnd, PromiseInv, DiskInv, Durable, Savers
<1>2. p \in Savers /\ Savers' = Savers \ {p}
  BY <1>1 DEF LeaveSave, AfterSave, PromiseInv, DiskInv, TypeOK, Savers
<1>3. disk' = State \/ (Savers' # {} /\ disk' = Torn)
  BY <1>1, <1>2 DEF Outcomes, PromiseInv, Undisturbed
<1> QED
  BY <1>1, <1>2, <1>3 DEF Persistence!EndSave

LEMMA StepPromise ==
  ASSUME CrashOnly, PromiseInv, [Next]_vars
  PROVE  [Persistence!FileNext]_(Persistence!fileVars)
<1> DEFINE Goal == [Persistence!FileNext]_(Persistence!fileVars)
<1>1. ASSUME NEW p \in Proc, Mutate(p) PROVE Goal
  <2>1. Savers = {} /\ disk' = disk /\ pc[p] = "idle" /\ pc' = [pc EXCEPT ![p] = "save"]
    BY <1>1, MutateDisk
       DEF PromiseInv, Mutate, CreateUser, DeleteUser, ChangePassword, AdminSetPassword,
           CreateApiToken, DeleteApiToken, Write, Writable
  <2>2. Savers' = Savers
    BY <2>1, NotSaving DEF PromiseInv
  <2> QED
    BY <2>1, <2>2 DEF Persistence!FileNext, Persistence!Change
<1>2. ASSUME NEW p \in Proc, SaveBegin(p) PROVE Goal
  <2>1. p \notin Savers /\ Savers' = Savers \cup {p}
    BY <1>2 DEF SaveBegin, PromiseInv, DiskInv, TypeOK, Savers
  <2>2. State' = State /\ disk' = disk
    BY <1>2 DEF SaveBegin, State
  <2> QED
    BY <2>1, <2>2 DEF Persistence!FileNext, Persistence!BeginSave
<1>3. ASSUME NEW p \in Proc, SaveEnd(p) PROVE Goal
  BY <1>3, SaveEndPromise DEF Persistence!FileNext
<1>4. ASSUME NEW p \in Proc, Sweep(p) \/ \E t \in Token : LoginPush(p, t) PROVE Goal
  <2>1. State' = State /\ disk' = disk /\ pc[p] # "saving" /\ pc' = [pc EXCEPT ![p] = "idle"]
    BY <1>4 DEF Sweep, LoginPush, Finish, State
  <2> QED
    BY <2>1, NotSaving, OffFile DEF PromiseInv
<1>5. ASSUME NEW p \in Proc, NEW u \in UserName, NEW pw \in Password, LoginVerify(p, u, pw)
      PROVE  Goal
  <2>1. State' = State /\ disk' = disk /\ pc[p] # "saving" /\ pc' = [pc EXCEPT ![p] = "push"]
    BY <1>5 DEF LoginVerify, State
  <2> QED
    BY <2>1, NotSaving, OffFile DEF PromiseInv
<1>6. ASSUME NEW file \in Readable, Restart(file) PROVE Goal
  <2>1. file = disk
    BY DEF CrashOnly, Readable
  <2>2. Loaded(file) \in AuthState
    BY LoadedType DEF PromiseInv, DiskInv
  <2>3. State' = Loaded(disk) /\ Savers' = {}
    BY <1>6, <2>1, <2>2 DEF Restart, State, AuthState, Savers
  <2>4. disk' = State'
    BY <1>6, <2>1, <2>3 DEF Restart, Booted, CrashOnly
  <2> QED
    BY <2>3, <2>4 DEF Persistence!FileNext, Persistence!Reboot, Persistence!BootSave
<1>7. ASSUME \/ \E t \in Token : ValidateExpired(t) \/ Logout(t)
             \/ \E c \in 0..MaxClock : Tick(c)
             \/ UNCHANGED vars
      PROVE  Goal
  <2>1. State' = State /\ disk' = disk /\ Savers' = Savers
    BY <1>7 DEF ValidateExpired, Logout, Tick, vars, State, Savers
  <2> QED
    BY <2>1, OffFile
<1>8. /\ \A p \in Proc : ~SaveFail(p) /\ ~Cancel(p)
      /\ late = {}
  BY DEF CrashOnly, SaveFail, Cancel, PromiseInv
<1> QED
  BY <1>1, <1>2, <1>3, <1>4, <1>5, <1>6, <1>7, <1>8 DEF Next, Continue

LEMMA InitPromise ==
  ASSUME CrashOnly, Init
  PROVE  PromiseInv /\ Persistence!FileInit
<1>1. disk = State /\ Savers = {}
  BY FirstRunType DEF Init, State, AuthState, CrashOnly, Savers
<1> QED
  BY <1>1, InitDisk DEF Init, PromiseInv, Persistence!FileInit, Persistence!BootSave

(* The service keeps the promise of its state file through any order of     *)
(* concurrent requests, saves and crashes.                                  *)
THEOREM PromiseKept == ASSUME CrashOnly PROVE Spec => KeepsPromise
<1>1. Init => PromiseInv /\ Persistence!FileInit
  BY InitPromise
<1>2. PromiseInv /\ [Next]_vars => PromiseInv'
  <2> SUFFICES ASSUME PromiseInv, [Next]_vars PROVE PromiseInv'
    OBVIOUS
  <2> QED
    BY StepDisk, NoFault DEF PromiseInv
<1>3. PromiseInv /\ [Next]_vars => [Persistence!FileNext]_(Persistence!fileVars)
  BY StepPromise
<1> QED
  BY <1>1, <1>2, <1>3, PTL DEF Spec, KeepsPromise, Persistence!FileSpec
=============================================================================
