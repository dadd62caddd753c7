------------------------- MODULE AuthSessionProofs -------------------------
(* The session table follows the accounts, for every value of the constants *)
(* of Auth.  The invariant is not inductive by itself: a sweep that opens    *)
(* the gate, and a login that pushes what it copied earlier, are right only  *)
(* because the account has not been written in between.                      *)
EXTENDS AuthProofs

Pending == {"save", "saving", "sweep"}

(* A login that nobody has overtaken still carries what its account says.   *)
DraftsCurrent ==
  \A p \in Proc : pc[p] = "push" /\ ~req[p].stale =>
    LET u == req[p].user
    IN /\ Exists(u)
       /\ users[u].role = local[p].role
       /\ users[u].must = local[p].must

(* What a request that nobody has overtaken wrote still stands: no change   *)
(* of password is due after a change, and after a deletion or a reset the   *)
(* account is gone or must change its password.                             *)
ChangesCurrent ==
  \A p \in Proc : req[p].op \in Sweepers /\ ~req[p].stale =>
    LET u == req[p].user
    IN /\ u \in UserName
       /\ req[p].op = "change_password" => Exists(u) /\ ~users[u].must
       /\ req[p].op \in Revokers /\ Exists(u) => users[u].must

SessionInv == TypeOK /\ SessionsFollowAccounts /\ DraftsCurrent /\ ChangesCurrent

-----------------------------------------------------------------------------
(* The requests that are yet to sweep u's sessions remain so.               *)
Kept(u, ops) ==
  \A q \in Proc : pc[q] \in Pending /\ req[q].op \in ops /\ req[q].user = u =>
    pc'[q] \in Pending /\ req'[q].op = req[q].op /\ req'[q].user = req[q].user

(* The three kinds of request a session of u may be waiting for.            *)
KeptAll(u) == Kept(u, {"delete_user"}) /\ Kept(u, {"admin_set_password"}) /\ Kept(u, Sweepers)

LEMMA KeptSweeping ==
  ASSUME NEW u, NEW ops, Kept(u, ops), Sweeping(u, ops)
  PROVE  Sweeping(u, ops)'
BY DEF Kept, Sweeping, Pending

StillSwept(u) ==
  /\ Sweeping(u, {"delete_user"}) => Sweeping(u, {"delete_user"})'
  /\ Sweeping(u, {"admin_set_password"}) => Sweeping(u, {"admin_set_password"})'
  /\ Sweeping(u, Sweepers) => Sweeping(u, Sweepers)'

(* A session of an account that the step leaves alone goes on following it. *)
LEMMA FollowsKept ==
  ASSUME NEW s, Follows(s), users' = users, KeptAll(s.user)
  PROVE  Follows(s)'
<1>1. StillSwept(s.user)
  BY KeptSweeping DEF KeptAll, StillSwept
<1> QED
  BY <1>1 DEF Follows, Exists, StillSwept

(* The invariant, and its next value, in terms of a session s that does not *)
(* change.                                                                  *)
LEMMA FollowsIntro ==
  ASSUME \A t \in Token : \A s : sessions'[t] = s /\ s # Absent /\ ~s.stale => Follows(s)'
  PROVE  SessionsFollowAccounts'
<1>1. ASSUME NEW t \in Token, Live(t)', ~sessions'[t].stale
      PROVE  Follows(sessions[t])'
  <2>1. PICK s : s = sessions'[t]
    OBVIOUS
  <2>2. Follows(s)'
    BY <1>1, <2>1 DEF Live
  <2> QED
    BY <2>1, <2>2 DEF Follows
<1> QED
  BY <1>1 DEF SessionsFollowAccounts

LEMMA FollowsElim ==
  ASSUME SessionsFollowAccounts, NEW t \in Token, NEW s, sessions[t] = s, s # Absent, ~s.stale
  PROVE  Follows(s)
BY DEF SessionsFollowAccounts, Live

(* A step that changes no account, no session and no operation under way.   *)
LEMMA QuietStep ==
  ASSUME SessionInv, users' = users,
         \A u, ops : ops \subseteq Sweepers => Kept(u, ops),
         \A t \in Token : Live(t)' /\ ~sessions'[t].stale => sessions'[t] = sessions[t]
  PROVE  SessionsFollowAccounts'
<1>1. ASSUME NEW t \in Token, NEW s, sessions'[t] = s, s # Absent, ~s.stale
      PROVE  Follows(s)'
  <2>1. sessions[t] = s
    BY <1>1 DEF Live
  <2>2. Follows(s)
    BY <1>1, <2>1, FollowsElim DEF SessionInv
  <2>3. KeptAll(s.user)
    BY DEF KeptAll, Sweepers
  <2> QED
    BY <2>2, <2>3, FollowsKept
<1> QED
  BY <1>1, FollowsIntro

-----------------------------------------------------------------------------
(* The mutators: a write of account u leaves a sweep of u behind it, marks   *)
(* the other requests about u overtaken, and touches no other account.       *)
LEMMA WriteSession ==
  ASSUME SessionInv, NEW p \in Proc, NEW op \in Mutators, NEW u \in UserName \cup {Absent},
         Write(p, op, u),
         users' \in [UserName -> User \cup {Absent}],
         \A v \in UserName : v # u => users'[v] = users[v],
         \/ op \in Sweepers \/ users' = users
         \/ u \in UserName /\ ~Exists(u) /\ ~users'[u].must,
         op = "change_password" => u \in UserName /\ users'[u] # Absent /\ ~users'[u].must
                                   /\ Exists(u) /\ users'[u].role = users[u].role,
         op = "delete_user" => u \in UserName /\ users'[u] = Absent,
         op = "admin_set_password" => u \in UserName /\ users'[u] # Absent /\ users'[u].must
                                      /\ Exists(u) /\ users'[u].role = users[u].role
  PROVE  SessionsFollowAccounts' /\ DraftsCurrent' /\ ChangesCurrent'
<1> DEFINE r == [op |-> op, user |-> u, stale |-> FALSE]
<1>1. TypeOK /\ Absent \notin UserName
  BY Nulls DEF SessionInv
<1>2. /\ req'[p] = r /\ pc'[p] = "save" /\ pc[p] = "idle" /\ req[p] = NoRequest
      /\ \A q \in Proc : q # p => req'[q] = Overtaken(u)[q] /\ pc'[q] = pc[q]
      /\ UNCHANGED <<sessions, local>>
  BY <1>1 DEF Write, Overtaken, TypeOK
<1>3. r.op = op /\ r.user = u /\ r.stale = FALSE /\ NoRequest.op = "none"
  BY DEF NoRequest
<1> HIDE DEF r
<1>4. ASSUME NEW q \in Proc, q # p
      PROVE  /\ req'[q].op = req[q].op /\ req'[q].user = req[q].user
             /\ ~req'[q].stale => ~req[q].stale /\ (req[q].user = u => u = Absent)
  <2>1. req[q] \in Request \cup {NoRequest}
    BY <1>1 DEF TypeOK
  <2>2. CASE req[q].user = u /\ u # Absent
    <3>1. req[q] \in Request
      BY <2>1, <2>2 DEF NoRequest
    <3>2. req'[q] = [req[q] EXCEPT !.stale = TRUE]
      BY <1>2, <1>4, <2>2 DEF Overtaken
    <3> QED
      BY <3>1, <3>2 DEF Request
  <2>3. CASE ~ (req[q].user = u /\ u # Absent)
    BY <1>2, <1>4, <2>3 DEF Overtaken
  <2> QED
    BY <2>2, <2>3
<1>5. ASSUME NEW v, NEW ops, "none" \notin ops PROVE Kept(v, ops)
  BY <1>2, <1>3, <1>4, <1>5 DEF Kept, Pending
<1>6. SessionsFollowAccounts'
  <2>1. ASSUME NEW t \in Token, NEW s, sessions'[t] = s, s # Absent, ~s.stale
        PROVE  Follows(s)'
    <3>1. sessions[t] = s /\ s \in Session
      BY <1>1, <1>2, <2>1 DEF TypeOK
    <3>2. Follows(s) /\ s.user \in UserName
      BY <2>1, <3>1, FollowsElim DEF SessionInv, Session
    <3>3. KeptAll(s.user)
      BY <1>5 DEF KeptAll, Sweepers
    <3>4. StillSwept(s.user)
      BY <3>3, KeptSweeping DEF KeptAll, StillSwept
    <3>5. CASE users'[s.user] = users[s.user]
      BY <3>2, <3>4, <3>5 DEF Follows, Exists, StillSwept
    <3>6. CASE s.user = u /\ op \in Sweepers
      <4>1. Sweeping(u, {op})' /\ Sweeping(u, Sweepers)'
        BY <1>2, <1>3, <3>6 DEF Sweeping
      <4>2. CASE op = "delete_user"
        BY <3>6, <4>1, <4>2 DEF Follows, Exists
      <4>3. CASE op = "admin_set_password"
        BY <3>2, <3>4, <3>6, <4>1, <4>3 DEF Follows, Exists, StillSwept
      <4>4. CASE op = "change_password"
        BY <3>2, <3>4, <3>6, <4>1, <4>4 DEF Follows, Exists, StillSwept
      <4> QED
        BY <3>6, <4>2, <4>3, <4>4 DEF Sweepers
    <3>7. CASE s.user = u /\ ~Exists(u) /\ ~users'[u].must
      <4>1. Sweeping(u, {"delete_user"})'
        BY <3>2, <3>4, <3>7 DEF Follows, StillSwept
      <4>2. Sweeping(u, Sweepers)'
        BY <4>1 DEF Sweeping, Sweepers
      <4> QED
        BY <3>7, <4>1, <4>2 DEF Follows
    <3> QED
      BY <3>2, <3>5, <3>6, <3>7
  <2> QED
    BY <2>1, FollowsIntro
<1>7. DraftsCurrent'
  <2>1. ASSUME NEW q \in Proc, pc'[q] = "push", ~req'[q].stale
        PROVE  /\ users'[req'[q].user] # Absent
               /\ users'[req'[q].user].role = local'[q].role
               /\ users'[req'[q].user].must = local'[q].must
    <3>1. q # p /\ pc[q] = "push"
      BY <1>2, <2>1
    <3>2. req[q].user \in UserName
      BY <1>1, <3>1 DEF TypeOK, Session
    <3>3. ~req[q].stale /\ req'[q].user = req[q].user /\ req[q].user # u
      BY <1>1, <1>4, <2>1, <3>1, <3>2
    <3>4. users'[req[q].user] = users[req[q].user]
      BY <3>2, <3>3
    <3> QED
      BY <1>2, <3>1, <3>3, <3>4 DEF SessionInv, DraftsCurrent, Exists
  <2> QED
    BY <2>1 DEF DraftsCurrent, Exists
<1>8. ChangesCurrent'
  <2>1. ASSUME NEW q \in Proc, req'[q].op \in Sweepers, ~req'[q].stale
        PROVE  LET v == req'[q].user
               IN /\ v \in UserName
                  /\ req'[q].op = "change_password" => users'[v] # Absent /\ ~users'[v].must
                  /\ req'[q].op \in Revokers /\ users'[v] # Absent => users'[v].must
    <3>1. CASE q = p
      BY <1>2, <1>3, <2>1, <3>1 DEF Sweepers, Revokers
    <3>2. CASE q # p
      <4>1. ~req[q].stale /\ req'[q].user = req[q].user /\ req'[q].op = req[q].op
            /\ (req[q].user = u => u = Absent)
        BY <1>4, <2>1, <3>2
      <4>2. /\ req[q].user \in UserName
            /\ req[q].op = "change_password" => Exists(req[q].user) /\ ~users[req[q].user].must
            /\ req[q].op \in Revokers /\ Exists(req[q].user) => users[req[q].user].must
        BY <2>1, <4>1 DEF SessionInv, ChangesCurrent
      <4>3. users'[req[q].user] = users[req[q].user]
        BY <1>1, <4>1, <4>2
      <4> QED
        BY <4>1, <4>2, <4>3 DEF Exists
    <3> QED
      BY <3>1, <3>2
  <2> QED
    BY <2>1 DEF ChangesCurrent, Exists
<1> QED
  BY <1>6, <1>7, <1>8

LEMMA MutateSession ==
  ASSUME SessionInv, NEW p \in Proc, Mutate(p)
  PROVE  SessionsFollowAccounts' /\ DraftsCurrent' /\ ChangesCurrent'
<1>1. TypeOK /\ TypeOK'
  BY MutateType DEF SessionInv
<1>2. users' \in [UserName -> User \cup {Absent}]
  BY <1>1 DEF TypeOK
<1>3. ASSUME NEW u \in UserName, NEW pw \in Password, NEW r \in Role, CreateUser(p, u, pw, r)
      PROVE  SessionsFollowAccounts' /\ DraftsCurrent' /\ ChangesCurrent'
  <2>1. \A v \in UserName : v # u => users'[v] = users[v]
    BY <1>1, <1>3 DEF CreateUser, TypeOK
  <2> QED
    BY <1>2, <1>3, <2>1, WriteSession DEF CreateUser, Mutators, Revokers
<1>4. ASSUME NEW actor \in UserName \cup {Absent}, NEW u \in UserName, DeleteUser(p, actor, u)
      PROVE  SessionsFollowAccounts' /\ DraftsCurrent' /\ ChangesCurrent'
  <2>1. \A v \in UserName : v # u => users'[v] = users[v]
    BY <1>1, <1>4 DEF DeleteUser, TypeOK
  <2>2. users'[u] = Absent
    BY <1>1, <1>4 DEF DeleteUser, TypeOK
  <2> QED
    BY <1>2, <1>4, <2>1, <2>2, WriteSession DEF DeleteUser, Mutators, Sweepers
<1>5. ASSUME NEW u \in UserName, NEW old \in Password, NEW new \in Password,
             ChangePassword(p, u, old, new)
      PROVE  SessionsFollowAccounts' /\ DraftsCurrent' /\ ChangesCurrent'
  <2>1. \A v \in UserName : v # u => users'[v] = users[v]
    BY <1>1, <1>5 DEF ChangePassword, TypeOK
  <2>2. users[u] \in User /\ users' = [users EXCEPT ![u] = [users[u] EXCEPT !.pw = new, !.must = FALSE]]
    BY <1>1, <1>5 DEF ChangePassword, Exists, TypeOK
  <2>3. users'[u] = [users[u] EXCEPT !.pw = new, !.must = FALSE]
    BY <1>1, <2>2 DEF TypeOK
  <2>4. [users[u] EXCEPT !.pw = new, !.must = FALSE] \in User
    BY <1>5, <2>2 DEF User
  <2>5. users'[u] # Absent /\ ~users'[u].must /\ users'[u].role = users[u].role
    BY <2>2, <2>3, <2>4, Nulls DEF User
  <2> QED
    BY <1>2, <1>5, <2>1, <2>5, WriteSession DEF ChangePassword, Mutators, Sweepers, Revokers
<1>6. ASSUME NEW u \in UserName, NEW new \in Password, AdminSetPassword(p, u, new)
      PROVE  SessionsFollowAccounts' /\ DraftsCurrent' /\ ChangesCurrent'
  <2>1. \A v \in UserName : v # u => users'[v] = users[v]
    BY <1>1, <1>6 DEF AdminSetPassword, TypeOK
  <2>2. users[u] \in User /\ users'[u] = [users[u] EXCEPT !.pw = new, !.must = TRUE]
    BY <1>1, <1>6 DEF AdminSetPassword, Exists, TypeOK
  <2>3. [users[u] EXCEPT !.pw = new, !.must = TRUE] \in User
    BY <1>6, <2>2 DEF User
  <2>4. users'[u] # Absent /\ users'[u].must /\ users'[u].role = users[u].role
    BY <2>2, <2>3, Nulls DEF User
  <2>5. Exists(u) /\ Write(p, "admin_set_password", u)
    BY <1>6 DEF AdminSetPassword
  <2> QED
    BY <1>2, <2>1, <2>4, <2>5, WriteSession DEF Mutators, Sweepers
<1>7. ASSUME NEW id \in ApiId, CreateApiToken(p, id) \/ DeleteApiToken(p, id)
      PROVE  SessionsFollowAccounts' /\ DraftsCurrent' /\ ChangesCurrent'
  <2>1. users' = users
    BY <1>7 DEF CreateApiToken, DeleteApiToken
  <2> QED
    BY <1>2, <1>7, <2>1, WriteSession DEF CreateApiToken, DeleteApiToken, Mutators, Revokers
<1> QED
  BY <1>3, <1>4, <1>5, <1>6, <1>7 DEF Mutate

(* Going through save(): the accounts, the sessions and what each request   *)
(* is about stay as they are, and a request that has to sweep still has to. *)
LEMMA SaveSession ==
  ASSUME SessionInv, NEW p \in Proc, SaveBegin(p) \/ SaveEnd(p) \/ SaveFail(p)
  PROVE  SessionsFollowAccounts' /\ DraftsCurrent' /\ ChangesCurrent'
<1>1. TypeOK /\ NoRequest.op = "none" /\ NoRequest.user = Absent
  BY DEF SessionInv, NoRequest
<1>2. UNCHANGED <<users, sessions>> /\ pc[p] \in {"save", "saving"}
  BY DEF SaveBegin, SaveEnd, SaveFail, LeaveSave
<1>3. \A q \in Proc : q # p => pc'[q] = pc[q] /\ req'[q] = req[q] /\ local'[q] = local[q]
  BY <1>1 DEF SaveBegin, SaveEnd, SaveFail, LeaveSave, TypeOK
<1>4. \/ req'[p] = req[p] /\ pc'[p] \in {"saving", "sweep"}
      \/ req'[p] = NoRequest /\ pc'[p] = "idle" /\ req[p].op \notin Sweepers
  BY <1>1 DEF SaveBegin, SaveEnd, SaveFail, LeaveSave, AfterSave, TypeOK
<1>5. SessionsFollowAccounts'
  <2>1. \A u, ops : ops \subseteq Sweepers => Kept(u, ops)
    BY <1>3, <1>4 DEF Kept, Pending
  <2> QED
    BY <1>2, <2>1, QuietStep
<1>6. DraftsCurrent'
  BY <1>2, <1>3, <1>4 DEF SessionInv, DraftsCurrent, Exists
<1>7. ChangesCurrent'
  BY <1>1, <1>2, <1>3, <1>4 DEF SessionInv, ChangesCurrent, Exists, Sweepers
<1> QED
  BY <1>5, <1>6, <1>7

(* The end of a request: its own facts go, the others' remain.              *)
LEMMA FinishSession ==
  ASSUME SessionInv, NEW p \in Proc, Finish(p), UNCHANGED users
  PROVE  /\ DraftsCurrent' /\ ChangesCurrent'
         /\ \A u, ops : ops \subseteq Sweepers /\ ~ (pc[p] \in Pending /\ req[p].user = u /\ req[p].op \in ops)
               => Kept(u, ops)
<1>1. TypeOK /\ NoRequest.op = "none"
  BY DEF SessionInv, NoRequest
<1>2. \A q \in Proc : q # p => pc'[q] = pc[q] /\ req'[q] = req[q] /\ local'[q] = local[q]
  BY <1>1 DEF Finish, TypeOK
<1>3. pc'[p] = "idle" /\ req'[p] = NoRequest
  BY <1>1 DEF Finish, TypeOK
<1>4. DraftsCurrent'
  BY <1>2, <1>3 DEF SessionInv, DraftsCurrent, Exists
<1>5. ChangesCurrent'
  BY <1>1, <1>2, <1>3 DEF SessionInv, ChangesCurrent, Exists, Sweepers
<1> QED
  BY <1>2, <1>4, <1>5 DEF Kept

LEMMA SweepSession ==
  ASSUME SessionInv, NEW p \in Proc, Sweep(p)
  PROVE  SessionsFollowAccounts' /\ DraftsCurrent' /\ ChangesCurrent'
<1>1. TypeOK /\ Finish(p) /\ UNCHANGED users /\ req[p].op \in Sweepers
  BY DEF SessionInv, Sweep, TypeOK
<1>2. ASSUME NEW t \in Token, NEW s, sessions'[t] = s, s # Absent, ~s.stale
      PROVE  Follows(s)'
  <2>1. PICK z : z = sessions[t]
    OBVIOUS
  <2>2. PICK r : r = req[p]
    OBVIOUS
  <2>3. s = Swept(z, r) /\ r.op \in Sweepers
    BY <1>1, <1>2, <2>1, <2>2 DEF Sweep
  <2>4. z # Absent /\ z \in Session
    BY <1>1, <1>2, <2>1, <2>3 DEF Swept, TypeOK
  <2>5. CASE z.user # r.user
    <3>1. s = z
      BY <2>3, <2>4, <2>5 DEF Swept
    <3>2. Follows(s)
      BY <1>2, <2>1, <3>1, FollowsElim DEF SessionInv
    <3>3. KeptAll(s.user)
      BY <1>1, <2>2, <2>5, <3>1, FinishSession DEF KeptAll, Sweepers
    <3> QED
      BY <1>1, <3>2, <3>3, FollowsKept
  <2>6. CASE z.user = r.user
    <3>1. r.op = "change_password" /\ s = Ungated(z, r.stale)
      BY <1>2, <2>3, <2>4, <2>6 DEF Swept, Sweepers, Revokers
    <3>2. s.user = z.user /\ s.role = z.role /\ ~s.must /\ ~z.stale /\ (z.must => ~r.stale)
      BY <1>2, <2>4, <3>1 DEF Ungated, Session
    <3>3. Follows(z)
      BY <2>1, <2>4, <3>2, FollowsElim DEF SessionInv
    <3>4. Kept(z.user, {"delete_user"}) /\ Kept(z.user, {"admin_set_password"})
      BY <1>1, <2>2, <3>1, FinishSession DEF Sweepers
    <3>5. /\ Sweeping(z.user, {"delete_user"}) => Sweeping(z.user, {"delete_user"})'
          /\ Sweeping(z.user, {"admin_set_password"}) => Sweeping(z.user, {"admin_set_password"})'
      BY <3>4, KeptSweeping
    <3>6. ~r.stale => ~users[z.user].must
      BY <2>2, <2>6, <3>1 DEF SessionInv, ChangesCurrent, Sweepers
    <3> QED
      BY <1>1, <3>2, <3>3, <3>5, <3>6 DEF Follows, Exists
  <2> QED
    BY <2>5, <2>6
<1>3. SessionsFollowAccounts'
  BY <1>2, FollowsIntro
<1> QED
  BY <1>1, <1>3, FinishSession

LEMMA VerifySession ==
  ASSUME SessionInv, NEW p \in Proc, NEW u \in UserName, NEW pw \in Password,
         LoginVerify(p, u, pw)
  PROVE  SessionsFollowAccounts' /\ DraftsCurrent' /\ ChangesCurrent'
<1>1. TypeOK /\ pc[p] = "idle" /\ UNCHANGED <<users, sessions>> /\ Exists(u)
  BY DEF SessionInv, LoginVerify
<1>2. \A q \in Proc : q # p => pc'[q] = pc[q] /\ req'[q] = req[q] /\ local'[q] = local[q]
  BY <1>1 DEF LoginVerify, TypeOK
<1>3. /\ req'[p].op = "login" /\ req'[p].user = u
      /\ local'[p].role = users[u].role /\ local'[p].must = users[u].must
  BY <1>1 DEF LoginVerify, TypeOK
<1>4. \A v, ops : ops \subseteq Sweepers => Kept(v, ops)
  BY <1>1, <1>2 DEF Kept, Pending
<1>5. SessionsFollowAccounts'
  BY <1>1, <1>4, QuietStep
<1>6. DraftsCurrent'
  BY <1>1, <1>2, <1>3 DEF SessionInv, DraftsCurrent, Exists
<1>7. ChangesCurrent'
  BY <1>1, <1>2, <1>3 DEF SessionInv, ChangesCurrent, Exists, Sweepers
<1> QED
  BY <1>5, <1>6, <1>7

LEMMA PushSession ==
  ASSUME SessionInv, NEW p \in Proc, NEW t \in Token, LoginPush(p, t)
  PROVE  SessionsFollowAccounts' /\ DraftsCurrent' /\ ChangesCurrent'
<1>1. TypeOK /\ Finish(p) /\ UNCHANGED users /\ pc[p] = "push"
  BY DEF SessionInv, LoginPush
<1>2. \A v, ops : ops \subseteq Sweepers => Kept(v, ops)
  BY <1>1, FinishSession DEF Pending
<1>3. ASSUME NEW tt \in Token, NEW s, sessions'[tt] = s, s # Absent, ~s.stale
      PROVE  Follows(s)'
  <2>1. CASE tt = t
    <3>1. s = [local[p] EXCEPT !.stale = req[p].stale]
      BY <1>1, <1>3, <2>1 DEF LoginPush, TypeOK
    <3>2. local[p] \in Session /\ local[p].user = req[p].user
      BY <1>1 DEF TypeOK
    <3>3. /\ s.user = req[p].user /\ s.role = local[p].role /\ s.must = local[p].must
          /\ s.stale = req[p].stale
      BY <3>1, <3>2 DEF Session
    <3>4. Exists(s.user) /\ users[s.user].role = s.role /\ users[s.user].must = s.must
      BY <1>1, <1>3, <3>3 DEF SessionInv, DraftsCurrent
    <3> QED
      BY <1>1, <3>4 DEF Follows, Exists
  <2>2. CASE tt # t
    <3>1. sessions[tt] = s
      BY <1>1, <1>3, <2>2 DEF LoginPush, TypeOK
    <3>2. Follows(s)
      BY <1>3, <3>1, FollowsElim DEF SessionInv
    <3>3. KeptAll(s.user)
      BY <1>2 DEF KeptAll, Sweepers
    <3> QED
      BY <1>1, <3>2, <3>3, FollowsKept
  <2> QED
    BY <2>1, <2>2
<1>4. SessionsFollowAccounts'
  BY <1>3, FollowsIntro
<1> QED
  BY <1>1, <1>4, FinishSession

LEMMA CancelSession ==
  ASSUME SessionInv, NEW p \in Proc, Cancel(p)
  PROVE  SessionsFollowAccounts' /\ DraftsCurrent' /\ ChangesCurrent'
<1>1. TypeOK /\ Finish(p) /\ UNCHANGED users
  BY DEF SessionInv, Cancel
<1>2. ASSUME NEW t \in Token, NEW s, sessions'[t] = s, s # Absent, ~s.stale
      PROVE  Follows(s)'
  <2>1. sessions[t] \in Session \cup {Absent}
    BY <1>1 DEF TypeOK
  <2>2. sessions[t] = s /\ ~ (req[p].op \in Sweepers /\ s.user = req[p].user)
    <3>1. CASE Live(t) /\ req[p].op \in Sweepers /\ sessions[t].user = req[p].user
      <4>1. s = [sessions[t] EXCEPT !.stale = TRUE] /\ sessions[t] \in Session
        BY <1>2, <2>1, <3>1 DEF Cancel, Live
      <4> QED
        BY <1>2, <4>1 DEF Session
    <3>2. CASE ~ (Live(t) /\ req[p].op \in Sweepers /\ sessions[t].user = req[p].user)
      BY <1>2, <3>2 DEF Cancel, Live
    <3> QED
      BY <3>1, <3>2
  <2>3. Follows(s)
    BY <1>2, <2>2, FollowsElim DEF SessionInv
  <2>4. KeptAll(s.user)
    BY <1>1, <2>2, FinishSession DEF KeptAll, Sweepers
  <2> QED
    BY <1>1, <2>3, <2>4, FollowsKept
<1>3. SessionsFollowAccounts'
  BY <1>2, FollowsIntro
<1> QED
  BY <1>1, <1>3, FinishSession

(* A boot starts with no session and no request.                            *)
LEMMA EmptySession ==
  ASSUME sessions = [t \in Token |-> Absent], pc = [p \in Proc |-> "idle"],
         req = [p \in Proc |-> NoRequest]
  PROVE  SessionsFollowAccounts /\ DraftsCurrent /\ ChangesCurrent
BY DEF SessionsFollowAccounts, DraftsCurrent, ChangesCurrent, Live, NoRequest, Sweepers

LEMMA RestartSession ==
  ASSUME NEW file \in Readable, Restart(file)
  PROVE  SessionsFollowAccounts' /\ DraftsCurrent' /\ ChangesCurrent'
BY DEF Restart, SessionsFollowAccounts, DraftsCurrent, ChangesCurrent, Live, NoRequest, Sweepers

(* The clock, expiry, logout, late writes and stuttering.                   *)
LEMMA OtherSession ==
  ASSUME SessionInv,
         \/ \E t \in Token : ValidateExpired(t) \/ Logout(t)
         \/ \E c \in 0..MaxClock : Tick(c)
         \/ \E s \in late : LateWrite(s)
         \/ UNCHANGED vars
  PROVE  SessionsFollowAccounts' /\ DraftsCurrent' /\ ChangesCurrent'
<1>1. UNCHANGED <<users, pc, req, local>>
  BY DEF ValidateExpired, Logout, Tick, LateWrite, vars
<1>2. \A t \in Token : Live(t)' /\ ~sessions'[t].stale => sessions'[t] = sessions[t]
  BY DEF SessionInv, TypeOK, Live, ValidateExpired, Logout, Tick, LateWrite, vars
<1>3. \A u, ops : ops \subseteq Sweepers => Kept(u, ops)
  BY <1>1 DEF Kept
<1>4. DraftsCurrent' /\ ChangesCurrent'
  BY <1>1 DEF SessionInv, DraftsCurrent, ChangesCurrent, Exists
<1> QED
  BY <1>1, <1>2, <1>3, <1>4, QuietStep

LEMMA StepSession == SessionInv /\ [Next]_vars => SessionInv'
<1> SUFFICES ASSUME SessionInv, [Next]_vars PROVE SessionInv'
  OBVIOUS
<1>1. TypeOK'
  BY StepType DEF SessionInv
<1>2. SessionsFollowAccounts' /\ DraftsCurrent' /\ ChangesCurrent'
  BY MutateSession, SaveSession, SweepSession, VerifySession, PushSession, CancelSession,
     RestartSession, OtherSession DEF Next, Continue
<1> QED
  BY <1>1, <1>2 DEF SessionInv

(* A session disagrees with its account only while the request that will    *)
(* revoke it or open its gate is under way, or if its own login or change   *)
(* of password was overtaken or abandoned.                                  *)
THEOREM SessionsFollow == Spec => []SessionsFollowAccounts
<1>1. Init => SessionInv
  BY InitType, EmptySession DEF Init, SessionInv
<1>2. SessionInv => SessionsFollowAccounts
  BY DEF SessionInv
<1> QED
  BY <1>1, <1>2, StepSession, PTL DEF Spec

-----------------------------------------------------------------------------
(* The step that removes a session while a request that has not been        *)
(* overtaken sweeps is that sweep, or a restart.                            *)
Caused(p) ==
  pc[p] = "sweep" /\ pc'[p] = "idle" /\ ~req[p].stale =>
    \/ \A t \in Token : Live(t) /\ ~Live(t)' =>
         LET u == sessions[t].user IN Exists(u) => users[u].must
    \/ \E file \in Readable : Restart(file)

LEMMA SweepCaused ==
  ASSUME SessionInv, NEW p \in Proc, Sweep(p), ~req[p].stale,
         NEW t \in Token, Live(t), ~Live(t)'
  PROVE  Exists(sessions[t].user) => users[sessions[t].user].must
<1>1. TypeOK /\ req[p].op \in Sweepers /\ sessions[t] \in Session /\ sessions[t] # Absent
  BY DEF SessionInv, TypeOK, Sweep, Live
<1>2. Swept(sessions[t], req[p]) = Absent
  BY DEF Sweep, Live
<1>3. Ungated(sessions[t], req[p].stale) # Absent
  <2>1. Ungated(sessions[t], req[p].stale) \in Session
    BY <1>1, StaleType DEF Ungated, Session
  <2> QED
    BY <2>1, Nulls
<1>4. sessions[t].user = req[p].user /\ req[p].op \in Revokers
  BY <1>1, <1>2, <1>3 DEF Swept
<1> QED
  BY <1>1, <1>4 DEF SessionInv, ChangesCurrent

LEMMA StepCaused ==
  ASSUME SessionInv, [Next]_vars, NEW p \in Proc
  PROVE  Caused(p)
<1> SUFFICES ASSUME pc[p] = "sweep", pc'[p] = "idle", ~req[p].stale,
                    ~ \E file \in Readable : Restart(file),
                    NEW t \in Token, Live(t), ~Live(t)'
             PROVE  Exists(sessions[t].user) => users[sessions[t].user].must
  BY DEF Caused
<1>1. TypeOK
  BY DEF SessionInv
<1>2. CASE Sweep(p)
  BY <1>2, SweepCaused
<1>3. ASSUME NEW q \in Proc, q # p, Mutate(q) \/ Continue(q) PROVE FALSE
  <2>1. pc'[p] = pc[p]
    BY <1>1, <1>3
    DEF Mutate, CreateUser, DeleteUser, ChangePassword, AdminSetPassword, CreateApiToken,
        DeleteApiToken, Write, Continue, SaveBegin, SaveEnd, SaveFail, LeaveSave, Sweep,
        LoginPush, Finish, TypeOK
  <2> QED
    BY <2>1
<1>4. ~Mutate(p) /\ (Continue(p) => Sweep(p))
  BY DEF Mutate, CreateUser, DeleteUser, ChangePassword, AdminSetPassword, CreateApiToken,
         DeleteApiToken, Write, Continue, SaveBegin, SaveEnd, SaveFail, LoginPush
<1>5. ASSUME NEW q \in Proc, NEW u \in UserName, NEW pw \in Password, LoginVerify(q, u, pw)
      PROVE  FALSE
  BY <1>1, <1>5 DEF LoginVerify, TypeOK
<1>6. ASSUME NEW q \in Proc, Cancel(q) PROVE FALSE
  <2>1. sessions'[t] # Absent
    <3>1. sessions[t] \in Session
      BY <1>1 DEF TypeOK, Live
    <3>2. [sessions[t] EXCEPT !.stale = TRUE] \in Session
      BY <3>1 DEF Session
    <3> QED
      BY <1>6, <3>1, <3>2, Nulls DEF Cancel
  <2> QED
    BY <2>1 DEF Live
<1>7. ASSUME \/ \E x \in Token : ValidateExpired(x) \/ Logout(x)
             \/ \E c \in 0..MaxClock : Tick(c)
             \/ \E s \in late : LateWrite(s)
             \/ UNCHANGED vars
      PROVE  FALSE
  BY <1>7 DEF ValidateExpired, Logout, Tick, LateWrite, vars
<1> QED
  BY <1>2, <1>3, <1>4, <1>5, <1>6, <1>7 DEF Next

(* A request that has not been overtaken revokes sessions only for a cause  *)
(* that still stands.                                                       *)
THEOREM RevokedWithCause == Spec => RevokedForCause
<1>1. Init => SessionInv
  BY InitType, EmptySession DEF Init, SessionInv
<1>2. SessionInv /\ [Next]_vars => [\A p \in Proc : Caused(p)]_vars
  BY StepCaused
<1>3. (\A p \in Proc : Caused(p)) <=>
      (\A p \in Proc : pc[p] = "sweep" /\ pc'[p] = "idle" /\ ~req[p].stale =>
         \/ \A t \in Token : Live(t) /\ ~Live(t)' =>
              LET u == sessions[t].user IN Exists(u) => users[u].must
         \/ \E file \in Readable : Restart(file))
  BY DEF Caused
<1> QED
  BY <1>1, <1>2, <1>3, StepSession, PTL DEF Spec, RevokedForCause
-----------------------------------------------------------------------------
(* The session table as those see it who hold tokens.                       *)
LEMMA HeldAt ==
  ASSUME TypeOK, NEW t \in Token
  PROVE  /\ Live(t) => /\ Outside(sessions[t]) \in Table!Session
                       /\ Held[t] = Outside(sessions[t])
                       /\ Held[t].user = sessions[t].user
         /\ ~Live(t) => Held[t] = Absent
         /\ Live(t) <=> Table!Valid(t)
<1>1. Live(t) => sessions[t] \in Session
  BY DEF TypeOK, Live
<1>2. Live(t) => Outside(sessions[t]) \in Table!Session
  BY <1>1 DEF Session, Outside, Table!Session
<1>3. Held[t] = IF Live(t) THEN Outside(sessions[t]) ELSE Absent
  BY DEF Held
<1>4. Absent \notin Table!Session
  BY NullAssumption DEF Table!Session
<1>5. Live(t) <=> Table!Valid(t)
  BY <1>2, <1>3, <1>4 DEF Table!Valid
<1>6. Outside(sessions[t]).user = sessions[t].user
  BY DEF Outside
<1> QED
  BY <1>2, <1>3, <1>5, <1>6

LEMMA HeldOf ==
  ASSUME TypeOK, NEW u
  PROVE  Table!SessionsOf(u) = {t \in Token : Live(t) /\ sessions[t].user = u}
BY HeldAt DEF Table!SessionsOf

(* A sweep revokes the sessions of its account, or lifts their gates; the   *)
(* mark it may leave is not seen from outside.                              *)
LEMMA SweepTable ==
  ASSUME TypeOK, NEW p \in Proc, Sweep(p)
  PROVE  [Table!TableNext]_Held
<1> DEFINE r == req[p]
           u == r.user
<1>1. /\ r.op \in Sweepers /\ r \in Request
      /\ sessions' = [t \in Token |-> Swept(sessions[t], r)]
  BY DEF Sweep, TypeOK, NoRequest, Sweepers
<1>2. u \in UserName \cup {Absent}
  BY <1>1 DEF Request
<1> DEFINE mine == {t \in Token : Live(t) /\ sessions[t].user = u}
<1>3. \A t \in Token : t \notin mine => Swept(sessions[t], r) = sessions[t]
  BY DEF Swept, Live
<1>4. \A t \in Token : t \notin mine => Held'[t] = Held[t]
  BY <1>1, <1>3 DEF Held, Live
<1>5. Table!SessionsOf(u) = mine
  BY HeldOf
<1>6. CASE u = Absent
  <2>1. mine = {}
    BY <1>6, Nulls DEF TypeOK, Live, Session
  <2>2. Held' = Held
    BY <1>4, <2>1 DEF Held
  <2> QED
    BY <2>2
<1>7. CASE u \in UserName /\ r.op \in Revokers
  <2>1. \A t \in mine : Held'[t] = Absent
    BY <1>1, <1>7 DEF Swept, Held, Live
  <2>2. Held' = [t \in Token |-> IF t \in mine THEN Absent ELSE Held[t]]
    BY <1>4, <2>1 DEF Held
  <2> HIDE DEF mine
  <2>3. Table!Revoked(u)
    BY <1>5, <2>2 DEF Table!Revoked
  <2> QED
    BY <1>7, <2>3 DEF Table!TableNext
<1>8. CASE u \in UserName /\ r.op \notin Revokers
  <2>1. ASSUME NEW t \in mine PROVE Held'[t] = [Held[t] EXCEPT !.must = FALSE]
    <3>1. sessions[t] \in Session /\ sessions[t] # Absent /\ Held[t] = Outside(sessions[t])
      BY HeldAt DEF TypeOK, Live
    <3>2. sessions'[t] = Ungated(sessions[t], r.stale)
      BY <1>1, <1>8, <3>1 DEF Swept
    <3>3. /\ sessions'[t] \in Session
          /\ sessions'[t].user = sessions[t].user
          /\ sessions'[t].role = sessions[t].role
          /\ sessions'[t].must = FALSE
      BY <1>1, <3>1, <3>2, StaleType DEF Ungated, Session, Request
    <3>4. Held'[t] = Outside(sessions[t])'
      BY <3>3, Nulls DEF Held, Live
    <3> DEFINE h == Held[t]
               o == [h EXCEPT !.must = FALSE]
               n == Held'[t]
    <3>5. /\ h \in Table!Session /\ h.user = sessions[t].user
          /\ h.role = sessions[t].role
      BY <3>1, HeldAt DEF Outside, Live
    <3>6. n = [user |-> sessions'[t].user, role |-> sessions'[t].role,
               must |-> sessions'[t].must]
      BY <3>4 DEF Outside
    <3>7. /\ n \in Table!Session /\ n.must = FALSE
          /\ n.user = sessions[t].user /\ n.role = sessions[t].role
      BY <3>3, <3>6 DEF Session, Table!Session
    <3> HIDE DEF h, n
    <3>8. o \in Table!Session /\ o.user = h.user /\ o.role = h.role /\ o.must = FALSE
      BY <3>5 DEF Table!Session
    <3>9. n = o
      BY <3>5, <3>7, <3>8 DEF Table!Session
    <3> QED
      BY <3>9 DEF h, n
  <2>2. Held' = [t \in Token |-> IF t \in mine THEN [Held[t] EXCEPT !.must = FALSE] ELSE Held[t]]
    BY <1>4, <2>1 DEF Held
  <2> HIDE DEF mine
  <2>3. Table!Lifted(u)
    BY <1>5, <2>2 DEF Table!Lifted
  <2> QED
    BY <1>8, <2>3 DEF Table!TableNext
<1> QED
  BY <1>2, <1>6, <1>7, <1>8

(* A login pushes a session at a token that has none.                       *)
LEMMA PushTable ==
  ASSUME TypeOK, NEW p \in Proc, NEW t \in Token, LoginPush(p, t)
  PROVE  [Table!TableNext]_Held
<1> DEFINE s == [local[p] EXCEPT !.stale = req[p].stale]
<1>1. local[p] \in Session /\ ~Live(t) /\ sessions' = [sessions EXCEPT ![t] = s]
  BY DEF LoginPush, TypeOK
<1>2. s \in Session /\ Outside(s) = Outside(local[p])
  <2>1. req[p].stale \in BOOLEAN
    BY DEF LoginPush, TypeOK, Request, NoRequest
  <2> QED
    BY <1>1, <2>1 DEF Session, Outside
<1>3. s # Absent /\ Outside(s) \in Table!Session
  BY <1>2, Nulls DEF Session, Outside, Table!Session
<1> HIDE DEF s
<1>4. \A x \in Token : Held'[x] = IF x = t THEN Outside(s) ELSE Held[x]
  BY <1>1, <1>3 DEF Held, Live, TypeOK
<1>5. Held' = [Held EXCEPT ![t] = Outside(s)] /\ Held[t] = Absent
  BY <1>1, <1>4 DEF Held
<1>6. Table!Appears(t, Outside(s))
  BY <1>5 DEF Table!Appears
<1> QED
  BY <1>3, <1>6 DEF Table!TableNext

(* A logout, or the removal of an expired session.                          *)
LEMMA EndTable ==
  ASSUME TypeOK, NEW t \in Token, ValidateExpired(t) \/ Logout(t)
  PROVE  [Table!TableNext]_Held
<1>1. Live(t) /\ sessions' = [sessions EXCEPT ![t] = Absent]
  BY DEF ValidateExpired, Logout
<1>2. \A x \in Token : Held'[x] = IF x = t THEN Absent ELSE Held[x]
  BY <1>1 DEF Held, Live, TypeOK
<1>3. Held' = [Held EXCEPT ![t] = Absent]
  BY <1>2 DEF Held
<1>4. Table!Ended(t)
  BY <1>1, <1>3, HeldAt DEF Table!Ended
<1> QED
  BY <1>4 DEF Table!TableNext

(* A dropped request leaves a mark that is not seen from outside.           *)
LEMMA CancelTable ==
  ASSUME TypeOK, NEW p \in Proc, Cancel(p)
  PROVE  Held' = Held
<1>1. ASSUME NEW t \in Token PROVE Held'[t] = Held[t]
  <2>1. sessions'[t] = sessions[t] \/ (Live(t) /\ sessions'[t] = [sessions[t] EXCEPT !.stale = TRUE])
    BY DEF Cancel
  <2>2. CASE sessions'[t] = sessions[t]
    BY <2>2 DEF Held, Live
  <2>3. CASE Live(t) /\ sessions'[t] = [sessions[t] EXCEPT !.stale = TRUE]
    <3>1. sessions[t] \in Session
      BY <2>3 DEF TypeOK, Live
    <3>2. /\ sessions'[t] \in Session
          /\ sessions'[t].user = sessions[t].user
          /\ sessions'[t].role = sessions[t].role
          /\ sessions'[t].must = sessions[t].must
      BY <2>3, <3>1 DEF Session
    <3> QED
      BY <2>3, <3>2, Nulls DEF Held, Live, Outside
  <2> QED
    BY <2>1, <2>2, <2>3
<1> QED
  BY <1>1 DEF Held

LEMMA StepTable ==
  ASSUME TypeOK, [Next]_vars
  PROVE  [Table!TableNext]_Held
<1>1. ASSUME UNCHANGED sessions PROVE [Table!TableNext]_Held
  <2>1. Held' = Held
    BY <1>1 DEF Held, Live
  <2> QED
    BY <2>1
<1>2. ASSUME NEW p \in Proc, Mutate(p) PROVE [Table!TableNext]_Held
  BY <1>1, <1>2 DEF Mutate, CreateUser, DeleteUser, ChangePassword, AdminSetPassword,
                    CreateApiToken, DeleteApiToken, Write
<1>3. ASSUME NEW p \in Proc, Continue(p) PROVE [Table!TableNext]_Held
  <2>1. CASE SaveBegin(p) \/ SaveEnd(p) \/ SaveFail(p)
    BY <1>1, <2>1 DEF SaveBegin, SaveEnd, SaveFail, LeaveSave
  <2> QED
    BY <1>3, <2>1, SweepTable, PushTable DEF Continue
<1>4. ASSUME NEW p \in Proc, NEW u \in UserName, NEW pw \in Password, LoginVerify(p, u, pw)
      PROVE  [Table!TableNext]_Held
  BY <1>1, <1>4 DEF LoginVerify
<1>5. ASSUME NEW p \in Proc, Cancel(p) PROVE [Table!TableNext]_Held
  BY <1>5, CancelTable
<1>6. ASSUME NEW file \in Readable, Restart(file) PROVE [Table!TableNext]_Held
  <2>1. sessions' = [t \in Token |-> Absent]
    BY <1>6 DEF Restart
  <2>2. Held' = [t \in Token |-> Absent]
    BY <2>1 DEF Held, Live
  <2> QED
    BY <2>2 DEF Table!TableNext, Table!AllEnded
<1>7. ASSUME \/ \E c \in 0..MaxClock : Tick(c)
             \/ \E s \in late : LateWrite(s)
             \/ UNCHANGED vars
      PROVE  [Table!TableNext]_Held
  BY <1>1, <1>7 DEF Tick, LateWrite, vars
<1> QED
  BY <1>2, <1>3, <1>4, <1>5, <1>6, <1>7, EndTable DEF Next

(* The service implements SessionTable (KeepsTable), under every fault: a   *)
(* session that has appeared changes only by the lifting of its gate and by *)
(* its end.  This is what Connection takes from the service.                *)
THEOREM TableKept == Spec => KeepsTable
<1>1. Init => Table!TableInit
  BY DEF Init, Held, Live, Table!TableInit
<1>2. TypeOK /\ [Next]_vars => [Table!TableNext]_Held
  BY StepTable
<1> QED
  BY <1>1, <1>2, TypeCorrect, PTL DEF Spec, KeepsTable, Table!TableSpec

-----------------------------------------------------------------------------
(* How far the comments of auth.rs are right.                               *)
NoneStale == \A t \in Token : Live(t) => ~sessions[t].stale

LEMMA FreshFollow ==
  ASSUME SessionsFollowAccounts, NoneStale
  PROVE  DeletedUsersHaveNoSession /\ ResetForcesChange
<1>1. ASSUME NEW t \in Token, Live(t), ~Sweeping(sessions[t].user, {"delete_user"})
      PROVE  Exists(sessions[t].user)
  BY <1>1 DEF SessionsFollowAccounts, NoneStale, Follows
<1>2. ASSUME NEW t \in Token, Live(t), ~Sweeping(sessions[t].user, {"admin_set_password"}),
             Exists(sessions[t].user), users[sessions[t].user].must
      PROVE  sessions[t].must
  BY <1>2 DEF SessionsFollowAccounts, NoneStale, Follows
<1> QED
  BY <1>1, <1>2 DEF DeletedUsersHaveNoSession, ResetForcesChange

(* A session that outlives the deletion of its account, or a reset with its *)
(* gate open, is one that an overtaken request pushed or opened, or an      *)
(* abandoned one left behind: while the table holds none of these, what the *)
(* comments of delete_user and admin_set_password say is so, under every    *)
(* fault.                                                                   *)
CommentsHoldBarStale == NoneStale => DeletedUsersHaveNoSession /\ ResetForcesChange

THEOREM OnlyStaleBreak == Spec => []CommentsHoldBarStale
<1>1. SessionsFollowAccounts => CommentsHoldBarStale
  BY FreshFollow DEF CommentsHoldBarStale
<1> QED
  BY <1>1, SessionsFollow, PTL

(* Requests about the same account do not overlap.                          *)
Separate ==
  \A p, q \in Proc : p # q /\ req[p].user = req[q].user => req[p].user = Absent

Fresh == NoneStale /\ \A p \in Proc : ~req[p].stale

(* A write that no request about the account overlaps overtakes none.       *)
LEMMA FreshWrite ==
  ASSUME TypeOK, Fresh, Separate', NEW p \in Proc, NEW op, NEW u \in UserName \cup {Absent},
         Write(p, op, u)
  PROVE  Fresh'
<1>1. /\ req'[p] = [op |-> op, user |-> u, stale |-> FALSE]
      /\ \A q \in Proc : q # p => req'[q] = Overtaken(u)[q]
      /\ UNCHANGED sessions
  BY DEF Write, Overtaken, TypeOK
<1>2. req'[p].user = u /\ ~req'[p].stale
  BY <1>1
<1>3. ASSUME NEW q \in Proc, q # p PROVE ~req'[q].stale
  <2>1. CASE req[q].user = u /\ u # Absent
    <3>1. req[q] \in Request
      BY <2>1 DEF TypeOK, NoRequest
    <3>2. req'[q] = [req[q] EXCEPT !.stale = TRUE]
      BY <1>1, <1>3, <2>1 DEF Overtaken
    <3>3. req'[q].user = u
      BY <2>1, <3>1, <3>2 DEF Request
    <3> QED
      BY <1>2, <1>3, <2>1, <3>3 DEF Separate
  <2>2. CASE ~ (req[q].user = u /\ u # Absent)
    <3>1. req'[q] = req[q]
      BY <1>1, <1>3, <2>2 DEF Overtaken
    <3> QED
      BY <3>1 DEF Fresh
  <2> QED
    BY <2>1, <2>2
<1> QED
  BY <1>1, <1>2, <1>3 DEF Fresh, NoneStale, Live

LEMMA FreshFinish ==
  ASSUME TypeOK, NEW p \in Proc, Finish(p), \A q \in Proc : ~req[q].stale
  PROVE  \A q \in Proc : ~req'[q].stale
BY DEF Finish, TypeOK, NoRequest

LEMMA FreshSweep ==
  ASSUME TypeOK, Fresh, NEW p \in Proc, Sweep(p)
  PROVE  Fresh'
<1>1. Finish(p) /\ ~req[p].stale
  BY DEF Sweep, Fresh
<1>2. ASSUME NEW t \in Token, sessions'[t] # Absent PROVE ~sessions'[t].stale
  <2>1. sessions'[t] = Swept(sessions[t], req[p])
    BY DEF Sweep
  <2>2. sessions[t] # Absent /\ sessions[t] \in Session /\ ~sessions[t].stale
    BY <1>2, <2>1 DEF Swept, TypeOK, Fresh, NoneStale, Live
  <2>3. sessions'[t] = sessions[t] \/ sessions'[t] = Ungated(sessions[t], req[p].stale)
    BY <1>2, <2>1, <2>2 DEF Swept
  <2>4. ~Ungated(sessions[t], req[p].stale).stale
    BY <1>1, <2>2 DEF Ungated, Session
  <2> QED
    BY <2>2, <2>3, <2>4
<1> QED
  BY <1>1, <1>2, FreshFinish DEF Fresh, NoneStale, Live

LEMMA FreshPush ==
  ASSUME TypeOK, Fresh, NEW p \in Proc, NEW t \in Token, LoginPush(p, t)
  PROVE  Fresh'
<1>1. Finish(p) /\ ~req[p].stale /\ local[p] \in Session
  BY DEF LoginPush, Fresh, TypeOK
<1>2. sessions' = [sessions EXCEPT ![t] = [local[p] EXCEPT !.stale = req[p].stale]]
  BY DEF LoginPush
<1>3. ASSUME NEW s \in Token, sessions'[s] # Absent PROVE ~sessions'[s].stale
  <2>1. CASE s = t
    <3>1. sessions'[s] = [local[p] EXCEPT !.stale = req[p].stale]
      BY <1>2, <2>1 DEF TypeOK
    <3> QED
      BY <1>1, <3>1 DEF Session
  <2>2. CASE s # t
    BY <1>2, <1>3, <2>2 DEF TypeOK, Fresh, NoneStale, Live
  <2> QED
    BY <2>1, <2>2
<1> QED
  BY <1>1, <1>3, FreshFinish DEF Fresh, NoneStale, Live

LEMMA FreshStep ==
  ASSUME "cancel" \notin Faults, TypeOK, Fresh, Separate', [Next]_vars
  PROVE  Fresh'
<1>1. ASSUME NEW p \in Proc, Mutate(p) PROVE Fresh'
  <2>1. \E op : \E u \in UserName \cup {Absent} : Write(p, op, u)
    BY <1>1 DEF Mutate, CreateUser, DeleteUser, ChangePassword, AdminSetPassword, CreateApiToken,
       DeleteApiToken
  <2> QED
    BY <2>1, FreshWrite
<1>2. ASSUME NEW p \in Proc, SaveBegin(p) \/ SaveEnd(p) \/ SaveFail(p) PROVE Fresh'
  <2>1. /\ UNCHANGED sessions
        /\ \/ UNCHANGED req
           \/ req' = [req EXCEPT ![p] = IF AfterSave(p) = "idle" THEN NoRequest ELSE @]
    BY <1>2 DEF SaveBegin, SaveEnd, SaveFail, LeaveSave
  <2>2. \A q \in Proc : req'[q] = req[q] \/ req'[q] = NoRequest
    BY <2>1 DEF TypeOK
  <2>3. ~NoRequest.stale
    BY DEF NoRequest
  <2> QED
    BY <2>1, <2>2, <2>3 DEF Fresh, NoneStale, Live
<1>3. ASSUME NEW p \in Proc, NEW u \in UserName, NEW pw \in Password, LoginVerify(p, u, pw)
      PROVE  Fresh'
  BY <1>3 DEF LoginVerify, TypeOK, Fresh, NoneStale, Live
<1>4. ASSUME \E t \in Token : ValidateExpired(t) \/ Logout(t) PROVE Fresh'
  BY <1>4 DEF ValidateExpired, Logout, TypeOK, Fresh, NoneStale, Live
<1>5. ASSUME UNCHANGED <<sessions, req>> PROVE Fresh'
  BY <1>5 DEF Fresh, NoneStale, Live
<1>6. ASSUME NEW file \in Readable, Restart(file) PROVE Fresh'
  BY <1>6 DEF Restart, NoRequest, Fresh, NoneStale, Live
<1>7. ASSUME \/ \E c \in 0..MaxClock : Tick(c)
             \/ \E s \in late : LateWrite(s)
             \/ UNCHANGED vars
      PROVE  UNCHANGED <<sessions, req>>
  BY <1>7 DEF Tick, LateWrite, vars
<1> QED
  BY <1>1, <1>2, <1>3, <1>4, <1>5, <1>6, <1>7, FreshSweep, FreshPush DEF Next, Continue, Cancel

(* What the two comments promise fails by concurrency alone: as long as     *)
(* requests about the same account do not overlap and no handler is         *)
(* dropped, a deletion leaves no session of the account and a reset none    *)
(* without the gate, whatever is done to other accounts at the same time,   *)
(* whatever cannot be written, and wherever the server stops.               *)
THEOREM SeparateRequestsKeep ==
  ASSUME "cancel" \notin Faults
  PROVE  Spec /\ []Separate => [](DeletedUsersHaveNoSession /\ ResetForcesChange)
<1>1. Init => Fresh
  BY DEF Init, Fresh, NoneStale, Live, NoRequest
<1>2. TypeOK /\ Fresh /\ Separate' /\ [Next]_vars => Fresh'
  BY FreshStep
<1>3. SessionsFollowAccounts /\ Fresh => DeletedUsersHaveNoSession /\ ResetForcesChange
  BY FreshFollow DEF Fresh
<1> QED
  BY <1>1, <1>2, <1>3, TypeCorrect, SessionsFollow, PTL DEF Spec
=============================================================================
