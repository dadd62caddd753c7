---------------------------- MODULE SessionTable ----------------------------
(* What the authentication service promises to those who hold a session     *)
(* token: a session appears once, as it will stay but for its gate, which is *)
(* only ever lifted, and for its end.  The accounts behind it may change     *)
(* meanwhile: a login pushes what it read of them before.                    *)
CONSTANTS
  Token,      \* session tokens, each issued once
  User,       \* accounts
  Role,       \* the roles of accounts
  Unissued,   \* a token before its login
  Null        \* a token whose session is over

VARIABLE held   \* the session table: a session per token, Null, or Unissued

Session == [user: User, role: Role, must: BOOLEAN]

TableInit == held = [t \in Token |-> Unissued]

(* validate(): the token has a session.                                     *)
Valid(t) == held[t] \notin {Null, Unissued}

SessionsOf(u) == {t \in Token : Valid(t) /\ held[t].user = u}

Appears(t, s) == held[t] = Unissued /\ held' = [held EXCEPT ![t] = s]

(* The gate of an account's sessions is lifted ...                          *)
Lifted(u) ==
  held' = [t \in Token |-> IF t \in SessionsOf(u) THEN [held[t] EXCEPT !.must = FALSE]
                           ELSE held[t]]

(* ... or they end ...                                                      *)
Revoked(u) == held' = [t \in Token |-> IF t \in SessionsOf(u) THEN Null ELSE held[t]]

(* ... or one of them does ...                                              *)
Ended(t) == Valid(t) /\ held' = [held EXCEPT ![t] = Null]

(* ... or all, with the process.                                            *)
AllEnded == held' = [t \in Token |-> Null]

TableNext ==
  \/ \E t \in Token, s \in Session : Appears(t, s)
  \/ \E u \in User : Lifted(u) \/ Revoked(u)
  \/ \E t \in Token : Ended(t)
  \/ AllEnded

TableSpec == TableInit /\ [][TableNext]_held
=============================================================================
