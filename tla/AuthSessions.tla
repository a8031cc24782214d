---------------------------- MODULE AuthSessions ----------------------------
(***************************************************************************)
(* Sign-in sessions of the auth-service: the usecases Login, RefreshToken, *)
(* Logout, ChangePassword (auth_usecase.go) and RevokeSession,             *)
(* RevokeAllOtherSessions (session_usecase.go), as they run concurrently   *)
(* on the tables users, tenants, user_credentials, sessions and audit_logs.*)
(*                                                                         *)
(* No usecase opens a transaction, so one SQL statement is one step and    *)
(* the requests interleave between any two of them.  A request is a record *)
(* holding what its goroutine keeps in local variables; the handler slots  *)
(* in Handler bound how many requests run at a time, not how many run.     *)
(*                                                                         *)
(* Left out: the e-mail of a user (a request names the user it resolves    *)
(* to), the roles and permissions put in the claims, timestamps other than *)
(* revoked_at and expires_at, which are kept as facts (set, passed).       *)
(***************************************************************************)
EXTENDS FiniteSets, Naturals

CONSTANTS
    User, Password, Session, Token,  \* rows' keys, passwords, refresh tokens
    Handler,     \* slots for requests in progress
    None,        \* nil: no row, no hash, no argument; the zero UUID
    Boundary,    \* the ways the usecases are called, see BoundaryKinds
    DbOutcome,   \* what a statement may come to, see DbOutcomes
    UniqueJti,   \* sessions.access_token_id is UNIQUE, as the migration says
    AdminMoves   \* bound: what administrators do meanwhile, see AdminKinds

\* "wired": over HTTP, with the middleware cmd/auth/main.go installs: none
\* puts claims in the request context.  "claims": over HTTP, behind the
\* middleware the handlers' comments expect.  "usecase": methods called with
\* any arguments.
BoundaryKinds == {"wired", "claims", "usecase"}

\* A statement succeeds, fails, or takes effect while the caller sees an error
\* (the connection or the request context is lost before the reply).
DbOutcomes == {"ok", "fails", "unacked"}

\* A user is put in a state, the tenant is activated or deactivated.
UserState == {"active", "inactive", "deleted"}
AdminKinds == UserState \cup {"tenant"}

ASSUME ModeAssumption ==
    /\ Boundary \subseteq BoundaryKinds
    /\ "ok" \in DbOutcome /\ DbOutcome \subseteq DbOutcomes
    /\ UniqueJti \in BOOLEAN
    /\ AdminMoves \subseteq AdminKinds

VARIABLES
    users,     \* users[u]: "active", "inactive" (blocked, pending) or "deleted"
    tenantUp,  \* the users' tenant exists and is active
    cred,      \* cred[u]: the password whose hash u's credential holds, or None
    sessions,  \* sessions[s]: the row with id s, or None
    audit,     \* rows of audit_logs
    issued,    \* claims of the access tokens that clients were given
    req        \* req[h]: the request in slot h

vars == <<users, tenantUp, cred, sessions, audit, issued, req>>
tables == <<users, tenantUp, cred, sessions, audit>>

\* generateTokenPair takes the address of its own claims' ID; the ID of the
\* token is set on the copy GenerateAccessToken signs, so the row gets "".
AccessTokenID == ""

Row == [user : User, hash : Token, jti : {AccessTokenID},
        revoked : BOOLEAN, expired : BOOLEAN]

Claims == [user : User, sid : Session \cup {None}]

AuditAction == {"LOGIN", "TOKEN_REFRESH", "LOGOUT", "PASSWORD_CHANGE",
                "SESSION_REVOKE"}
AuditRow == [action : AuditAction, user : User, success : BOOLEAN]

Operation == {"Login", "RefreshToken", "Logout", "ChangePassword",
              "RevokeSession", "RevokeAllOtherSessions"}

\* Where a request is: the statement it runs next, or "done".
Phase == {"done", "audit",
          "login_user", "login_tenant", "login_cred", "login_roles",
          "login_session", "login_touch",
          "refresh_session", "refresh_user", "refresh_roles", "refresh_write",
          "logout_session", "logout_revoke",
          "change_cred", "change_write", "change_revoke",
          "revoke_session", "revoke_write",
          "revoke_others"}

Reply == {"ok", "InvalidCredentials", "UserInactive", "TenantInactive",
          "Internal", "TokenInvalid", "SessionRevoked", "NotFound",
          "BadRequest", "Unauthorized"}

ASSUME NoneAssumption ==
    /\ None \notin User \cup Password \cup Session \cup Token
    /\ None \notin Row /\ None \notin Claims /\ None \notin Reply

Request == [op : Operation \cup {None}, pc : Phase,
            user : User \cup {None},        \* the user it is about
            pw : Password \cup {None},      \* Password, OldPassword
            newPw : Password \cup {None},   \* NewPassword
            sid : Session \cup {None},      \* session id given or found
            token : Token \cup {None},      \* refresh token given or made
            hash : Password \cup {None},    \* cred.CredentialHash as read
            row : Row \cup {None},          \* session as read
            access : Claims \cup {None},    \* claims as signed
            log : AuditRow \cup {None},     \* audit entry to insert
            reply : Reply \cup {None}]

Blank == [op |-> None, pc |-> "done", user |-> None, pw |-> None,
          newPw |-> None, sid |-> None, token |-> None, hash |-> None,
          row |-> None, access |-> None, log |-> None, reply |-> None]

-----------------------------------------------------------------------------
(* Rows and statements *)

Live(row) == ~row.revoked /\ ~row.expired  \* not IsRevoked
RowsOf(ss) == {s \in Session : ss[s] # None}
Rows == RowsOf(sessions)

\* Mutant of NewRow: the row is made before the refresh token.
RowWithoutToken(u, t) == [user |-> u, hash |-> None, jti |-> AccessTokenID,
                          revoked |-> FALSE, expired |-> FALSE]

NewRow(u, t) == [user |-> u, hash |-> t, jti |-> AccessTokenID,
                 revoked |-> FALSE, expired |-> FALSE]

\* Mutant of Conflict: access_token_id is not compared.
SameIdOrHash(s, row) == s \in Rows \/ \E r \in Rows : sessions[r].hash = row.hash

\* INSERT INTO sessions meets the primary key and the unique columns.
Conflict(s, row) ==
    \/ s \in Rows
    \/ \E r \in Rows : \/ sessions[r].hash = row.hash
                       \/ UniqueJti /\ sessions[r].jti = row.jti

\* Mutant of InsertSession: ON CONFLICT DO UPDATE.
Upsert(s, row) == [sessions EXCEPT ![s] = row]

InsertSession(s, row) ==
    IF Conflict(s, row) THEN sessions ELSE [sessions EXCEPT ![s] = row]

\* The keys uuid.New can return: those no row has.
FreshSession == Session \ Rows
FreshToken == Token \ {sessions[s].hash : s \in Rows}

Revoke(s) ==
    IF s \in Rows THEN [sessions EXCEPT ![s].revoked = TRUE] ELSE sessions

RevokeAllUserSessions(u, except) ==
    [s \in Session |->
        IF s \in Rows /\ sessions[s].user = u /\ s # except
        THEN [sessions[s] EXCEPT !.revoked = TRUE]
        ELSE sessions[s]]

Applied(o) == o \in {"ok", "unacked"}
Fails(o) == o \in {"fails", "unacked"}

-----------------------------------------------------------------------------
(* Steps of a request *)

At(h, p) == req[h].pc = p
Step(h, r) == req' = [req EXCEPT ![h] = r]
Goto(h, p) == Step(h, [req[h] EXCEPT !.pc = p])

\* The locals go with the goroutine; the answer stays, and if it is "ok" what
\* it was about.
Answered(r, reply) ==
    IF reply = "ok" THEN [Blank EXCEPT !.op = r.op, !.user = r.user,
                                       !.sid = r.sid, !.reply = reply]
                    ELSE [Blank EXCEPT !.op = r.op, !.reply = reply]
Answer(h, reply) == Step(h, Answered(req[h], reply))

Entry(action, u, ok) == [action |-> action, user |-> u, success |-> ok]

\* logAudit, then the answer.
Logging(r, entry, reply) ==
    [Answered(r, reply) EXCEPT !.pc = "audit", !.log = entry, !.access = r.access]
LogAndAnswer(h, entry, reply) == Step(h, Logging(req[h], entry, reply))

Begin(h, r) ==
    /\ At(h, "done")
    /\ Step(h, r)
    /\ UNCHANGED <<tables, issued>>

\* An audit insert that fails is printed and forgotten.  The client has its
\* answer, and with it the tokens, only after it.
Audit(h) ==
    /\ At(h, "audit")
    /\ \E o \in DbOutcome :
         audit' = IF Applied(o) THEN audit \cup {req[h].log} ELSE audit
    /\ issued' = IF req[h].access # None /\ req[h].reply = "ok"
                 THEN issued \cup {req[h].access} ELSE issued
    /\ Answer(h, req[h].reply)
    /\ UNCHANGED <<users, tenantUp, cred, sessions>>

-----------------------------------------------------------------------------
(* Login *)

\* Bound: a login starts only while every login in progress can be given a
\* session id of its own from the pool Session.
PoolHasRoom ==
    Cardinality(FreshSession) >
        Cardinality({h \in Handler : req[h].op = "Login" /\ req[h].pc # "done"})

Login(h, u, p) ==
    /\ PoolHasRoom
    /\ Begin(h, [Blank EXCEPT !.op = "Login", !.pc = "login_user",
                              !.user = u, !.pw = p])

LoginFindUser(h) ==
    LET u == req[h].user IN
    /\ At(h, "login_user")
    /\ \E o \in DbOutcome :
         \/ /\ Fails(o) \/ users[u] = "deleted"
            /\ Answer(h, "InvalidCredentials")
         \/ /\ ~Fails(o) /\ users[u] = "inactive"
            /\ LogAndAnswer(h, Entry("LOGIN", u, FALSE), "UserInactive")
         \/ /\ ~Fails(o) /\ users[u] = "active"
            /\ Goto(h, "login_tenant")
    /\ UNCHANGED <<tables, issued>>

LoginFindTenant(h) ==
    /\ At(h, "login_tenant")
    /\ \E o \in DbOutcome :
         \/ (Fails(o) \/ ~tenantUp) /\ Answer(h, "TenantInactive")
         \/ ~Fails(o) /\ tenantUp /\ Goto(h, "login_cred")
    /\ UNCHANGED <<tables, issued>>

\* Mutant of LoginCheckPassword: an account without a credential is let in.
CredentialOptional(h) ==
    LET c == cred[req[h].user] IN
    /\ At(h, "login_cred")
    /\ c \in {None, req[h].pw}
    /\ Step(h, [req[h] EXCEPT !.pc = "login_roles", !.hash = c])
    /\ UNCHANGED <<tables, issued>>

LoginCheckPassword(h) ==
    LET u == req[h].user
        c == cred[u]
    IN
    /\ At(h, "login_cred")
    /\ \E o \in DbOutcome :
         \/ Fails(o) /\ Answer(h, "Internal")
         \/ ~Fails(o) /\ c = None /\ Answer(h, "InvalidCredentials")
         \/ /\ ~Fails(o) /\ c # None /\ c # req[h].pw
            /\ LogAndAnswer(h, Entry("LOGIN", u, FALSE), "InvalidCredentials")
         \/ /\ ~Fails(o) /\ c # None /\ c = req[h].pw
            /\ Step(h, [req[h] EXCEPT !.pc = "login_roles", !.hash = c])
    /\ UNCHANGED <<tables, issued>>

\* Roles and permissions: two reads; then the access token is signed, with
\* the SessionID its claims have by then.
LoginReadRoles(h) ==
    /\ At(h, "login_roles")
    /\ \E o \in DbOutcome :
         \/ Fails(o) /\ Answer(h, "Internal")
         \/ /\ ~Fails(o)
            /\ Step(h, [req[h] EXCEPT !.pc = "login_session",
                          !.access = [user |-> req[h].user, sid |-> None]])
    /\ UNCHANGED <<tables, issued>>

\* Mutant of LoginCreateSession: the claims are signed once the session exists.
SignAfterCreate(h) ==
    /\ At(h, "login_session")
    /\ \E s \in FreshSession, t \in FreshToken :
         LET row == NewRow(req[h].user, t) IN
         /\ sessions' = InsertSession(s, row)
         /\ ~Conflict(s, row)
         /\ Step(h, [req[h] EXCEPT !.pc = "login_touch", !.sid = s, !.token = t,
                                   !.access.sid = s])
    /\ UNCHANGED <<users, tenantUp, cred, audit, issued>>

LoginCreateSession(h) ==
    /\ At(h, "login_session")
    /\ \E s \in FreshSession, t \in FreshToken, o \in DbOutcome :
         LET row == NewRow(req[h].user, t) IN
         /\ sessions' = IF Applied(o) THEN InsertSession(s, row) ELSE sessions
         /\ \/ (Fails(o) \/ Conflict(s, row)) /\ Answer(h, "Internal")
            \/ /\ ~Fails(o) /\ ~Conflict(s, row)
               /\ Step(h, [req[h] EXCEPT !.pc = "login_touch",
                                     !.sid = s, !.token = t])
    /\ UNCHANGED <<users, tenantUp, cred, audit, issued>>

\* Mutant of LoginTouchCredential: of a credential read without its hash.
TouchWithoutHash(h) ==
    /\ At(h, "login_touch")
    /\ cred' = [cred EXCEPT ![req[h].user] = None]
    /\ LogAndAnswer(h, Entry("LOGIN", req[h].user, TRUE), "ok")
    /\ UNCHANGED <<users, tenantUp, sessions, audit, issued>>

\* UpdateLastLogin, then UpdateCredential, whose UPDATE sets credential_hash
\* to the hash read at the check.  Their errors are ignored.
LoginTouchCredential(h) ==
    LET u == req[h].user IN
    /\ At(h, "login_touch")
    /\ \E o \in DbOutcome :
         cred' = IF Applied(o) THEN [cred EXCEPT ![u] = req[h].hash] ELSE cred
    /\ LogAndAnswer(h, Entry("LOGIN", u, TRUE), "ok")
    /\ UNCHANGED <<users, tenantUp, sessions, audit, issued>>

-----------------------------------------------------------------------------
(* RefreshToken *)

RefreshToken(h, t) ==
    Begin(h, [Blank EXCEPT !.op = "RefreshToken", !.pc = "refresh_session",
                           !.token = t])

RefreshFindSession(h) ==
    LET found == {s \in Rows : sessions[s].hash = req[h].token /\ Live(sessions[s])} IN
    /\ At(h, "refresh_session")
    /\ \E o \in DbOutcome :
         \/ Fails(o) /\ Answer(h, "TokenInvalid")
         \/ ~Fails(o) /\ found = {} /\ Answer(h, "SessionRevoked")
         \/ /\ ~Fails(o)
            /\ \E s \in found :
                 Step(h, [req[h] EXCEPT !.pc = "refresh_user", !.sid = s,
                            !.row = sessions[s],
                            !.user = sessions[s].user])
    /\ UNCHANGED <<tables, issued>>

\* The tenant is not looked at.
RefreshFindUser(h) ==
    LET u == req[h].user IN
    /\ At(h, "refresh_user")
    /\ \E o \in DbOutcome :
         \/ (Fails(o) \/ users[u] = "deleted") /\ Answer(h, "Internal")
         \/ ~Fails(o) /\ users[u] = "inactive" /\ Answer(h, "UserInactive")
         \/ ~Fails(o) /\ users[u] = "active" /\ Goto(h, "refresh_roles")
    /\ UNCHANGED <<tables, issued>>

RefreshReadRoles(h) ==
    /\ At(h, "refresh_roles")
    /\ \E o \in DbOutcome :
         \/ Fails(o) /\ Answer(h, "Internal")
         \/ /\ ~Fails(o)
            /\ Step(h, [req[h] EXCEPT !.pc = "refresh_write",
                   !.access = [user |-> req[h].user, sid |-> req[h].sid]])
    /\ UNCHANGED <<tables, issued>>

\* Mutant of RefreshWrite: an UPDATE of every column to what was read.
RefreshByUpdate(h) ==
    /\ At(h, "refresh_write")
    /\ \E t \in FreshToken :
         sessions' = [sessions EXCEPT ![req[h].sid] = [req[h].row EXCEPT !.hash = t]]
    /\ LogAndAnswer(h, Entry("TOKEN_REFRESH", req[h].user, TRUE), "ok")
    /\ UNCHANGED <<users, tenantUp, cred, audit, issued>>

\* The session is stored by sessionRepo.Create: an INSERT of the row as read,
\* with a new hash, under the id it already has.
RefreshWrite(h) ==
    LET s == req[h].sid IN
    /\ At(h, "refresh_write")
    /\ \E t \in FreshToken, o \in DbOutcome :
         LET row == [req[h].row EXCEPT !.hash = t, !.jti = AccessTokenID] IN
         /\ sessions' = IF Applied(o) THEN InsertSession(s, row) ELSE sessions
         /\ IF Fails(o) \/ Conflict(s, row)
            THEN Answer(h, "Internal")
            ELSE LogAndAnswer(h, Entry("TOKEN_REFRESH", req[h].user, TRUE), "ok")
    /\ UNCHANGED <<users, tenantUp, cred, audit, issued>>

-----------------------------------------------------------------------------
(* Logout *)

\* The session id comes from the claims of the caller's access token.
Logout(h, s) ==
    /\ \/ "usecase" \in Boundary
       \/ "claims" \in Boundary /\ \E c \in issued : c.sid = s
    /\ Begin(h, [Blank EXCEPT !.op = "Logout", !.pc = "logout_session",
                              !.sid = s])

\* Mutant of LogoutFindSession: no return when there is no such session.
LogoutUnfound(h) ==
    /\ At(h, "logout_session")
    /\ Goto(h, "logout_revoke")
    /\ UNCHANGED <<tables, issued>>

LogoutFindSession(h) ==
    LET s == req[h].sid IN
    /\ At(h, "logout_session")
    /\ \E o \in DbOutcome :
         \/ (Fails(o) \/ s \notin Rows) /\ Answer(h, "NotFound")
         \/ /\ ~Fails(o) /\ s \in Rows
            /\ Step(h, [req[h] EXCEPT !.pc = "logout_revoke",
                                  !.user = sessions[s].user])
    /\ UNCHANGED <<tables, issued>>

LogoutRevoke(h) ==
    /\ At(h, "logout_revoke")
    /\ \E o \in DbOutcome :
         /\ sessions' = IF Applied(o) THEN Revoke(req[h].sid) ELSE sessions
         /\ \/ Fails(o) /\ Answer(h, "Internal")
            \/ ~Fails(o) /\ LogAndAnswer(h, Entry("LOGOUT", req[h].user, TRUE), "ok")
    /\ UNCHANGED <<users, tenantUp, cred, audit, issued>>

-----------------------------------------------------------------------------
(* ChangePassword *)

ChangePassword(h, u, old, new) ==
    /\ \/ "usecase" \in Boundary
       \/ "claims" \in Boundary /\ \E c \in issued : c.user = u
    /\ Begin(h, [Blank EXCEPT !.op = "ChangePassword", !.pc = "change_cred",
                              !.user = u, !.pw = old, !.newPw = new])

ChangeCheckPassword(h) ==
    LET c == cred[req[h].user] IN
    /\ At(h, "change_cred")
    /\ \E o \in DbOutcome :
         \/ Fails(o) /\ Answer(h, "Internal")
         \/ ~Fails(o) /\ c = None /\ Answer(h, "BadRequest")
         \/ ~Fails(o) /\ c # None /\ c # req[h].pw /\ Answer(h, "InvalidCredentials")
         \/ ~Fails(o) /\ c # None /\ c = req[h].pw /\ Goto(h, "change_write")
    /\ UNCHANGED <<tables, issued>>

ChangeWrite(h) ==
    /\ At(h, "change_write")
    /\ \E o \in DbOutcome :
         /\ cred' = IF Applied(o) THEN [cred EXCEPT ![req[h].user] = req[h].newPw]
                    ELSE cred
         /\ \/ Fails(o) /\ Answer(h, "Internal")
            \/ ~Fails(o) /\ Goto(h, "change_revoke")
    /\ UNCHANGED <<users, tenantUp, sessions, audit, issued>>

\* exceptSessionID is nil; an error is printed and the change still succeeds.
ChangeRevoke(h) ==
    LET u == req[h].user IN
    /\ At(h, "change_revoke")
    /\ \E o \in DbOutcome :
         sessions' = IF Applied(o) THEN RevokeAllUserSessions(u, None) ELSE sessions
    /\ LogAndAnswer(h, Entry("PASSWORD_CHANGE", u, TRUE), "ok")
    /\ UNCHANGED <<users, tenantUp, cred, audit, issued>>

-----------------------------------------------------------------------------
(* RevokeSession, RevokeAllOtherSessions *)

\* POST /v1/sessions/{id}/revoke: the id is the path's, no claims are read.
RevokeSession(h, s) ==
    Begin(h, [Blank EXCEPT !.op = "RevokeSession", !.pc = "revoke_session",
                           !.sid = s])

RevokeFindSession(h) ==
    LET s == req[h].sid IN
    /\ At(h, "revoke_session")
    /\ \E o \in DbOutcome :
         \/ (Fails(o) \/ s \notin Rows) /\ Answer(h, "NotFound")
         \/ ~Fails(o) /\ s \in Rows /\ ~Live(sessions[s]) /\ Answer(h, "BadRequest")
         \/ /\ ~Fails(o) /\ s \in Rows /\ Live(sessions[s])
            /\ Step(h, [req[h] EXCEPT !.pc = "revoke_write",
                                  !.user = sessions[s].user])
    /\ UNCHANGED <<tables, issued>>

\* Mutant of RevokeWrite: the row is marked in memory only.
RevokeInMemory(h) ==
    /\ At(h, "revoke_write")
    /\ LogAndAnswer(h, Entry("SESSION_REVOKE", req[h].user, TRUE), "ok")
    /\ UNCHANGED <<tables, issued>>

\* Mutant of RevokeWrite: started again when the UPDATE fails.
RevokeRetried(h) ==
    /\ At(h, "revoke_write")
    /\ \/ Goto(h, "revoke_session") /\ UNCHANGED sessions
       \/ /\ sessions' = Revoke(req[h].sid)
          /\ LogAndAnswer(h, Entry("SESSION_REVOKE", req[h].user, TRUE), "ok")
    /\ UNCHANGED <<users, tenantUp, cred, audit, issued>>

RevokeWrite(h) ==
    /\ At(h, "revoke_write")
    /\ \E o \in DbOutcome :
         /\ sessions' = IF Applied(o) THEN Revoke(req[h].sid) ELSE sessions
         /\ \/ Fails(o) /\ Answer(h, "Internal")
            \/ /\ ~Fails(o)
               /\ LogAndAnswer(h, Entry("SESSION_REVOKE", req[h].user, TRUE), "ok")
    /\ UNCHANGED <<users, tenantUp, cred, audit, issued>>

\* No route reaches it.
RevokeAllOtherSessions(h, u, s) ==
    /\ "usecase" \in Boundary
    /\ Begin(h, [Blank EXCEPT !.op = "RevokeAllOtherSessions",
                              !.pc = "revoke_others", !.user = u, !.sid = s])

RevokeOthers(h) ==
    /\ At(h, "revoke_others")
    /\ \E o \in DbOutcome :
         /\ sessions' = IF Applied(o)
                        THEN RevokeAllUserSessions(req[h].user, req[h].sid)
                        ELSE sessions
         /\ Answer(h, IF Fails(o) THEN "Internal" ELSE "ok")
    /\ UNCHANGED <<users, tenantUp, cred, audit, issued>>

\* A caller is turned away, with a valid access token or without: nothing put
\* claims in the request's context.
Unauthenticated(h, op) ==
    /\ "wired" \in Boundary
    /\ Begin(h, [Blank EXCEPT !.op = op, !.reply = "Unauthorized"])

-----------------------------------------------------------------------------
(* Around the requests *)

\* UpdateUser and DeleteUser, as far as sign-in sees them: no session is
\* touched, and a deleted row is out of every later update's reach.
SetUserState(u, st) ==
    /\ st \in AdminMoves
    /\ users[u] # "deleted" /\ users[u] # st
    /\ users' = [users EXCEPT ![u] = st]
    /\ UNCHANGED <<tenantUp, cred, sessions, audit, issued, req>>

SetTenantState ==
    /\ "tenant" \in AdminMoves
    /\ tenantUp' = ~tenantUp
    /\ UNCHANGED <<users, cred, sessions, audit, issued, req>>

\* expires_at passes.
Expire(s) ==
    /\ s \in Rows /\ ~sessions[s].expired
    /\ sessions' = [sessions EXCEPT ![s].expired = TRUE]
    /\ UNCHANGED <<users, tenantUp, cred, audit, issued, req>>

\* The process dies: the requests in progress get no answer, the tables stay.
Crash ==
    /\ \E h \in Handler : ~At(h, "done")
    /\ req' = [h \in Handler |-> Blank]
    /\ UNCHANGED <<tables, issued>>

Init ==
    /\ users \in [User -> UserState]
    /\ tenantUp \in BOOLEAN
    /\ cred \in [User -> Password \cup {None}]
    /\ sessions = [s \in Session |-> None]
    /\ audit = {}
    /\ issued = {}
    /\ req = [h \in Handler |-> Blank]

Arrive(h) ==
    \/ \E u \in User, p \in Password : Login(h, u, p)
    \/ \E t \in Token : RefreshToken(h, t)
    \/ \E s \in Session \cup {None} : Logout(h, s) \/ RevokeSession(h, s)
    \/ \E u \in User, old, new \in Password : ChangePassword(h, u, old, new)
    \/ \E u \in User, s \in Session \cup {None} : RevokeAllOtherSessions(h, u, s)
    \/ Unauthenticated(h, "Logout") \/ Unauthenticated(h, "ChangePassword")

Advance(h) ==
    \/ LoginFindUser(h) \/ LoginFindTenant(h) \/ LoginCheckPassword(h)
    \/ LoginReadRoles(h) \/ LoginCreateSession(h) \/ LoginTouchCredential(h)
    \/ RefreshFindSession(h) \/ RefreshFindUser(h) \/ RefreshReadRoles(h)
    \/ RefreshWrite(h)
    \/ LogoutFindSession(h) \/ LogoutRevoke(h)
    \/ ChangeCheckPassword(h) \/ ChangeWrite(h) \/ ChangeRevoke(h)
    \/ RevokeFindSession(h) \/ RevokeWrite(h) \/ RevokeOthers(h)
    \/ Audit(h)

Environment ==
    \/ \E u \in User, st \in UserState : SetUserState(u, st)
    \/ SetTenantState
    \/ \E s \in Session : Expire(s)
    \/ Crash

Next == (\E h \in Handler : Arrive(h) \/ Advance(h)) \/ Environment

Spec == Init /\ [][Next]_vars

\* A goroutine that can run does, and the database answers every statement,
\* if only with an error.
FairSpec == Spec /\ \A h \in Handler : WF_vars(Advance(h))

-----------------------------------------------------------------------------
(* What holds *)

TypeOK ==
    /\ users \in [User -> UserState]
    /\ tenantUp \in BOOLEAN
    /\ cred \in [User -> Password \cup {None}]
    /\ sessions \in [Session -> Row \cup {None}]
    /\ audit \subseteq AuditRow
    /\ issued \subseteq Claims
    /\ req \in [Handler -> Request]

\* generateTokenPair stores the same access_token_id, "", in every row and the
\* column is UNIQUE: whatever requests run, in whatever order, the table never
\* holds a second session, of any user.
AtMostOneSession ==
    UniqueJti => \A s, t \in Rows : s = t

\* No interleaving of refreshes, logouts, revocations and password changes
\* brings a revoked or expired session back to life, and no row disappears.
RevocationIsFinal ==
    [][\A s \in Rows :
         /\ sessions'[s] # None
         /\ sessions[s].revoked => sessions'[s].revoked
         /\ sessions[s].expired => sessions'[s].expired]_vars

\* RefreshToken's INSERT never replaces a row: a session keeps, for good, the
\* user and the refresh token that its login gave it.
NoRotation ==
    [][\A s \in Rows : /\ sessions'[s].user = sessions[s].user
                       /\ sessions'[s].hash = sessions[s].hash]_vars

\* In the sessions table ss: what the answer "ok" to the request r reports.
OkTrue(r, ss) ==
    r.reply = "ok" =>
        /\ r.op = "Login" =>
              r.sid \in RowsOf(ss) /\ ss[r.sid].user = r.user
        /\ r.op \in {"Logout", "RevokeSession"} =>
              r.sid \in RowsOf(ss) /\ ss[r.sid].revoked
        /\ r.op # "RefreshToken"

\* In the sessions table ss: what the audit entry e reports.
EntryTrue(e, ss) ==
    /\ e.action = "LOGIN" /\ e.success =>
          \E s \in RowsOf(ss) : ss[s].user = e.user
    /\ e.action \in {"LOGOUT", "SESSION_REVOKE"} =>
          \E s \in RowsOf(ss) : ss[s].user = e.user /\ ss[s].revoked
    /\ e.action # "TOKEN_REFRESH"

\* An answer "ok" is still true when later requests have run: the session of
\* a login is in the table and its user's; the session of a logout or of a
\* revocation is revoked.  A refresh is never answered "ok".
AnswersMatchStore ==
    \A h \in Handler : At(h, "done") => OkTrue(req[h], sessions)

\* The audit trail never reports what did not happen, through lost replies and
\* crashes: a successful LOGIN means a session of the user, a LOGOUT or
\* SESSION_REVOKE a revoked one; no TOKEN_REFRESH is ever written.
AuditSound == \A e \in audit : EntryTrue(e, sessions)

\* An account without a password never signs in, even though logins write
\* back the credential they read and password changes run meanwhile.
NoPasswordNoSession ==
    \A s \in Rows : cred[sessions[s].user] # None

\* Accounts live here as AccountLife says, which Accounts implements: what
\* logins write back from rows read earlier never takes a password away, and
\* administrators do no more to an account than their usecases can.
Life == INSTANCE AccountLife WITH
    state <- users,
    secret <- {u \in User : cred[u] # None}

AccountsKept == Life!Spec

\* Why no logout over HTTP does what the documents say of it (LogoutRevokes
\* below): it never reaches its UPDATE, behind a claims middleware either.  The
\* claims of a login are signed before the session exists, and the refresh,
\* whose claims would name it, never succeeds.
LogoutRevokesNothing ==
    "usecase" \notin Boundary => \A h \in Handler : ~At(h, "logout_revoke")

\* Every request is answered, unless the process dies first.
RequestsEnd == \A h \in Handler : ~At(h, "done") ~> At(h, "done")

-----------------------------------------------------------------------------
(* What the repository says and the code does not do *)

\* auth_usecase.go:123 "Update credential last used": only a password change
\* changes a password.
OnlyChangeChangesPassword ==
    [][\A u \in User : cred'[u] # cred[u] =>
         \E h \in Handler : At(h, "change_write") /\ req[h].user = u]_vars

\* README.md:234 "Session management dengan refresh token rotation": while the
\* database answers, a refresh is not refused for an internal reason.
RefreshRotates ==
    \A h \in Handler : req[h].op = "RefreshToken" => req[h].reply # "Internal"

\* auth_usecase.go:308 "Logout revokes the current session", and
\* services/auth-service/README.md:91 "Logout (revoke session)": once the logout
\* of a client with the claims of its login is answered, a session is revoked.
LogoutRevokes ==
    \A h \in Handler :
        At(h, "done") /\ req[h].op = "Logout" => \E s \in Rows : sessions[s].revoked

\* Both are promised; what is left of them if only one is kept: a client that
\* has signed in can either renew its session or end it.
RenewsOrEnds == RefreshRotates \/ LogoutRevokes

\* services/auth-service/README.md:88 "Login with email/password", for every
\* user, and 001_init.up.sql:203 a session's access_token_id is "opsional": while
\* the database answers, a login is not refused for an internal reason.
LoginSucceeds ==
    \A h \in Handler : req[h].op = "Login" => req[h].reply # "Internal"
=============================================================================
