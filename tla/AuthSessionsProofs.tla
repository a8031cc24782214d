------------------------- MODULE AuthSessionsProofs -------------------------
(***************************************************************************)
(* Theorems about AuthSessions, for all sets of users, passwords, session  *)
(* ids, tokens and handlers, every boundary, database behaviour and schema.*)
(*                                                                         *)
(* The properties are not inductive: each depends on what the local        *)
(* variables of a request in progress still tell about tables that other   *)
(* requests have changed since.  Fits states it.  The argument has three   *)
(* parts: every step of every request leaves Grows true of the tables;     *)
(* Fits survives such a step of another request; and each step leaves its  *)
(* own request's locals fitting.                                           *)
(***************************************************************************)
EXTENDS AuthSessions, TLAPS

\* The locals of request r in the tables sessions = ss, user_credentials = cc.
Fits(r, ss, cc) ==
    /\ r.pc \in {"login_user", "login_tenant", "login_cred", "login_roles",
                 "login_session", "login_touch"} => r.op = "Login" /\ r.user \in User
    /\ r.pc \in {"login_roles", "login_session", "login_touch"} =>
          r.hash \in Password /\ cc[r.user] # None
    /\ r.pc \in {"login_session", "login_touch"} =>
          r.access # None /\ r.access.sid = None
    /\ r.pc = "login_touch" => r.sid \in RowsOf(ss) /\ ss[r.sid].user = r.user
    /\ r.pc = "refresh_session" => r.op = "RefreshToken"
    /\ r.pc \in {"refresh_user", "refresh_roles", "refresh_write"} =>
          /\ r.op = "RefreshToken" /\ r.user \in User
          /\ r.sid \in RowsOf(ss) /\ r.row \in Row
    /\ r.pc \in {"logout_session", "logout_revoke"} => r.op = "Logout"
    /\ r.pc = "logout_session" /\ "usecase" \notin Boundary => r.sid = None
    /\ r.pc = "logout_revoke" => "usecase" \in Boundary
    /\ r.pc \in {"revoke_session", "revoke_write"} => r.op = "RevokeSession"
    /\ r.pc \in {"logout_revoke", "revoke_write"} =>
          r.sid \in RowsOf(ss) /\ r.user = ss[r.sid].user
    /\ r.pc \in {"change_cred", "change_write", "change_revoke"} =>
          r.op = "ChangePassword" /\ r.user \in User /\ r.newPw \in Password
    /\ r.pc \in {"logout_session", "logout_revoke", "revoke_session", "revoke_write",
                 "change_cred", "change_write", "change_revoke"} => r.access = None
    /\ r.pc = "change_write" => cc[r.user] # None
    /\ r.pc = "revoke_others" => r.op = "RevokeAllOtherSessions" /\ r.user \in User
    /\ r.pc = "audit" =>
          /\ r.log \in AuditRow /\ EntryTrue(r.log, ss) /\ r.reply \in Reply
          /\ r.access # None /\ r.reply = "ok" => r.access.sid = None
    /\ r.pc \in {"done", "audit"} => OkTrue(r, ss)

LocalsOK == \A h \in Handler : Fits(req[h], sessions, cred)

\* No access token that a client holds names a session.
IssuedOK == \A c \in issued : c.sid = None

Inv ==
    /\ TypeOK
    /\ AtMostOneSession
    /\ NoPasswordNoSession
    /\ AuditSound
    /\ IssuedOK
    /\ LocalsOK

\* From ss to tt rows stay, keep user and hash, and are never made live again.
Grows(ss, tt) ==
    \A s \in RowsOf(ss) :
        /\ s \in RowsOf(tt)
        /\ tt[s].user = ss[s].user
        /\ tt[s].hash = ss[s].hash
        /\ ss[s].revoked => tt[s].revoked
        /\ ss[s].expired => tt[s].expired

Table == [Session -> Row \cup {None}]
CredTable == [User -> Password \cup {None}]

\* A password is replaced, never removed and never given to an account that
\* has none.
SameHolders(cc, dd) == \A u \in User : cc[u] = None <=> dd[u] = None

-----------------------------------------------------------------------------
(* The tables *)

LEMMA GrowsRefl ==
    ASSUME NEW ss PROVE Grows(ss, ss)
BY DEF Grows

LEMMA EntryStays ==
    ASSUME NEW ss, NEW tt, Grows(ss, tt), NEW e, EntryTrue(e, ss)
    PROVE  EntryTrue(e, tt)
BY DEF Grows, EntryTrue

LEMMA FitsStays ==
    ASSUME NEW ss, NEW tt, Grows(ss, tt),
           NEW cc, NEW dd, SameHolders(cc, dd),
           NEW r, Fits(r, ss, cc)
    PROVE  Fits(r, tt, dd)
<1>1. \A e : EntryTrue(e, ss) => EntryTrue(e, tt)
  BY EntryStays
<1>2. OkTrue(r, ss) => OkTrue(r, tt)
  BY DEF Grows, OkTrue
<1>3. \A s \in RowsOf(ss) : s \in RowsOf(tt) /\ tt[s].user = ss[s].user
  BY DEF Grows
<1>4. \A u \in User : cc[u] # None => dd[u] # None
  BY DEF SameHolders
<1>. QED
  BY <1>1, <1>2, <1>3, <1>4 DEF Fits

\* Revoking or expiring rows: the same rows, and Grows.
LEMMA RevokeGrows ==
    ASSUME sessions \in Table, NEW s
    PROVE  /\ Revoke(s) \in Table
           /\ Grows(sessions, Revoke(s))
           /\ RowsOf(Revoke(s)) = Rows
BY NoneAssumption DEF Revoke, Grows, Rows, RowsOf, Table, Row

LEMMA RevokeAllGrows ==
    ASSUME sessions \in Table, NEW u, NEW except
    PROVE  /\ RevokeAllUserSessions(u, except) \in Table
           /\ Grows(sessions, RevokeAllUserSessions(u, except))
           /\ RowsOf(RevokeAllUserSessions(u, except)) = Rows
BY NoneAssumption DEF RevokeAllUserSessions, Grows, Rows, RowsOf, Table, Row

LEMMA InsertGrows ==
    ASSUME sessions \in Table, NEW s \in Session, NEW row \in Row
    PROVE  /\ InsertSession(s, row) \in Table
           /\ Grows(sessions, InsertSession(s, row))
BY NoneAssumption DEF InsertSession, Conflict, Grows, Rows, RowsOf, Table, Row

-----------------------------------------------------------------------------
(* Steps, by what they change *)

LEMMA OthersFit ==
    ASSUME Inv, NEW h \in Handler, NEW r \in Request, Step(h, r),
           Grows(sessions, sessions'), SameHolders(cred, cred'),
           Fits(r, sessions', cred')
    PROVE  req' \in [Handler -> Request] /\ LocalsOK'
<1>1. req \in [Handler -> Request]
  BY DEF Inv, TypeOK
<1>2. req' \in [Handler -> Request]
  BY <1>1 DEF Step
<1>3. ASSUME NEW g \in Handler PROVE Fits(req'[g], sessions', cred')
  <2>1. CASE g = h
    BY <1>1, <2>1 DEF Step
  <2>2. CASE g # h
    <3>1. req'[g] = req[g]
      BY <1>1, <2>2 DEF Step
    <3>2. Fits(req[g], sessions, cred)
      BY DEF Inv, LocalsOK
    <3>3. Fits(req[g], sessions', cred')
      BY <3>2, FitsStays
    <3>. QED
      BY <3>1, <3>3
  <2>. QED
    BY <2>1, <2>2
<1>. QED
  BY <1>2, <1>3 DEF LocalsOK

\* A step that reads the tables.
LEMMA ReadStep ==
    ASSUME Inv, NEW h \in Handler, NEW r \in Request, Step(h, r),
           UNCHANGED <<tables, issued>>, Fits(r, sessions, cred)
    PROVE  Inv'
<1>1. UNCHANGED <<users, tenantUp, cred, sessions, audit, issued>>
  BY DEF tables
<1>2. Grows(sessions, sessions') /\ SameHolders(cred, cred')
  BY <1>1, GrowsRefl DEF SameHolders
<1>3. req' \in [Handler -> Request] /\ LocalsOK'
  BY <1>1, <1>2, OthersFit
<1>. QED
  BY <1>1, <1>3 DEF Inv, TypeOK, AtMostOneSession, NoPasswordNoSession,
                    AuditSound, IssuedOK, Rows

\* A step that writes the sessions table.
LEMMA SessionStep ==
    ASSUME Inv, NEW h \in Handler, NEW r \in Request, Step(h, r),
           UNCHANGED <<users, tenantUp, cred, audit, issued>>,
           sessions' \in Table, Grows(sessions, sessions'),
           AtMostOneSession', NoPasswordNoSession',
           Fits(r, sessions', cred)
    PROVE  Inv'
<1>1. SameHolders(cred, cred')
  BY DEF SameHolders
<1>2. req' \in [Handler -> Request] /\ LocalsOK'
  BY <1>1, OthersFit
<1>3. AuditSound'
  BY EntryStays DEF Inv, AuditSound
<1>. QED
  BY <1>2, <1>3 DEF Inv, TypeOK, IssuedOK, Table

\* Of those, a step that revokes rows.
LEMMA RevokeStep ==
    ASSUME Inv, NEW h \in Handler, NEW r \in Request, Step(h, r),
           UNCHANGED <<users, tenantUp, cred, audit, issued>>,
           sessions' \in Table, Grows(sessions, sessions'), Rows' = Rows,
           Fits(r, sessions', cred)
    PROVE  Inv'
<1>1. AtMostOneSession'
  BY DEF Inv, AtMostOneSession
<1>2. NoPasswordNoSession'
  BY DEF Inv, NoPasswordNoSession, Grows, Rows
<1>. QED
  BY <1>1, <1>2, SessionStep

\* A step that writes a credential.
LEMMA CredStep ==
    ASSUME Inv, NEW h \in Handler, NEW r \in Request, Step(h, r),
           UNCHANGED <<users, tenantUp, sessions, audit, issued>>,
           cred' \in CredTable, SameHolders(cred, cred'),
           Fits(r, sessions, cred')
    PROVE  Inv'
<1>1. Grows(sessions, sessions')
  BY GrowsRefl
<1>2. req' \in [Handler -> Request] /\ LocalsOK'
  BY <1>1, OthersFit
<1>3. NoPasswordNoSession'
  BY DEF Inv, NoPasswordNoSession, SameHolders, TypeOK, Rows, RowsOf, Row
<1>. QED
  BY <1>2, <1>3 DEF Inv, TypeOK, IssuedOK, AtMostOneSession, AuditSound, Rows,
                    CredTable

-----------------------------------------------------------------------------
(* Records of the request that a step leaves behind *)

LEMMA FieldChanged ==
    ASSUME NEW q \in Request
    PROVE  /\ \A x \in Operation \cup {None} : [q EXCEPT !.op = x] \in Request
           /\ \A x \in Phase : [q EXCEPT !.pc = x] \in Request
           /\ \A x \in User \cup {None} : [q EXCEPT !.user = x] \in Request
           /\ \A x \in Session \cup {None} : [q EXCEPT !.sid = x] \in Request
           /\ \A x \in Claims \cup {None} : [q EXCEPT !.access = x] \in Request
           /\ \A x \in AuditRow \cup {None} : [q EXCEPT !.log = x] \in Request
           /\ \A x \in Reply \cup {None} : [q EXCEPT !.reply = x] \in Request
<1>1. \A x \in Operation \cup {None} : [q EXCEPT !.op = x] \in Request
  BY DEF Request
<1>2. \A x \in Phase : [q EXCEPT !.pc = x] \in Request
  BY DEF Request
<1>3. \A x \in User \cup {None} : [q EXCEPT !.user = x] \in Request
  BY DEF Request
<1>4. \A x \in Session \cup {None} : [q EXCEPT !.sid = x] \in Request
  BY DEF Request
<1>5. \A x \in Claims \cup {None} : [q EXCEPT !.access = x] \in Request
  BY DEF Request
<1>6. \A x \in AuditRow \cup {None} : [q EXCEPT !.log = x] \in Request
  BY DEF Request
<1>7. \A x \in Reply \cup {None} : [q EXCEPT !.reply = x] \in Request
  BY DEF Request
<1>. QED
  BY <1>1, <1>2, <1>3, <1>4, <1>5, <1>6, <1>7

LEMMA AnsweredFits ==
    ASSUME NEW r \in Request, NEW reply \in Reply, NEW ss, NEW cc,
           OkTrue([r EXCEPT !.reply = reply], ss)
    PROVE  Answered(r, reply) \in Request /\ Fits(Answered(r, reply), ss, cc)
<1> DEFINE a == Answered(r, reply)
<1>1. a \in Request
  <2> DEFINE b == [Blank EXCEPT !.op = r.op]
             c == [b EXCEPT !.user = r.user]
             d == [c EXCEPT !.sid = r.sid]
  <2>1. Blank \in Request
    BY DEF Blank, Request, Phase
  <2>2. /\ r.op \in Operation \cup {None} /\ r.user \in User \cup {None}
        /\ r.sid \in Session \cup {None}
    BY DEF Request
  <2>3. b \in Request
    BY <2>1, <2>2, FieldChanged
  <2>4. c \in Request
    BY <2>2, <2>3, FieldChanged
  <2>5. d \in Request
    BY <2>2, <2>4, FieldChanged
  <2>6. [b EXCEPT !.reply = reply] \in Request /\ [d EXCEPT !.reply = reply] \in Request
    BY <2>3, <2>5, FieldChanged
  <2>. QED
    BY <2>6 DEF Answered
<1>2. /\ a.pc = "done" /\ a.op = r.op /\ a.reply = reply
      /\ reply = "ok" => a.user = r.user /\ a.sid = r.sid
  BY DEF Answered, Blank
<1>3. /\ [r EXCEPT !.reply = reply].op = r.op
      /\ [r EXCEPT !.reply = reply].user = r.user
      /\ [r EXCEPT !.reply = reply].sid = r.sid
      /\ [r EXCEPT !.reply = reply].reply = reply
  BY DEF Request
<1>4. OkTrue(a, ss)
  BY <1>2, <1>3 DEF OkTrue
<1> HIDE DEF a
<1>5. Fits(a, ss, cc)
  BY <1>2, <1>4 DEF Fits
<1>. QED
  BY <1>1, <1>5 DEF a

LEMMA RefusedFits ==
    ASSUME NEW r \in Request, NEW reply \in Reply \ {"ok"}, NEW ss, NEW cc
    PROVE  Answered(r, reply) \in Request /\ Fits(Answered(r, reply), ss, cc)
<1>1. [r EXCEPT !.reply = reply].reply = reply
  BY DEF Request
<1>2. OkTrue([r EXCEPT !.reply = reply], ss)
  BY <1>1 DEF OkTrue
<1>. QED
  BY <1>2, AnsweredFits

LEMMA LoggedFits ==
    ASSUME NEW r \in Request, NEW entry \in AuditRow, NEW reply \in Reply,
           NEW ss, NEW cc, EntryTrue(entry, ss), OkTrue([r EXCEPT !.reply = reply], ss),
           reply = "ok" /\ r.access # None => r.access.sid = None
    PROVE  /\ Logging(r, entry, reply) \in Request
           /\ Fits(Logging(r, entry, reply), ss, cc)
<1> DEFINE l == Logging(r, entry, reply)
<1>1. l \in Request
  <2> DEFINE q == Answered(r, reply)
             b == [q EXCEPT !.pc = "audit"]
             c == [b EXCEPT !.log = entry]
  <2>1. q \in Request
    BY AnsweredFits
  <2>2. r.access \in Claims \cup {None} /\ "audit" \in Phase
    BY DEF Request, Phase
  <2>3. b \in Request
    BY <2>1, <2>2, FieldChanged
  <2>4. c \in Request
    BY <2>3, FieldChanged
  <2>5. [c EXCEPT !.access = r.access] \in Request
    BY <2>2, <2>4, FieldChanged
  <2>. QED
    BY <2>5 DEF Logging
<1>2. /\ l.pc = "audit" /\ l.log = entry /\ l.reply = reply /\ l.op = r.op
      /\ l.access = r.access
      /\ reply = "ok" => l.user = r.user /\ l.sid = r.sid
  BY DEF Logging, Answered, Blank, Request
<1>3. /\ [r EXCEPT !.reply = reply].op = r.op
      /\ [r EXCEPT !.reply = reply].user = r.user
      /\ [r EXCEPT !.reply = reply].sid = r.sid
      /\ [r EXCEPT !.reply = reply].reply = reply
  BY DEF Request
<1>4. OkTrue(l, ss)
  BY <1>2, <1>3 DEF OkTrue
<1> HIDE DEF l
<1>5. Fits(l, ss, cc)
  BY <1>2, <1>4 DEF Fits
<1>. QED
  BY <1>1, <1>5 DEF l

LEMMA RefusedLoggedFits ==
    ASSUME NEW r \in Request, NEW entry \in AuditRow, NEW reply \in Reply \ {"ok"},
           NEW ss, NEW cc, EntryTrue(entry, ss)
    PROVE  /\ Logging(r, entry, reply) \in Request
           /\ Fits(Logging(r, entry, reply), ss, cc)
<1>1. [r EXCEPT !.reply = reply].reply = reply
  BY DEF Request
<1>2. OkTrue([r EXCEPT !.reply = reply], ss)
  BY <1>1 DEF OkTrue
<1>. QED
  BY <1>2, LoggedFits

LEMMA RefuseStep ==
    ASSUME Inv, NEW h \in Handler, NEW reply \in Reply \ {"ok"}, Answer(h, reply),
           UNCHANGED <<tables, issued>>
    PROVE  Inv'
<1>1. req[h] \in Request
  BY DEF Inv, TypeOK
<1>. QED
  BY <1>1, RefusedFits, ReadStep DEF Answer

\* A request after its next local assignment; p is the phase it goes to.
WithHash(r, p, c) ==
    [r EXCEPT !.pc = p, !.hash = c]
WithClaims(r, p, a) ==
    [r EXCEPT !.pc = p, !.access = a]
WithSession(r, p, s, t) ==
    [r EXCEPT !.pc = p, !.sid = s, !.token = t]
WithRow(r, p, s, row, u) ==
    [r EXCEPT !.pc = p, !.sid = s, !.row = row, !.user = u]
WithOwner(r, p, u) ==
    [r EXCEPT !.pc = p, !.user = u]
WithPhase(r, p) ==
    [r EXCEPT !.pc = p]

LEMMA HashRead ==
    ASSUME NEW r \in Request, NEW p \in Phase, NEW c \in Password
    PROVE  LET n == WithHash(r, p, c) IN
           /\ n \in Request /\ n.pc = p /\ n.op = r.op
           /\ n.user = r.user /\ n.hash = c
<1> DEFINE n == WithHash(r, p, c)
<1>1. n \in Request
  BY DEF Request, WithHash
<1>2. /\ n.pc = p
      /\ n.op = r.op
      /\ n.user = r.user
      /\ n.hash = c
  BY DEF Request, WithHash
<1>. QED
  BY <1>1, <1>2

LEMMA ClaimsSigned ==
    ASSUME NEW r \in Request, NEW p \in Phase, NEW a \in Claims
    PROVE  LET n == WithClaims(r, p, a) IN
           /\ n \in Request /\ n.pc = p /\ n.op = r.op /\ n.user = r.user
           /\ n.hash = r.hash /\ n.sid = r.sid /\ n.row = r.row /\ n.access = a
<1> DEFINE n == WithClaims(r, p, a)
<1>1. n \in Request
  BY DEF Request, WithClaims
<1>2. /\ n.pc = p
      /\ n.op = r.op
      /\ n.user = r.user
      /\ n.hash = r.hash
      /\ n.sid = r.sid
      /\ n.row = r.row
      /\ n.access = a
  BY DEF Request, WithClaims
<1>. QED
  BY <1>1, <1>2

LEMMA SessionMade ==
    ASSUME NEW r \in Request, NEW p \in Phase, NEW s \in Session, NEW t \in Token
    PROVE  LET n == WithSession(r, p, s, t) IN
           /\ n \in Request /\ n.pc = p /\ n.op = r.op /\ n.user = r.user
           /\ n.hash = r.hash /\ n.access = r.access /\ n.sid = s
<1> DEFINE n == WithSession(r, p, s, t)
<1>1. n \in Request
  BY DEF Request, WithSession
<1>2. /\ n.pc = p
      /\ n.op = r.op
      /\ n.user = r.user
      /\ n.hash = r.hash
      /\ n.access = r.access
      /\ n.sid = s
  BY DEF Request, WithSession
<1>. QED
  BY <1>1, <1>2

LEMMA SessionRead ==
    ASSUME NEW r \in Request, NEW p \in Phase, NEW s \in Session,
           NEW row \in Row, NEW u \in User
    PROVE  LET n == WithRow(r, p, s, row, u) IN
           /\ n \in Request /\ n.pc = p /\ n.op = r.op /\ n.user = u
           /\ n.sid = s /\ n.row = row
<1> DEFINE n == WithRow(r, p, s, row, u)
<1>1. n \in Request
  BY DEF Request, WithRow
<1>2. /\ n.pc = p
      /\ n.op = r.op
      /\ n.user = u
      /\ n.sid = s
      /\ n.row = row
  BY DEF Request, WithRow
<1>. QED
  BY <1>1, <1>2

LEMMA OwnerRead ==
    ASSUME NEW r \in Request, NEW p \in Phase, NEW u \in User
    PROVE  LET n == WithOwner(r, p, u) IN
           /\ n \in Request /\ n.pc = p /\ n.op = r.op /\ n.user = u
           /\ n.sid = r.sid /\ n.access = r.access
<1> DEFINE n == WithOwner(r, p, u)
<1>1. n \in Request
  BY DEF Request, WithOwner
<1>2. /\ n.pc = p
      /\ n.op = r.op
      /\ n.user = u
      /\ n.sid = r.sid /\ n.access = r.access
  BY DEF Request, WithOwner
<1>. QED
  BY <1>1, <1>2

LEMMA Moved ==
    ASSUME NEW r \in Request, NEW p \in Phase
    PROVE  LET n == WithPhase(r, p) IN
           /\ n \in Request /\ n.pc = p /\ n.op = r.op /\ n.user = r.user
           /\ n.sid = r.sid /\ n.row = r.row /\ n.newPw = r.newPw /\ n.access = r.access
<1> DEFINE n == WithPhase(r, p)
<1>1. n \in Request
  BY DEF Request, WithPhase
<1>2. /\ n.pc = p
      /\ n.op = r.op
      /\ n.user = r.user
      /\ n.sid = r.sid
      /\ n.row = r.row
      /\ n.newPw = r.newPw /\ n.access = r.access
  BY DEF Request, WithPhase
<1>. QED
  BY <1>1, <1>2

LEMMA Locals ==
    ASSUME Inv, NEW h \in Handler
    PROVE  req[h] \in Request /\ Fits(req[h], sessions, cred)
BY DEF Inv, TypeOK, LocalsOK

-----------------------------------------------------------------------------
(* Login *)

LEMMA LoginFindUserStep ==
    ASSUME Inv, NEW h \in Handler, LoginFindUser(h) PROVE Inv'
<1> DEFINE r == req[h]
           entry == Entry("LOGIN", r.user, FALSE)
<1>1. /\ r \in Request /\ r.pc = "login_user" /\ r.user \in User /\ r.op = "Login"
      /\ UNCHANGED <<tables, issued>>
  BY Locals DEF LoginFindUser, At, Fits
<1> HIDE DEF r
<1>2. CASE Answer(h, "InvalidCredentials")
  BY <1>1, <1>2, RefuseStep DEF Reply
<1>3. CASE LogAndAnswer(h, entry, "UserInactive")
  <2>1. entry \in AuditRow /\ EntryTrue(entry, sessions)
    BY <1>1 DEF Entry, AuditRow, AuditAction, EntryTrue
  <2>2. /\ Logging(r, entry, "UserInactive") \in Request
        /\ Fits(Logging(r, entry, "UserInactive"), sessions, cred)
    BY <1>1, <2>1, RefusedLoggedFits DEF Reply
  <2>3. Step(h, Logging(r, entry, "UserInactive"))
    BY <1>3 DEF LogAndAnswer, r
  <2>. QED
    BY <1>1, <2>2, <2>3, ReadStep
<1>4. CASE Goto(h, "login_tenant")
  <2> DEFINE n == [r EXCEPT !.pc = "login_tenant"]
  <2>1. n \in Request /\ Fits(n, sessions, cred)
    BY <1>1 DEF Request, Phase, Fits
  <2>. QED
    BY <1>1, <1>4, <2>1, ReadStep DEF Goto, r
<1>. QED
  BY <1>2, <1>3, <1>4 DEF LoginFindUser, r

LEMMA LoginFindTenantStep ==
    ASSUME Inv, NEW h \in Handler, LoginFindTenant(h) PROVE Inv'
<1> DEFINE r == req[h]
           n == [r EXCEPT !.pc = "login_cred"]
<1>1. /\ r \in Request /\ r.pc = "login_tenant" /\ r.user \in User /\ r.op = "Login"
      /\ UNCHANGED <<tables, issued>>
  BY Locals DEF LoginFindTenant, At, Fits
<1> HIDE DEF r
<1>2. n \in Request /\ Fits(n, sessions, cred)
  BY <1>1 DEF Request, Phase, Fits
<1>3. CASE Answer(h, "TenantInactive")
  BY <1>1, <1>3, RefuseStep DEF Reply
<1>4. CASE Goto(h, "login_cred")
  BY <1>1, <1>2, <1>4, ReadStep DEF Goto, r
<1>. QED
  BY <1>3, <1>4 DEF LoginFindTenant, r

LEMMA LoginCheckPasswordStep ==
    ASSUME Inv, NEW h \in Handler, LoginCheckPassword(h) PROVE Inv'
<1> DEFINE r == req[h]
           c == cred[r.user]
           entry == Entry("LOGIN", r.user, FALSE)
           n == WithHash(r, "login_roles", c)
<1>1. /\ r \in Request /\ r.pc = "login_cred" /\ r.user \in User /\ r.op = "Login"
      /\ UNCHANGED <<tables, issued>>
  BY Locals DEF LoginCheckPassword, At, Fits
<1> HIDE DEF r
<1>2. CASE Answer(h, "Internal")
  BY <1>1, <1>2, RefuseStep DEF Reply
<1>3. CASE Answer(h, "InvalidCredentials")
  BY <1>1, <1>3, RefuseStep DEF Reply
<1>4. CASE LogAndAnswer(h, entry, "InvalidCredentials")
  <2>1. entry \in AuditRow /\ EntryTrue(entry, sessions)
    BY <1>1 DEF Entry, AuditRow, AuditAction, EntryTrue
  <2>2. /\ Logging(r, entry, "InvalidCredentials") \in Request
        /\ Fits(Logging(r, entry, "InvalidCredentials"), sessions, cred)
    BY <1>1, <2>1, RefusedLoggedFits DEF Reply
  <2>3. Step(h, Logging(r, entry, "InvalidCredentials"))
    BY <1>4 DEF LogAndAnswer, r
  <2>. QED
    BY <1>1, <2>2, <2>3, ReadStep
<1>5. CASE c # None /\ Step(h, n)
  <2>1. c \in Password /\ cred[r.user] # None /\ Step(h, n)
    BY <1>1, <1>5 DEF Inv, TypeOK
  <2> HIDE DEF c
  <2>2. n \in Request /\ n.pc = "login_roles" /\ n.op = "Login"
        /\ n.user = r.user /\ n.hash = c
    <3>1. "login_roles" \in Phase
      BY DEF Phase
    <3>. QED
      BY <1>1, <2>1, <3>1, HashRead
  <2> HIDE DEF n
  <2>3. Fits(n, sessions, cred)
    BY <1>1, <2>1, <2>2 DEF Fits
  <2>. QED
    BY <1>1, <2>1, <2>2, <2>3, ReadStep
<1>. QED
  BY <1>2, <1>3, <1>4, <1>5 DEF LoginCheckPassword, WithHash, r

LEMMA LoginReadRolesStep ==
    ASSUME Inv, NEW h \in Handler, LoginReadRoles(h) PROVE Inv'
<1> DEFINE r == req[h]
           a == [user |-> r.user, sid |-> None]
           n == WithClaims(r, "login_session", a)
<1>1. /\ r \in Request /\ r.pc = "login_roles" /\ r.user \in User /\ r.op = "Login"
      /\ r.hash \in Password /\ cred[r.user] # None
      /\ UNCHANGED <<tables, issued>>
  BY Locals DEF LoginReadRoles, At, Fits
<1> HIDE DEF r
<1>2. CASE Answer(h, "Internal")
  BY <1>1, <1>2, RefuseStep DEF Reply
<1>3. CASE Step(h, n)
  <2>1. a \in Claims /\ a # None /\ a.sid = None /\ Step(h, n)
    BY <1>1, <1>3, NoneAssumption DEF Claims
  <2> HIDE DEF a
  <2>2. n \in Request /\ n.pc = "login_session" /\ n.op = "Login"
        /\ n.user = r.user /\ n.hash = r.hash /\ n.access = a
    <3>1. "login_session" \in Phase
      BY DEF Phase
    <3>. QED
      BY <1>1, <2>1, <3>1, ClaimsSigned
  <2> HIDE DEF n
  <2>3. Fits(n, sessions, cred)
    BY <1>1, <2>1, <2>2 DEF Fits
  <2>. QED
    BY <1>1, <2>1, <2>2, <2>3, ReadStep
<1>. QED
  BY <1>2, <1>3 DEF LoginReadRoles, WithClaims, r

LEMMA LoginCreateSessionStep ==
    ASSUME Inv, NEW h \in Handler, LoginCreateSession(h) PROVE Inv'
<1> DEFINE r == req[h]
<1>1. /\ r \in Request /\ r.pc = "login_session" /\ r.user \in User /\ r.op = "Login"
      /\ r.hash \in Password /\ cred[r.user] # None
      /\ r.access # None /\ r.access.sid = None
      /\ UNCHANGED <<users, tenantUp, cred, audit, issued>>
      /\ sessions \in Table
  BY Locals DEF LoginCreateSession, At, Fits, Inv, TypeOK, Table
<1> HIDE DEF r
<1>2. PICK s \in FreshSession, t \in FreshToken, o \in DbOutcome :
        LET row == NewRow(r.user, t) IN
        /\ sessions' = IF Applied(o) THEN InsertSession(s, row) ELSE sessions
        /\ \/ (Fails(o) \/ Conflict(s, row)) /\ Answer(h, "Internal")
           \/ /\ ~Fails(o) /\ ~Conflict(s, row)
              /\ Step(h, [r EXCEPT !.pc = "login_touch", !.sid = s, !.token = t])
  BY DEF LoginCreateSession, r
<1> DEFINE row == NewRow(r.user, t)
           n == WithSession(r, "login_touch", s, t)
<1>3. s \in Session /\ t \in Token /\ row \in Row /\ row.user = r.user
      /\ row.jti = AccessTokenID
  BY <1>1 DEF FreshSession, FreshToken, NewRow, Row
<1> HIDE DEF row
<1>4. sessions' \in Table /\ Grows(sessions, sessions')
  BY <1>1, <1>2, <1>3, InsertGrows, GrowsRefl DEF row
<1>5. Conflict(s, row) => sessions' = sessions
  BY <1>2 DEF row, InsertSession
<1>6. ~Conflict(s, row) =>
        /\ UniqueJti => Rows = {}
        /\ sessions' = sessions \/ sessions' = [sessions EXCEPT ![s] = row]
  BY <1>1, <1>2, <1>3, NoneAssumption
     DEF row, InsertSession, Conflict, Rows, RowsOf, Table, Row
<1>7. AtMostOneSession'
  BY <1>1, <1>3, <1>5, <1>6 DEF Inv, AtMostOneSession, Rows, RowsOf, Table
<1>8. NoPasswordNoSession'
  BY <1>1, <1>3, <1>5, <1>6 DEF Inv, NoPasswordNoSession, Rows, RowsOf, Table
<1>9. CASE Answer(h, "Internal")
  BY <1>1, <1>4, <1>7, <1>8, <1>9, RefusedFits, SessionStep DEF Answer, Reply, r
<1>10. CASE ~Fails(o) /\ ~Conflict(s, row) /\ Step(h, n)
  <2>1. sessions' = [sessions EXCEPT ![s] = row]
    BY <1>2, <1>10, ModeAssumption DEF Applied, Fails, InsertSession, DbOutcomes, row
  <2>2. s \in RowsOf(sessions') /\ sessions'[s].user = r.user
    BY <1>1, <1>3, <2>1, NoneAssumption DEF RowsOf, Table
  <2>3. n \in Request /\ n.pc = "login_touch" /\ n.op = "Login"
        /\ n.user = r.user /\ n.hash = r.hash /\ n.access = r.access /\ n.sid = s
    <3>1. "login_touch" \in Phase
      BY DEF Phase
    <3>. QED
      BY <1>1, <1>3, <3>1, SessionMade
  <2> HIDE DEF n
  <2>4. Fits(n, sessions', cred)
    BY <1>1, <2>2, <2>3 DEF Fits
  <2>. QED
    BY <1>1, <1>4, <1>7, <1>8, <1>10, <2>3, <2>4, SessionStep
<1>. QED
  BY <1>2, <1>9, <1>10 DEF row, WithSession

LEMMA LoginTouchCredentialStep ==
    ASSUME Inv, NEW h \in Handler, LoginTouchCredential(h) PROVE Inv'
<1> DEFINE r == req[h]
           entry == Entry("LOGIN", r.user, TRUE)
           n == Logging(r, entry, "ok")
<1>1. /\ r \in Request /\ r.pc = "login_touch" /\ r.user \in User /\ r.op = "Login"
      /\ r.hash \in Password /\ cred[r.user] # None
      /\ r.access # None /\ r.access.sid = None
      /\ r.sid \in RowsOf(sessions) /\ sessions[r.sid].user = r.user
      /\ UNCHANGED <<users, tenantUp, sessions, audit, issued>>
      /\ cred \in CredTable
  BY Locals DEF LoginTouchCredential, At, Fits, Inv, TypeOK, CredTable
<1> HIDE DEF r
<1>2. cred' = cred \/ cred' = [cred EXCEPT ![r.user] = r.hash]
  BY DEF LoginTouchCredential, r
<1>3. cred' \in CredTable /\ SameHolders(cred, cred')
  BY <1>1, <1>2, NoneAssumption DEF CredTable, SameHolders
<1>4. entry \in AuditRow /\ EntryTrue(entry, sessions)
  BY <1>1 DEF Entry, AuditRow, AuditAction, EntryTrue
<1>5. OkTrue([r EXCEPT !.reply = "ok"], sessions)
  BY <1>1 DEF OkTrue, Request
<1>6. n \in Request /\ Fits(n, sessions, cred')
  BY <1>1, <1>4, <1>5, LoggedFits DEF Reply
<1>7. Step(h, n)
  BY DEF LoginTouchCredential, LogAndAnswer, r
<1>. QED
  BY <1>1, <1>3, <1>6, <1>7, CredStep

-----------------------------------------------------------------------------
(* RefreshToken *)

LEMMA RefreshFindSessionStep ==
    ASSUME Inv, NEW h \in Handler, RefreshFindSession(h) PROVE Inv'
<1> DEFINE r == req[h]
<1>1. /\ r \in Request /\ r.pc = "refresh_session" /\ r.op = "RefreshToken"
      /\ UNCHANGED <<tables, issued>>
  BY Locals DEF RefreshFindSession, At, Fits
<1> HIDE DEF r
<1>2. CASE Answer(h, "TokenInvalid")
  BY <1>1, <1>2, RefuseStep DEF Reply
<1>3. CASE Answer(h, "SessionRevoked")
  BY <1>1, <1>3, RefuseStep DEF Reply
<1>4. ASSUME NEW s \in Rows,
             Step(h, WithRow(r, "refresh_user", s, sessions[s], sessions[s].user))
      PROVE  Inv'
  <2> DEFINE row == sessions[s]
             u == row.user
             n == WithRow(r, "refresh_user", s, row, u)
  <2>1. s \in Session /\ s \in RowsOf(sessions) /\ row \in Row /\ u \in User
    BY DEF Inv, TypeOK, Rows, RowsOf, Row
  <2>2. "refresh_user" \in Phase /\ Step(h, n)
    BY <1>4 DEF Phase
  <2> HIDE DEF u, row
  <2>3. n \in Request /\ n.pc = "refresh_user" /\ n.op = "RefreshToken"
        /\ n.user = u /\ n.sid = s /\ n.row = row
    BY <1>1, <2>1, <2>2, SessionRead
  <2> HIDE DEF n
  <2>4. Fits(n, sessions, cred)
    BY <2>1, <2>3 DEF Fits
  <2>. QED
    BY <1>1, <2>2, <2>3, <2>4, ReadStep
<1>5. \/ Answer(h, "TokenInvalid") \/ Answer(h, "SessionRevoked")
      \/ \E s \in Rows :
           Step(h, WithRow(r, "refresh_user", s, sessions[s], sessions[s].user))
  BY DEF RefreshFindSession, WithRow, r
<1>. QED
  BY <1>2, <1>3, <1>4, <1>5

LEMMA RefreshFindUserStep ==
    ASSUME Inv, NEW h \in Handler, RefreshFindUser(h) PROVE Inv'
<1> DEFINE r == req[h]
           n == WithPhase(r, "refresh_roles")
<1>1. /\ r \in Request /\ r.pc = "refresh_user" /\ r.op = "RefreshToken"
      /\ r.user \in User /\ r.sid \in RowsOf(sessions) /\ r.row \in Row
      /\ UNCHANGED <<tables, issued>>
  BY Locals DEF RefreshFindUser, At, Fits
<1> HIDE DEF r
<1>2. CASE Answer(h, "Internal")
  BY <1>1, <1>2, RefuseStep DEF Reply
<1>3. CASE Answer(h, "UserInactive")
  BY <1>1, <1>3, RefuseStep DEF Reply
<1>4. CASE Step(h, n)
  <2>1. "refresh_roles" \in Phase
    BY DEF Phase
  <2>2. n \in Request /\ n.pc = "refresh_roles" /\ n.op = "RefreshToken"
        /\ n.user = r.user /\ n.sid = r.sid /\ n.row = r.row
    BY <1>1, <2>1, Moved
  <2> HIDE DEF n
  <2>3. Fits(n, sessions, cred)
    BY <1>1, <2>2 DEF Fits
  <2>. QED
    BY <1>1, <1>4, <2>2, <2>3, ReadStep
<1>. QED
  BY <1>2, <1>3, <1>4 DEF RefreshFindUser, Goto, WithPhase, r

LEMMA RefreshReadRolesStep ==
    ASSUME Inv, NEW h \in Handler, RefreshReadRoles(h) PROVE Inv'
<1> DEFINE r == req[h]
           a == [user |-> r.user, sid |-> r.sid]
           n == WithClaims(r, "refresh_write", a)
<1>1. /\ r \in Request /\ r.pc = "refresh_roles" /\ r.op = "RefreshToken"
      /\ r.user \in User /\ r.sid \in RowsOf(sessions) /\ r.row \in Row
      /\ UNCHANGED <<tables, issued>>
  BY Locals DEF RefreshReadRoles, At, Fits
<1> HIDE DEF r
<1>2. CASE Answer(h, "Internal")
  BY <1>1, <1>2, RefuseStep DEF Reply
<1>3. CASE Step(h, n)
  <2>1. a \in Claims /\ "refresh_write" \in Phase /\ Step(h, n)
    BY <1>1, <1>3 DEF Claims, RowsOf, Phase
  <2> HIDE DEF a
  <2>2. n \in Request /\ n.pc = "refresh_write" /\ n.op = "RefreshToken"
        /\ n.user = r.user /\ n.sid = r.sid /\ n.row = r.row
    BY <1>1, <2>1, ClaimsSigned
  <2> HIDE DEF n
  <2>3. Fits(n, sessions, cred)
    BY <1>1, <2>2 DEF Fits
  <2>. QED
    BY <1>1, <2>1, <2>2, <2>3, ReadStep
<1>. QED
  BY <1>2, <1>3 DEF RefreshReadRoles, WithClaims, r

\* The INSERT repeats a primary key: it cannot succeed.
\* The INSERT of a refresh always meets the row it was made from.
LEMMA RefreshWriteRefused ==
    ASSUME Inv, NEW h \in Handler, RefreshWrite(h)
    PROVE  UNCHANGED <<tables, issued>> /\ Answer(h, "Internal")
<1> DEFINE r == req[h]
<1>1. r.sid \in Rows
  BY Locals DEF RefreshWrite, At, Fits, Rows
<1>2. \A row : Conflict(r.sid, row)
  BY <1>1 DEF Conflict
<1>3. \A row : InsertSession(r.sid, row) = sessions
  BY <1>2 DEF InsertSession
<1>4. /\ UNCHANGED <<users, tenantUp, cred, audit, issued>>
      /\ sessions' = sessions
      /\ Answer(h, "Internal")
  BY <1>2, <1>3 DEF RefreshWrite
<1>. QED
  BY <1>4 DEF tables

LEMMA RefreshWriteStep ==
    ASSUME Inv, NEW h \in Handler, RefreshWrite(h) PROVE Inv'
BY RefreshWriteRefused, RefuseStep DEF Reply

-----------------------------------------------------------------------------
(* Logout and RevokeSession *)

LEMMA LogoutFindSessionStep ==
    ASSUME Inv, NEW h \in Handler, LogoutFindSession(h) PROVE Inv'
<1> DEFINE r == req[h]
           u == sessions[r.sid].user
           n == WithOwner(r, "logout_revoke", u)
<1>1. /\ r \in Request /\ r.pc = "logout_session" /\ r.op = "Logout"
      /\ r.access = None
      /\ "usecase" \notin Boundary => r.sid = None
      /\ UNCHANGED <<tables, issued>>
  BY Locals DEF LogoutFindSession, At, Fits
<1> HIDE DEF r
<1>2. CASE Answer(h, "NotFound")
  BY <1>1, <1>2, RefuseStep DEF Reply
<1>3. CASE r.sid \in Rows /\ Step(h, n)
  <2>1. /\ r.sid \in RowsOf(sessions) /\ r.sid \in Session /\ u \in User
        /\ "logout_revoke" \in Phase /\ u = sessions[r.sid].user
    BY <1>1, <1>3 DEF Inv, TypeOK, Rows, RowsOf, Row, Phase
  <2>2. "usecase" \in Boundary
    BY <1>1, <2>1, NoneAssumption
  <2> HIDE DEF u
  <2>3. n \in Request /\ n.pc = "logout_revoke" /\ n.op = "Logout"
        /\ n.user = u /\ n.sid = r.sid /\ n.access = None
    BY <1>1, <2>1, OwnerRead
  <2>4. Step(h, n)
    BY <1>3
  <2> HIDE DEF n
  <2>5. Fits(n, sessions, cred)
    BY <2>1, <2>2, <2>3 DEF Fits
  <2>. QED
    BY <1>1, <2>3, <2>4, <2>5, ReadStep
<1>. QED
  BY <1>2, <1>3 DEF LogoutFindSession, WithOwner, r

LEMMA RevokeFindSessionStep ==
    ASSUME Inv, NEW h \in Handler, RevokeFindSession(h) PROVE Inv'
<1> DEFINE r == req[h]
           u == sessions[r.sid].user
           n == WithOwner(r, "revoke_write", u)
<1>1. /\ r \in Request /\ r.pc = "revoke_session" /\ r.op = "RevokeSession"
      /\ r.access = None
      /\ UNCHANGED <<tables, issued>>
  BY Locals DEF RevokeFindSession, At, Fits
<1> HIDE DEF r
<1>2. CASE Answer(h, "NotFound")
  BY <1>1, <1>2, RefuseStep DEF Reply
<1>3. CASE Answer(h, "BadRequest")
  BY <1>1, <1>3, RefuseStep DEF Reply
<1>4. CASE r.sid \in Rows /\ Step(h, n)
  <2>1. /\ r.sid \in RowsOf(sessions) /\ r.sid \in Session /\ u \in User
        /\ "revoke_write" \in Phase /\ u = sessions[r.sid].user
    BY <1>1, <1>4 DEF Inv, TypeOK, Rows, RowsOf, Row, Phase
  <2> HIDE DEF u
  <2>2. n \in Request /\ n.pc = "revoke_write" /\ n.op = "RevokeSession"
        /\ n.user = u /\ n.sid = r.sid /\ n.access = None
    BY <1>1, <2>1, OwnerRead
  <2>3. Step(h, n)
    BY <1>4
  <2> HIDE DEF n
  <2>4. Fits(n, sessions, cred)
    BY <2>1, <2>2 DEF Fits
  <2>. QED
    BY <1>1, <2>2, <2>3, <2>4, ReadStep
<1>. QED
  BY <1>2, <1>3, <1>4 DEF RevokeFindSession, WithOwner, r

LEMMA RevokeKeepsOwner ==
    ASSUME sessions \in Table, NEW s \in Rows
    PROVE  /\ s \in RowsOf(Revoke(s)) /\ Revoke(s)[s].revoked
           /\ Revoke(s)[s].user = sessions[s].user
BY NoneAssumption DEF Revoke, Rows, RowsOf, Table, Row

\* Logout and RevokeSession end alike: the UPDATE, then the audit entry.
LEMMA RevokeThenLog ==
    ASSUME Inv, NEW h \in Handler, NEW action \in {"LOGOUT", "SESSION_REVOKE"},
           req[h].op \in {"Logout", "RevokeSession"}, req[h].access = None,
           req[h].sid \in Rows, req[h].user = sessions[req[h].sid].user,
           NEW o \in DbOutcome,
           sessions' = IF Applied(o) THEN Revoke(req[h].sid) ELSE sessions,
           \/ Fails(o) /\ Answer(h, "Internal")
           \/ ~Fails(o) /\ LogAndAnswer(h, Entry(action, req[h].user, TRUE), "ok"),
           UNCHANGED <<users, tenantUp, cred, audit, issued>>
    PROVE  Inv'
<1> DEFINE r == req[h]
           entry == Entry(action, r.user, TRUE)
           n == Logging(r, entry, "ok")
<1>1. /\ r \in Request /\ r.op \in {"Logout", "RevokeSession"}
      /\ r.access = None /\ r.sid \in Rows /\ r.user = sessions[r.sid].user
      /\ sessions \in Table
  BY Locals DEF Inv, TypeOK, Table
<1>2. r.user \in User
  BY <1>1 DEF Rows, RowsOf, Table, Row
<1>3. /\ sessions' \in Table /\ Grows(sessions, sessions')
      /\ RowsOf(sessions') = Rows
  BY <1>1, RevokeGrows, GrowsRefl DEF Rows
<1>4. Rows' = Rows
  BY <1>3 DEF Rows
<1> HIDE DEF r
<1>5. CASE Answer(h, "Internal")
  BY <1>1, <1>3, <1>4, <1>5, RefusedFits, RevokeStep DEF Answer, Reply, r
<1>6. CASE ~Fails(o) /\ LogAndAnswer(h, entry, "ok")
  <2>1. sessions' = Revoke(r.sid)
    BY <1>6, ModeAssumption DEF Applied, Fails, DbOutcomes, r
  <2>2. /\ r.sid \in RowsOf(sessions') /\ sessions'[r.sid].revoked
        /\ sessions'[r.sid].user = r.user
    BY <1>1, <2>1, RevokeKeepsOwner
  <2>3. entry \in AuditRow /\ EntryTrue(entry, sessions')
    BY <1>2, <2>2 DEF Entry, AuditRow, AuditAction, EntryTrue
  <2>4. OkTrue([r EXCEPT !.reply = "ok"], sessions')
    BY <1>1, <2>2 DEF OkTrue, Request
  <2>5. n \in Request /\ Fits(n, sessions', cred)
    BY <1>1, <2>3, <2>4, LoggedFits DEF Reply
  <2>6. Step(h, n)
    BY <1>6 DEF LogAndAnswer, r
  <2>. QED
    BY <1>3, <1>4, <2>5, <2>6, RevokeStep
<1>. QED
  BY <1>5, <1>6 DEF r

LEMMA LogoutRevokeStep ==
    ASSUME Inv, NEW h \in Handler, LogoutRevoke(h) PROVE Inv'
<1>1. /\ req[h].op = "Logout" /\ req[h].access = None /\ req[h].sid \in Rows
      /\ req[h].user = sessions[req[h].sid].user
  BY Locals DEF LogoutRevoke, At, Fits, Rows
<1>. QED
  BY <1>1, RevokeThenLog DEF LogoutRevoke

LEMMA RevokeWriteStep ==
    ASSUME Inv, NEW h \in Handler, RevokeWrite(h) PROVE Inv'
<1>1. /\ req[h].op = "RevokeSession" /\ req[h].access = None /\ req[h].sid \in Rows
      /\ req[h].user = sessions[req[h].sid].user
  BY Locals DEF RevokeWrite, At, Fits, Rows
<1>. QED
  BY <1>1, RevokeThenLog DEF RevokeWrite

LEMMA RevokeOthersStep ==
    ASSUME Inv, NEW h \in Handler, RevokeOthers(h) PROVE Inv'
<1> DEFINE r == req[h]
<1>1. /\ r \in Request /\ r.op = "RevokeAllOtherSessions" /\ sessions \in Table
      /\ UNCHANGED <<users, tenantUp, cred, audit, issued>>
  BY Locals DEF RevokeOthers, At, Fits, Inv, TypeOK, Table
<1>2. \/ sessions' = sessions
      \/ sessions' = RevokeAllUserSessions(r.user, r.sid)
  BY DEF RevokeOthers
<1>3. PICK reply \in {"ok", "Internal"} : Answer(h, reply)
  BY DEF RevokeOthers
<1> HIDE DEF r
<1>4. /\ sessions' \in Table /\ Grows(sessions, sessions')
      /\ RowsOf(sessions') = Rows
  BY <1>1, <1>2, RevokeAllGrows, GrowsRefl DEF Rows
<1>5. OkTrue([r EXCEPT !.reply = reply], sessions')
  BY <1>1 DEF OkTrue, Request
<1>6. reply \in Reply
  BY DEF Reply
<1>7. /\ Answered(r, reply) \in Request
      /\ Fits(Answered(r, reply), sessions', cred)
  BY <1>1, <1>5, <1>6, AnsweredFits
<1>8. Step(h, Answered(r, reply))
  BY <1>3 DEF Answer, r
<1>. QED
  BY <1>1, <1>4, <1>7, <1>8, RevokeStep DEF Rows

-----------------------------------------------------------------------------
(* ChangePassword *)

LEMMA ChangeCheckPasswordStep ==
    ASSUME Inv, NEW h \in Handler, ChangeCheckPassword(h) PROVE Inv'
<1> DEFINE r == req[h]
           n == WithPhase(r, "change_write")
<1>1. /\ r \in Request /\ r.op = "ChangePassword" /\ r.user \in User
      /\ r.newPw \in Password /\ r.access = None
      /\ UNCHANGED <<tables, issued>>
  BY Locals DEF ChangeCheckPassword, At, Fits
<1> HIDE DEF r
<1>2. CASE Answer(h, "Internal")
  BY <1>1, <1>2, RefuseStep DEF Reply
<1>3. CASE Answer(h, "BadRequest")
  BY <1>1, <1>3, RefuseStep DEF Reply
<1>4. CASE Answer(h, "InvalidCredentials")
  BY <1>1, <1>4, RefuseStep DEF Reply
<1>5. CASE cred[r.user] # None /\ Step(h, n)
  <2>1. "change_write" \in Phase
    BY DEF Phase
  <2>2. /\ n \in Request /\ n.pc = "change_write" /\ n.op = "ChangePassword"
        /\ n.user = r.user /\ n.newPw = r.newPw /\ n.access = None
    BY <1>1, <2>1, Moved
  <2>3. Step(h, n)
    BY <1>5
  <2> HIDE DEF n
  <2>4. Fits(n, sessions, cred)
    BY <1>1, <1>5, <2>2 DEF Fits
  <2>. QED
    BY <1>1, <2>2, <2>3, <2>4, ReadStep
<1>. QED
  BY <1>2, <1>3, <1>4, <1>5 DEF ChangeCheckPassword, Goto, WithPhase, r

LEMMA ChangeWriteStep ==
    ASSUME Inv, NEW h \in Handler, ChangeWrite(h) PROVE Inv'
<1> DEFINE r == req[h]
           n == WithPhase(r, "change_revoke")
<1>1. /\ r \in Request /\ r.op = "ChangePassword" /\ r.user \in User
      /\ r.newPw \in Password /\ r.access = None /\ cred[r.user] # None
      /\ cred \in CredTable
      /\ UNCHANGED <<users, tenantUp, sessions, audit, issued>>
  BY Locals DEF ChangeWrite, At, Fits, Inv, TypeOK, CredTable
<1>2. cred' = cred \/ cred' = [cred EXCEPT ![r.user] = r.newPw]
  BY DEF ChangeWrite
<1> HIDE DEF r
<1>3. cred' \in CredTable /\ SameHolders(cred, cred')
  BY <1>1, <1>2, NoneAssumption DEF CredTable, SameHolders
<1>4. CASE Answer(h, "Internal")
  BY <1>1, <1>3, <1>4, RefusedFits, CredStep DEF Answer, Reply, r
<1>5. CASE Step(h, n)
  <2>1. "change_revoke" \in Phase
    BY DEF Phase
  <2>2. /\ n \in Request /\ n.pc = "change_revoke" /\ n.op = "ChangePassword"
        /\ n.user = r.user /\ n.newPw = r.newPw /\ n.access = None
    BY <1>1, <2>1, Moved
  <2>3. Step(h, n)
    BY <1>5
  <2> HIDE DEF n
  <2>4. Fits(n, sessions, cred')
    BY <1>1, <2>2 DEF Fits
  <2>. QED
    BY <1>1, <1>3, <2>2, <2>3, <2>4, CredStep
<1>. QED
  BY <1>4, <1>5 DEF ChangeWrite, Goto, WithPhase, r

LEMMA ChangeRevokeStep ==
    ASSUME Inv, NEW h \in Handler, ChangeRevoke(h) PROVE Inv'
<1> DEFINE r == req[h]
           entry == Entry("PASSWORD_CHANGE", r.user, TRUE)
           n == Logging(r, entry, "ok")
<1>1. /\ r \in Request /\ r.op = "ChangePassword" /\ r.user \in User
      /\ r.access = None /\ sessions \in Table
      /\ UNCHANGED <<users, tenantUp, cred, audit, issued>>
  BY Locals DEF ChangeRevoke, At, Fits, Inv, TypeOK, Table
<1>2. sessions' = sessions \/ sessions' = RevokeAllUserSessions(r.user, None)
  BY DEF ChangeRevoke
<1>3. Step(h, n)
  BY DEF ChangeRevoke, LogAndAnswer
<1> HIDE DEF r
<1>4. /\ sessions' \in Table /\ Grows(sessions, sessions')
      /\ RowsOf(sessions') = Rows
  BY <1>1, <1>2, RevokeAllGrows, GrowsRefl DEF Rows
<1>5. entry \in AuditRow /\ EntryTrue(entry, sessions')
  BY <1>1 DEF Entry, AuditRow, AuditAction, EntryTrue
<1>6. OkTrue([r EXCEPT !.reply = "ok"], sessions')
  BY <1>1 DEF OkTrue, Request
<1>7. n \in Request /\ Fits(n, sessions', cred)
  BY <1>1, <1>5, <1>6, LoggedFits DEF Reply
<1>. QED
  BY <1>1, <1>3, <1>4, <1>7, RevokeStep DEF Rows

-----------------------------------------------------------------------------
(* The audit insert, the beginning of requests, the environment *)

LEMMA AuditStep ==
    ASSUME Inv, NEW h \in Handler, Audit(h) PROVE Inv'
<1> DEFINE r == req[h]
           n == Answered(r, r.reply)
<1>1. /\ r \in Request /\ r.log \in AuditRow /\ EntryTrue(r.log, sessions)
      /\ r.reply \in Reply /\ OkTrue(r, sessions)
      /\ r.access # None /\ r.reply = "ok" => r.access.sid = None
      /\ UNCHANGED <<users, tenantUp, cred, sessions>>
  BY Locals DEF Audit, At, Fits
<1>2. /\ Step(h, n)
      /\ audit' = audit \/ audit' = audit \cup {r.log}
      /\ \/ issued' = issued
         \/ r.access # None /\ r.reply = "ok" /\ issued' = issued \cup {r.access}
  BY DEF Audit, Answer
<1> HIDE DEF r
<1>3. OkTrue([r EXCEPT !.reply = r.reply], sessions)
  BY <1>1 DEF OkTrue, Request
<1>4. n \in Request /\ Fits(n, sessions, cred)
  BY <1>1, <1>3, AnsweredFits
<1>5. Grows(sessions, sessions') /\ SameHolders(cred, cred')
  BY <1>1, GrowsRefl DEF SameHolders
<1>6. req' \in [Handler -> Request] /\ LocalsOK'
  BY <1>1, <1>2, <1>4, <1>5, OthersFit
<1>7. audit' \subseteq AuditRow /\ AuditSound'
  BY <1>1, <1>2 DEF Inv, TypeOK, AuditSound
<1>8. r.access # None => r.access \in Claims
  BY <1>1 DEF Request
<1>9. issued' \subseteq Claims /\ IssuedOK'
  BY <1>1, <1>2, <1>8 DEF Inv, TypeOK, IssuedOK
<1>. QED
  BY <1>1, <1>6, <1>7, <1>9 DEF Inv, TypeOK, AtMostOneSession, NoPasswordNoSession, Rows

LEMMA AdvanceStep ==
    ASSUME Inv, NEW h \in Handler, Advance(h) PROVE Inv'
BY LoginFindUserStep, LoginFindTenantStep, LoginCheckPasswordStep,
   LoginReadRolesStep, LoginCreateSessionStep, LoginTouchCredentialStep,
   RefreshFindSessionStep, RefreshFindUserStep, RefreshReadRolesStep,
   RefreshWriteStep, LogoutFindSessionStep, LogoutRevokeStep,
   ChangeCheckPasswordStep, ChangeWriteStep, ChangeRevokeStep,
   RevokeFindSessionStep, RevokeWriteStep, RevokeOthersStep, AuditStep
   DEF Advance

LEMMA ArriveStep ==
    ASSUME Inv, NEW h \in Handler, Arrive(h) PROVE Inv'
<1>1. ASSUME NEW u \in User, NEW p \in Password, Login(h, u, p) PROVE Inv'
  <2> DEFINE r == [Blank EXCEPT !.op = "Login", !.pc = "login_user",
                                !.user = u, !.pw = p]
  <2>1. r \in Request
    BY DEF Request, Blank, Operation, Phase
  <2>2. r.pc = "login_user" /\ r.op = "Login" /\ r.user = u /\ r.reply = None
    BY DEF Blank
  <2>3. Begin(h, r)
    BY <1>1 DEF Login
  <2> HIDE DEF r
  <2>4. Fits(r, sessions, cred)
    BY <2>2 DEF Fits
  <2>. QED
    BY <2>1, <2>3, <2>4, ReadStep DEF Begin
<1>2. ASSUME NEW t \in Token, RefreshToken(h, t) PROVE Inv'
  <2> DEFINE r == [Blank EXCEPT !.op = "RefreshToken", !.pc = "refresh_session",
                                !.token = t]
  <2>1. r \in Request
    BY DEF Request, Blank, Operation, Phase
  <2>2. r.pc = "refresh_session" /\ r.op = "RefreshToken"
    BY DEF Blank
  <2>3. Begin(h, r)
    BY <1>2 DEF RefreshToken
  <2> HIDE DEF r
  <2>4. Fits(r, sessions, cred)
    BY <2>2 DEF Fits
  <2>. QED
    BY <2>1, <2>3, <2>4, ReadStep DEF Begin
<1>3. ASSUME NEW s \in Session \cup {None}, Logout(h, s) PROVE Inv'
  <2> DEFINE r == [Blank EXCEPT !.op = "Logout", !.pc = "logout_session", !.sid = s]
  <2>1. r \in Request
    BY DEF Request, Blank, Operation, Phase
  <2>2. r.pc = "logout_session" /\ r.op = "Logout" /\ r.sid = s /\ r.access = None
    BY DEF Blank
  <2>3. Begin(h, r) /\ ("usecase" \notin Boundary => s = None)
    BY <1>3 DEF Logout, Inv, IssuedOK
  <2> HIDE DEF r
  <2>4. Fits(r, sessions, cred)
    BY <2>2, <2>3 DEF Fits
  <2>. QED
    BY <2>1, <2>3, <2>4, ReadStep DEF Begin
<1>4. ASSUME NEW s \in Session \cup {None}, RevokeSession(h, s) PROVE Inv'
  <2> DEFINE r == [Blank EXCEPT !.op = "RevokeSession", !.pc = "revoke_session",
                                !.sid = s]
  <2>1. r \in Request
    BY DEF Request, Blank, Operation, Phase
  <2>2. r.pc = "revoke_session" /\ r.op = "RevokeSession" /\ r.access = None
    BY DEF Blank
  <2>3. Begin(h, r)
    BY <1>4 DEF RevokeSession
  <2> HIDE DEF r
  <2>4. Fits(r, sessions, cred)
    BY <2>2 DEF Fits
  <2>. QED
    BY <2>1, <2>3, <2>4, ReadStep DEF Begin
<1>5. ASSUME NEW u \in User, NEW old \in Password, NEW new \in Password,
             ChangePassword(h, u, old, new) PROVE Inv'
  <2> DEFINE r == [Blank EXCEPT !.op = "ChangePassword", !.pc = "change_cred",
                                !.user = u, !.pw = old, !.newPw = new]
  <2>1. r \in Request
    BY DEF Request, Blank, Operation, Phase
  <2>2. /\ r.pc = "change_cred" /\ r.op = "ChangePassword" /\ r.user = u
        /\ r.newPw = new /\ r.access = None
    BY DEF Blank
  <2>3. Begin(h, r)
    BY <1>5 DEF ChangePassword
  <2> HIDE DEF r
  <2>4. Fits(r, sessions, cred)
    BY <2>2 DEF Fits
  <2>. QED
    BY <2>1, <2>3, <2>4, ReadStep DEF Begin
<1>6. ASSUME NEW u \in User, NEW s \in Session \cup {None},
             RevokeAllOtherSessions(h, u, s) PROVE Inv'
  <2> DEFINE r == [Blank EXCEPT !.op = "RevokeAllOtherSessions",
                                !.pc = "revoke_others", !.user = u, !.sid = s]
  <2>1. r \in Request
    BY DEF Request, Blank, Operation, Phase
  <2>2. r.pc = "revoke_others" /\ r.op = "RevokeAllOtherSessions" /\ r.user = u
    BY DEF Blank
  <2>3. Begin(h, r)
    BY <1>6 DEF RevokeAllOtherSessions
  <2> HIDE DEF r
  <2>4. Fits(r, sessions, cred)
    BY <2>2 DEF Fits
  <2>. QED
    BY <2>1, <2>3, <2>4, ReadStep DEF Begin
<1>7. ASSUME NEW op \in {"Logout", "ChangePassword"},
             Unauthenticated(h, op) PROVE Inv'
  <2> DEFINE r == [Blank EXCEPT !.op = op, !.reply = "Unauthorized"]
  <2>1. Begin(h, r)
    BY <1>7 DEF Unauthenticated
  <2>2. r \in Request
    BY DEF Request, Blank, Operation, Phase, Reply
  <2>3. r.pc = "done" /\ r.reply = "Unauthorized"
    BY DEF Blank
  <2> HIDE DEF r
  <2>4. Fits(r, sessions, cred)
    BY <2>3 DEF Fits, OkTrue
  <2>. QED
    BY <2>1, <2>2, <2>4, ReadStep DEF Begin
<1>. QED
  BY <1>1, <1>2, <1>3, <1>4, <1>5, <1>6, <1>7 DEF Arrive

\* A step that runs no request: the tables grow and the requests are those
\* there were, or none.
LEMMA EnvironmentStep ==
    ASSUME Inv, Environment PROVE Inv'
<1>1. ASSUME NEW u \in User, NEW st \in UserState, SetUserState(u, st) PROVE Inv'
  BY <1>1 DEF SetUserState, Inv, TypeOK, AtMostOneSession, NoPasswordNoSession,
              AuditSound, IssuedOK, LocalsOK, Rows
<1>2. CASE SetTenantState
  BY <1>2 DEF SetTenantState, Inv, TypeOK, AtMostOneSession, NoPasswordNoSession,
              AuditSound, IssuedOK, LocalsOK, Rows
<1>3. ASSUME NEW s \in Session, Expire(s) PROVE Inv'
  <2>1. /\ sessions \in Table /\ s \in Rows
        /\ sessions' = [sessions EXCEPT ![s].expired = TRUE]
        /\ UNCHANGED <<users, tenantUp, cred, audit, issued, req>>
    BY <1>3 DEF Expire, Inv, TypeOK, Table
  <2>2. sessions' \in Table /\ Grows(sessions, sessions') /\ Rows' = Rows
    BY <2>1, NoneAssumption DEF Grows, Rows, RowsOf, Table, Row
  <2>3. SameHolders(cred, cred')
    BY <2>1 DEF SameHolders
  <2>4. LocalsOK'
    BY <2>1, <2>2, <2>3, FitsStays DEF Inv, LocalsOK
  <2>5. AuditSound'
    BY <2>1, <2>2, EntryStays DEF Inv, AuditSound
  <2>6. NoPasswordNoSession'
    BY <2>1, <2>2 DEF Inv, NoPasswordNoSession, Grows, Rows
  <2>. QED
    BY <2>1, <2>2, <2>4, <2>5, <2>6
       DEF Inv, TypeOK, Table, AtMostOneSession, IssuedOK
<1>4. CASE Crash
  <2>1. Blank \in Request /\ Blank.pc = "done" /\ Blank.reply = None
    BY DEF Blank, Request, Phase
  <2>2. Fits(Blank, sessions, cred)
    BY <2>1, NoneAssumption DEF Fits, OkTrue, Reply
  <2>3. /\ UNCHANGED <<users, tenantUp, cred, sessions, audit, issued>>
        /\ req' = [h \in Handler |-> Blank]
    BY <1>4 DEF Crash, tables
  <2>. QED
    BY <2>1, <2>2, <2>3 DEF Inv, TypeOK, AtMostOneSession, NoPasswordNoSession,
                            AuditSound, IssuedOK, LocalsOK, Rows
<1>. QED
  BY <1>1, <1>2, <1>3, <1>4 DEF Environment

LEMMA InitInv ==
    ASSUME Init PROVE Inv
<1>1. Blank \in Request /\ Blank.pc = "done" /\ Blank.reply # "ok"
  <2>1. Blank \in Request
    BY DEF Blank, Request, Phase
  <2>. QED
    BY <2>1, NoneAssumption DEF Blank, Reply
<1>2. /\ users \in [User -> UserState]
      /\ tenantUp \in BOOLEAN
      /\ cred \in [User -> Password \cup {None}]
      /\ sessions \in [Session -> Row \cup {None}] /\ Rows = {}
      /\ audit = {}
      /\ issued = {}
      /\ req = [h \in Handler |-> Blank]
  BY DEF Init, Rows, RowsOf
<1>3. Fits(Blank, sessions, cred)
  BY <1>1 DEF Fits, OkTrue
<1>. QED
  BY <1>1, <1>2, <1>3 DEF Inv, TypeOK, AtMostOneSession, NoPasswordNoSession,
                          AuditSound, IssuedOK, LocalsOK

LEMMA NextInv ==
    ASSUME Inv, [Next]_vars PROVE Inv'
<1>1. CASE Next
  BY <1>1, ArriveStep, AdvanceStep, EnvironmentStep DEF Next
<1>2. CASE UNCHANGED vars
  BY <1>2 DEF vars, Inv, TypeOK, AtMostOneSession, NoPasswordNoSession,
              AuditSound, IssuedOK, LocalsOK, Rows
<1>. QED
  BY <1>1, <1>2

-----------------------------------------------------------------------------
(* Every step lets the sessions table grow *)

LEMMA ArriveReads ==
    ASSUME NEW h \in Handler, Arrive(h) PROVE UNCHANGED tables
BY Zenon DEF Arrive, Login, RefreshToken, Logout, RevokeSession, ChangePassword,
             RevokeAllOtherSessions, Unauthenticated, Begin

LEMMA NextGrows ==
    ASSUME Inv, [Next]_vars PROVE Grows(sessions, sessions')
<1>1. sessions \in Table
  BY DEF Inv, TypeOK, Table
<1>2. ASSUME NEW h \in Handler, LoginCreateSession(h)
      PROVE  Grows(sessions, sessions')
  <2>1. PICK s \in Session, t \in Token, o \in DbOutcome :
          sessions' = IF Applied(o) THEN InsertSession(s, NewRow(req[h].user, t))
                                    ELSE sessions
    BY <1>2 DEF LoginCreateSession, FreshSession, FreshToken
  <2>2. req[h].user \in User
    BY <1>2, Locals DEF LoginCreateSession, At, Fits
  <2>3. NewRow(req[h].user, t) \in Row
    BY <2>2 DEF NewRow, Row
  <2>. QED
    BY <1>1, <2>1, <2>3, InsertGrows, GrowsRefl
<1>3. ASSUME NEW h \in Handler, RefreshWrite(h)
      PROVE  Grows(sessions, sessions')
  BY <1>3, RefreshWriteRefused, GrowsRefl DEF tables
<1>4. ASSUME NEW h \in Handler,
             LogoutRevoke(h) \/ RevokeWrite(h) \/ ChangeRevoke(h) \/ RevokeOthers(h)
      PROVE  Grows(sessions, sessions')
  <2>1. \/ sessions' = sessions
        \/ sessions' = Revoke(req[h].sid)
        \/ sessions' = RevokeAllUserSessions(req[h].user, None)
        \/ sessions' = RevokeAllUserSessions(req[h].user, req[h].sid)
    BY <1>4 DEF LogoutRevoke, RevokeWrite, ChangeRevoke, RevokeOthers
  <2>. QED
    BY <1>1, <2>1, RevokeGrows, RevokeAllGrows, GrowsRefl
<1>5. ASSUME NEW s \in Session, Expire(s) PROVE Grows(sessions, sessions')
  <2>1. s \in Rows /\ sessions' = [sessions EXCEPT ![s].expired = TRUE]
    BY <1>5 DEF Expire
  <2>. QED
    BY <1>1, <2>1, NoneAssumption DEF Grows, Rows, RowsOf, Table, Row
<1>6. ASSUME UNCHANGED sessions PROVE Grows(sessions, sessions')
  BY <1>6, GrowsRefl
<1>7. ASSUME NEW h \in Handler, Arrive(h) PROVE UNCHANGED sessions
  BY <1>7, ArriveReads DEF tables
<1>8. ASSUME NEW h \in Handler,
             \/ LoginFindUser(h) \/ LoginFindTenant(h) \/ LoginCheckPassword(h)
             \/ LoginReadRoles(h) \/ LoginTouchCredential(h)
             \/ RefreshFindSession(h) \/ RefreshFindUser(h) \/ RefreshReadRoles(h)
             \/ LogoutFindSession(h) \/ ChangeCheckPassword(h) \/ ChangeWrite(h)
             \/ RevokeFindSession(h) \/ Audit(h)
      PROVE  UNCHANGED sessions
  <2>1. CASE LoginFindUser(h) \/ LoginFindTenant(h) \/ LoginCheckPassword(h)
             \/ LoginReadRoles(h)
    BY <2>1 DEF LoginFindUser, LoginFindTenant, LoginCheckPassword,
                LoginReadRoles, tables
  <2>2. CASE RefreshFindSession(h)
    BY <2>2, Zenon DEF RefreshFindSession, tables
  <2>3. CASE RefreshFindUser(h) \/ RefreshReadRoles(h)
    BY <2>3 DEF RefreshFindUser, RefreshReadRoles, tables
  <2>4. CASE LogoutFindSession(h) \/ RevokeFindSession(h)
    BY <2>4, Zenon DEF LogoutFindSession, RevokeFindSession, tables
  <2>5. CASE ChangeCheckPassword(h)
    BY <2>5 DEF ChangeCheckPassword, tables
  <2>6. CASE LoginTouchCredential(h) \/ ChangeWrite(h) \/ Audit(h)
    BY <2>6 DEF LoginTouchCredential, ChangeWrite, Audit
  <2>. QED
    BY <1>8, <2>1, <2>2, <2>3, <2>4, <2>5, <2>6
<1>9. ASSUME \/ \E u \in User, st \in UserState : SetUserState(u, st)
             \/ SetTenantState \/ Crash \/ UNCHANGED vars
      PROVE  UNCHANGED sessions
  BY <1>9 DEF SetUserState, SetTenantState, Crash, tables, vars
<1>. QED
  BY <1>2, <1>3, <1>4, <1>5, <1>6, <1>7, <1>8, <1>9
     DEF Next, Advance, Environment

-----------------------------------------------------------------------------
(* The theorems *)

\* Inv holds in every reachable state, however many requests run and wherever
\* they are interrupted: the strengthening on which the others rest.
THEOREM Invariance == Spec => []Inv
<1>1. Init => Inv
  BY InitInv
<1>2. Inv /\ [Next]_vars => Inv'
  BY NextInv
<1>. QED
  BY <1>1, <1>2, PTL DEF Spec

\* The tables and the requests keep their types.
THEOREM TypeCorrect == Spec => []TypeOK
<1>1. Inv => TypeOK
  BY DEF Inv
<1>. QED
  BY <1>1, Invariance, PTL

\* With the migration's UNIQUE access_token_id, the service never holds a
\* second session row, for any number of users and requests.
THEOREM SingleSession == Spec => []AtMostOneSession
<1>1. Inv => AtMostOneSession
  BY DEF Inv
<1>. QED
  BY <1>1, Invariance, PTL

\* A session's user has a password: logins that write back the credential they
\* read never give one to an account without.
THEOREM PasswordBehindSession == Spec => []NoPasswordNoSession
<1>1. Inv => NoPasswordNoSession
  BY DEF Inv
<1>. QED
  BY <1>1, Invariance, PTL

\* What the audit trail reports did happen and still holds.
THEOREM AuditTrailSound == Spec => []AuditSound
<1>1. Inv => AuditSound
  BY DEF Inv
<1>. QED
  BY <1>1, Invariance, PTL

\* What a client was told stays true under every later request.
THEOREM AnswersStayTrue == Spec => []AnswersMatchStore
<1>1. Inv => AnswersMatchStore
  BY DEF Inv, LocalsOK, Fits, AnswersMatchStore, At
<1>. QED
  BY <1>1, Invariance, PTL

\* Over HTTP no logout revokes anything.
THEOREM LogoutIsIdle == Spec => []LogoutRevokesNothing
<1>1. Inv => LogoutRevokesNothing
  BY DEF Inv, LocalsOK, Fits, LogoutRevokesNothing, At
<1>. QED
  BY <1>1, Invariance, PTL

\* A session that is revoked or expired stays so, in every interleaving of
\* refreshes, logouts, revocations and password changes.
THEOREM RevocationFinal == Spec => RevocationIsFinal
<1>1. Inv /\ [Next]_vars =>
        [\A s \in Rows :
           /\ sessions'[s] # None
           /\ sessions[s].revoked => sessions'[s].revoked
           /\ sessions[s].expired => sessions'[s].expired]_vars
  BY NextGrows DEF Grows, Rows, RowsOf
<1>. QED
  BY <1>1, Invariance, PTL DEF Spec, RevocationIsFinal

\* No refresh ever changes the refresh token, or the user, of a session.
THEOREM TokensNeverRotate == Spec => NoRotation
<1>1. Inv /\ [Next]_vars =>
        [\A s \in Rows : /\ sessions'[s].user = sessions[s].user
                         /\ sessions'[s].hash = sessions[s].hash]_vars
  BY NextGrows DEF Grows, Rows
<1>. QED
  BY <1>1, Invariance, PTL DEF Spec, NoRotation
-----------------------------------------------------------------------------
(* Accounts as AccountLife has them *)

\* The two statements that write a credential write one that has a password.
LEMMA NextHolders ==
    ASSUME Inv, [Next]_vars PROVE SameHolders(cred, cred')
<1>1. ASSUME NEW h \in Handler, LoginTouchCredential(h) \/ ChangeWrite(h)
      PROVE  SameHolders(cred, cred')
  <2> DEFINE u == req[h].user
  <2>1. u \in User /\ cred[u] # None /\ cred \in CredTable
    BY <1>1, Locals DEF LoginTouchCredential, ChangeWrite, At, Fits, Inv, TypeOK, CredTable
  <2>2. \/ cred' = cred
        \/ \E p \in Password : cred' = [cred EXCEPT ![u] = p]
    <3>1. CASE LoginTouchCredential(h)
      <4>1. req[h].hash \in Password
        BY <3>1, Locals DEF LoginTouchCredential, At, Fits
      <4>. QED
        BY <3>1, <4>1 DEF LoginTouchCredential
    <3>2. CASE ChangeWrite(h)
      <4>1. req[h].newPw \in Password
        BY <3>2, Locals DEF ChangeWrite, At, Fits
      <4>. QED
        BY <3>2, <4>1 DEF ChangeWrite
    <3>. QED
      BY <1>1, <3>1, <3>2
  <2>. QED
    BY <2>1, <2>2, NoneAssumption DEF SameHolders, CredTable
<1>2. ASSUME UNCHANGED cred PROVE SameHolders(cred, cred')
  BY <1>2 DEF SameHolders
<1>3. ASSUME NEW h \in Handler, Arrive(h) PROVE UNCHANGED cred
  BY <1>3, ArriveReads DEF tables
<1>4. ASSUME NEW h \in Handler,
             \/ LoginFindUser(h) \/ LoginFindTenant(h) \/ LoginCheckPassword(h)
             \/ LoginReadRoles(h) \/ LoginCreateSession(h)
             \/ RefreshFindSession(h) \/ RefreshFindUser(h) \/ RefreshReadRoles(h)
             \/ RefreshWrite(h) \/ LogoutFindSession(h) \/ LogoutRevoke(h)
             \/ ChangeCheckPassword(h) \/ ChangeRevoke(h) \/ RevokeFindSession(h)
             \/ RevokeWrite(h) \/ RevokeOthers(h) \/ Audit(h)
      PROVE  UNCHANGED cred
  BY <1>4, Zenon
     DEF LoginFindUser, LoginFindTenant, LoginCheckPassword, LoginReadRoles,
         LoginCreateSession, RefreshFindSession, RefreshFindUser, RefreshReadRoles,
         RefreshWrite, LogoutFindSession, LogoutRevoke, ChangeCheckPassword,
         ChangeRevoke, RevokeFindSession, RevokeWrite, RevokeOthers, Audit, tables
<1>5. ASSUME Environment \/ UNCHANGED vars PROVE UNCHANGED cred
  BY <1>5 DEF Environment, SetUserState, SetTenantState, Expire, Crash, tables, vars
<1>. QED
  BY <1>1, <1>2, <1>3, <1>4, <1>5 DEF Next, Advance

\* Only administrators change the state of an account.
LEMMA OnlyAdministrators ==
    ASSUME [Next]_vars, ~\E u \in User, st \in UserState : SetUserState(u, st)
    PROVE  UNCHANGED users
<1>1. ASSUME NEW h \in Handler, Arrive(h) PROVE UNCHANGED users
  BY <1>1, ArriveReads DEF tables
<1>2. ASSUME NEW h \in Handler, Advance(h) PROVE UNCHANGED users
  BY <1>2, Zenon
     DEF Advance, LoginFindUser, LoginFindTenant, LoginCheckPassword, LoginReadRoles,
         LoginCreateSession, LoginTouchCredential, RefreshFindSession,
         RefreshFindUser, RefreshReadRoles, RefreshWrite, LogoutFindSession,
         LogoutRevoke, ChangeCheckPassword, ChangeWrite, ChangeRevoke,
         RevokeFindSession, RevokeWrite, RevokeOthers, Audit, tables
<1>3. ASSUME SetTenantState \/ Crash \/ UNCHANGED vars \/ \E s \in Session : Expire(s)
      PROVE  UNCHANGED users
  BY <1>3 DEF SetTenantState, Expire, Crash, tables, vars
<1>. QED
  BY <1>1, <1>2, <1>3 DEF Next, Environment

\* Signing in and its administrators treat accounts as AccountLife says, which
\* is also what the usecases of Accounts do: the two modules describe one life.
THEOREM AccountsLive == Spec => AccountsKept
<1> DEFINE holders == {u \in User : cred[u] # None}
<1>1. Init => Life!Init
  BY DEF Init, Life!Init, Life!State, UserState
<1>2. Inv /\ [Next]_vars => [Life!Next]_(Life!vars)
  <2> SUFFICES ASSUME Inv, [Next]_vars PROVE [Life!Next]_(Life!vars)
    OBVIOUS
  <2>1. holders' = holders
    BY NextHolders DEF SameHolders
  <2>2. CASE UNCHANGED users
    BY <2>1, <2>2 DEF Life!vars
  <2>3. ASSUME NEW u \in User, NEW st \in UserState, SetUserState(u, st)
        PROVE  Life!Change(u)
    <3>1. users[u] \in {"active", "inactive"}
      BY <2>3 DEF SetUserState, UserState, Inv, TypeOK
    <3>2. st \in {"active", "inactive", "deleted"} /\ users' = [users EXCEPT ![u] = st]
      BY <2>3 DEF SetUserState, UserState
    <3>. QED
      BY <2>1, <3>1, <3>2 DEF Life!Change
  <2>. QED
    BY <2>2, <2>3, OnlyAdministrators DEF Life!Next
<1>. QED
  BY Invariance, <1>1, <1>2, PTL DEF Spec, AccountsKept, Life!Spec
-----------------------------------------------------------------------------
(* Requests end *)

\* How many statements a request in this phase has still to run, at most.
StatementsLeft(p) ==
    IF p = "done" THEN 0
    ELSE IF p \in {"audit", "revoke_others"} THEN 1
    ELSE IF p \in {"login_touch", "refresh_write", "logout_revoke",
                   "change_revoke", "revoke_write"} THEN 2
    ELSE IF p \in {"login_session", "refresh_roles", "logout_session",
                   "change_write", "revoke_session"} THEN 3
    ELSE IF p \in {"login_roles", "refresh_user", "change_cred"} THEN 4
    ELSE IF p \in {"login_cred", "refresh_session"} THEN 5
    ELSE IF p = "login_tenant" THEN 6 ELSE 7

Left(h) == StatementsLeft(req[h].pc)

\* Request h is the one that moves, to a phase of P.
Turns(h, P) ==
    /\ \A g \in Handler \ {h} : req'[g] = req[g]
    /\ req'[h].pc \in P

LEMMA Phases ==
    ASSUME req \in [Handler -> Request], NEW h \in Handler
    PROVE  /\ \A reply : Answer(h, reply) => Turns(h, {"done"})
           /\ \A entry, reply : LogAndAnswer(h, entry, reply) => Turns(h, {"audit"})
           /\ \A p : Goto(h, p) => Turns(h, {p})
           /\ \A p, c : Step(h, WithHash(req[h], p, c)) => Turns(h, {p})
           /\ \A p, a : Step(h, WithClaims(req[h], p, a)) => Turns(h, {p})
           /\ \A p, s, t : Step(h, WithSession(req[h], p, s, t)) => Turns(h, {p})
           /\ \A p, s, row, u : Step(h, WithRow(req[h], p, s, row, u)) => Turns(h, {p})
           /\ \A p, u : Step(h, WithOwner(req[h], p, u)) => Turns(h, {p})
<1>0. req[h] \in Request
  OBVIOUS
<1>1. \A r, reply : Answered(r, reply).pc = "done"
  BY DEF Answered, Blank
<1>2. \A r, entry, reply : Logging(r, entry, reply).pc = "audit"
  BY DEF Logging, Answered, Blank
<1>3. \A r : Step(h, r) => Turns(h, {r.pc})
  BY DEF Step, Turns
<1>4. \A p : [req[h] EXCEPT !.pc = p].pc = p
  BY <1>0 DEF Request
<1>5. \A p, c : WithHash(req[h], p, c).pc = p
  BY <1>0 DEF WithHash, Request
<1>6. \A p, a : WithClaims(req[h], p, a).pc = p
  BY <1>0 DEF WithClaims, Request
<1>7. \A p, s, t : WithSession(req[h], p, s, t).pc = p
  BY <1>0 DEF WithSession, Request
<1>8. \A p, s, row, u : WithRow(req[h], p, s, row, u).pc = p
  BY <1>0 DEF WithRow, Request
<1>9. \A p, u : WithOwner(req[h], p, u).pc = p
  BY <1>0 DEF WithOwner, Request
<1>10. \A reply : Answer(h, reply) => Turns(h, {"done"})
  BY <1>1, <1>3 DEF Answer
<1>11. \A entry, reply : LogAndAnswer(h, entry, reply) => Turns(h, {"audit"})
  BY <1>2, <1>3 DEF LogAndAnswer
<1>12. \A p : Goto(h, p) => Turns(h, {p})
  BY <1>3, <1>4 DEF Goto
<1>13. \A p, c : Step(h, WithHash(req[h], p, c)) => Turns(h, {p})
  BY <1>3, <1>5
<1>14. \A p, a : Step(h, WithClaims(req[h], p, a)) => Turns(h, {p})
  BY <1>3, <1>6
<1>15. \A p, s, t : Step(h, WithSession(req[h], p, s, t)) => Turns(h, {p})
  BY <1>3, <1>7
<1>16. \A p, s, row, u : Step(h, WithRow(req[h], p, s, row, u)) => Turns(h, {p})
  BY <1>3, <1>8
<1>17. \A p, u : Step(h, WithOwner(req[h], p, u)) => Turns(h, {p})
  BY <1>3, <1>9
<1>. QED
  BY <1>10, <1>11, <1>12, <1>13, <1>14, <1>15, <1>16, <1>17

\* Where each statement leads.
LEMMA AdvanceTurns ==
    ASSUME TypeOK, NEW h \in Handler
    PROVE  /\ LoginFindUser(h) => At(h, "login_user") /\ Turns(h, {"done", "audit", "login_tenant"})
           /\ LoginFindTenant(h) => At(h, "login_tenant") /\ Turns(h, {"done", "login_cred"})
           /\ LoginCheckPassword(h) => At(h, "login_cred") /\ Turns(h, {"done", "audit", "login_roles"})
           /\ LoginReadRoles(h) => At(h, "login_roles") /\ Turns(h, {"done", "login_session"})
           /\ LoginCreateSession(h) => At(h, "login_session") /\ Turns(h, {"done", "login_touch"})
           /\ LoginTouchCredential(h) => At(h, "login_touch") /\ Turns(h, {"audit"})
           /\ RefreshFindSession(h) => At(h, "refresh_session") /\ Turns(h, {"done", "refresh_user"})
           /\ RefreshFindUser(h) => At(h, "refresh_user") /\ Turns(h, {"done", "refresh_roles"})
           /\ RefreshReadRoles(h) => At(h, "refresh_roles") /\ Turns(h, {"done", "refresh_write"})
           /\ RefreshWrite(h) => At(h, "refresh_write") /\ Turns(h, {"done", "audit"})
           /\ LogoutFindSession(h) => At(h, "logout_session") /\ Turns(h, {"done", "logout_revoke"})
           /\ LogoutRevoke(h) => At(h, "logout_revoke") /\ Turns(h, {"done", "audit"})
           /\ ChangeCheckPassword(h) => At(h, "change_cred") /\ Turns(h, {"done", "change_write"})
           /\ ChangeWrite(h) => At(h, "change_write") /\ Turns(h, {"done", "change_revoke"})
           /\ ChangeRevoke(h) => At(h, "change_revoke") /\ Turns(h, {"audit"})
           /\ RevokeFindSession(h) => At(h, "revoke_session") /\ Turns(h, {"done", "revoke_write"})
           /\ RevokeWrite(h) => At(h, "revoke_write") /\ Turns(h, {"done", "audit"})
           /\ RevokeOthers(h) => At(h, "revoke_others") /\ Turns(h, {"done"})
           /\ Audit(h) => At(h, "audit") /\ Turns(h, {"done"})
<1>0. req \in [Handler -> Request]
  BY DEF TypeOK
<1>1. LoginFindUser(h) => At(h, "login_user") /\ Turns(h, {"done", "audit", "login_tenant"})
  <2>1. LoginFindUser(h) => At(h, "login_user")
    BY Zenon DEF LoginFindUser
  <2>2. LoginFindUser(h) => Turns(h, {"done", "audit", "login_tenant"})
    BY <1>0, Phases DEF LoginFindUser, Turns
  <2>. QED
    BY <2>1, <2>2
<1>2. LoginFindTenant(h) => At(h, "login_tenant") /\ Turns(h, {"done", "login_cred"})
  <2>1. LoginFindTenant(h) => At(h, "login_tenant")
    BY Zenon DEF LoginFindTenant
  <2>2. LoginFindTenant(h) => Turns(h, {"done", "login_cred"})
    BY <1>0, Phases DEF LoginFindTenant, Turns
  <2>. QED
    BY <2>1, <2>2
<1>3. LoginCheckPassword(h) => At(h, "login_cred") /\ Turns(h, {"done", "audit", "login_roles"})
  <2>1. LoginCheckPassword(h) => At(h, "login_cred")
    BY Zenon DEF LoginCheckPassword
  <2>2. LoginCheckPassword(h) => Turns(h, {"done", "audit", "login_roles"})
    BY <1>0, Phases DEF LoginCheckPassword, Turns, WithHash
  <2>. QED
    BY <2>1, <2>2
<1>4. LoginReadRoles(h) => At(h, "login_roles") /\ Turns(h, {"done", "login_session"})
  <2>1. LoginReadRoles(h) => At(h, "login_roles")
    BY Zenon DEF LoginReadRoles
  <2>2. LoginReadRoles(h) => Turns(h, {"done", "login_session"})
    BY <1>0, Phases DEF LoginReadRoles, Turns, WithClaims
  <2>. QED
    BY <2>1, <2>2
<1>5. LoginCreateSession(h) => At(h, "login_session") /\ Turns(h, {"done", "login_touch"})
  <2>1. LoginCreateSession(h) => At(h, "login_session")
    BY Zenon DEF LoginCreateSession
  <2>2. LoginCreateSession(h) => Turns(h, {"done", "login_touch"})
    BY <1>0, Phases DEF LoginCreateSession, Turns, WithSession
  <2>. QED
    BY <2>1, <2>2
<1>6. LoginTouchCredential(h) => At(h, "login_touch") /\ Turns(h, {"audit"})
  <2>1. LoginTouchCredential(h) => At(h, "login_touch")
    BY Zenon DEF LoginTouchCredential
  <2>2. LoginTouchCredential(h) => Turns(h, {"audit"})
    BY <1>0, Phases DEF LoginTouchCredential
  <2>. QED
    BY <2>1, <2>2
<1>7. RefreshFindSession(h) => At(h, "refresh_session") /\ Turns(h, {"done", "refresh_user"})
  <2>1. RefreshFindSession(h) => At(h, "refresh_session")
    BY Zenon DEF RefreshFindSession
  <2>2. RefreshFindSession(h) => Turns(h, {"done", "refresh_user"})
    BY <1>0, Phases DEF RefreshFindSession, Turns, WithRow
  <2>. QED
    BY <2>1, <2>2
<1>8. RefreshFindUser(h) => At(h, "refresh_user") /\ Turns(h, {"done", "refresh_roles"})
  <2>1. RefreshFindUser(h) => At(h, "refresh_user")
    BY Zenon DEF RefreshFindUser
  <2>2. RefreshFindUser(h) => Turns(h, {"done", "refresh_roles"})
    BY <1>0, Phases DEF RefreshFindUser, Turns
  <2>. QED
    BY <2>1, <2>2
<1>9. RefreshReadRoles(h) => At(h, "refresh_roles") /\ Turns(h, {"done", "refresh_write"})
  <2>1. RefreshReadRoles(h) => At(h, "refresh_roles")
    BY Zenon DEF RefreshReadRoles
  <2>2. RefreshReadRoles(h) => Turns(h, {"done", "refresh_write"})
    BY <1>0, Phases DEF RefreshReadRoles, Turns, WithClaims
  <2>. QED
    BY <2>1, <2>2
<1>10. RefreshWrite(h) => At(h, "refresh_write") /\ Turns(h, {"done", "audit"})
  <2>1. RefreshWrite(h) => At(h, "refresh_write")
    BY Zenon DEF RefreshWrite
  <2>2. RefreshWrite(h) => Turns(h, {"done", "audit"})
    BY <1>0, Phases DEF RefreshWrite, Turns
  <2>. QED
    BY <2>1, <2>2
<1>11. LogoutFindSession(h) => At(h, "logout_session") /\ Turns(h, {"done", "logout_revoke"})
  <2>1. LogoutFindSession(h) => At(h, "logout_session")
    BY Zenon DEF LogoutFindSession
  <2>2. LogoutFindSession(h) => Turns(h, {"done", "logout_revoke"})
    BY <1>0, Phases DEF LogoutFindSession, Turns, WithOwner
  <2>. QED
    BY <2>1, <2>2
<1>12. LogoutRevoke(h) => At(h, "logout_revoke") /\ Turns(h, {"done", "audit"})
  <2>1. LogoutRevoke(h) => At(h, "logout_revoke")
    BY Zenon DEF LogoutRevoke
  <2>2. LogoutRevoke(h) => Turns(h, {"done", "audit"})
    BY <1>0, Phases DEF LogoutRevoke, Turns
  <2>. QED
    BY <2>1, <2>2
<1>13. ChangeCheckPassword(h) => At(h, "change_cred") /\ Turns(h, {"done", "change_write"})
  <2>1. ChangeCheckPassword(h) => At(h, "change_cred")
    BY Zenon DEF ChangeCheckPassword
  <2>2. ChangeCheckPassword(h) => Turns(h, {"done", "change_write"})
    BY <1>0, Phases DEF ChangeCheckPassword, Turns
  <2>. QED
    BY <2>1, <2>2
<1>14. ChangeWrite(h) => At(h, "change_write") /\ Turns(h, {"done", "change_revoke"})
  <2>1. ChangeWrite(h) => At(h, "change_write")
    BY Zenon DEF ChangeWrite
  <2>2. ChangeWrite(h) => Turns(h, {"done", "change_revoke"})
    BY <1>0, Phases DEF ChangeWrite, Turns
  <2>. QED
    BY <2>1, <2>2
<1>15. ChangeRevoke(h) => At(h, "change_revoke") /\ Turns(h, {"audit"})
  <2>1. ChangeRevoke(h) => At(h, "change_revoke")
    BY Zenon DEF ChangeRevoke
  <2>2. ChangeRevoke(h) => Turns(h, {"audit"})
    BY <1>0, Phases DEF ChangeRevoke
  <2>. QED
    BY <2>1, <2>2
<1>16. RevokeFindSession(h) => At(h, "revoke_session") /\ Turns(h, {"done", "revoke_write"})
  <2>1. RevokeFindSession(h) => At(h, "revoke_session")
    BY Zenon DEF RevokeFindSession
  <2>2. RevokeFindSession(h) => Turns(h, {"done", "revoke_write"})
    BY <1>0, Phases DEF RevokeFindSession, Turns, WithOwner
  <2>. QED
    BY <2>1, <2>2
<1>17. RevokeWrite(h) => At(h, "revoke_write") /\ Turns(h, {"done", "audit"})
  <2>1. RevokeWrite(h) => At(h, "revoke_write")
    BY Zenon DEF RevokeWrite
  <2>2. RevokeWrite(h) => Turns(h, {"done", "audit"})
    BY <1>0, Phases DEF RevokeWrite, Turns
  <2>. QED
    BY <2>1, <2>2
<1>18. RevokeOthers(h) => At(h, "revoke_others") /\ Turns(h, {"done"})
  <2>1. RevokeOthers(h) => At(h, "revoke_others")
    BY Zenon DEF RevokeOthers
  <2>2. RevokeOthers(h) => Turns(h, {"done"})
    BY <1>0, Phases DEF RevokeOthers
  <2>. QED
    BY <2>1, <2>2
<1>19. Audit(h) => At(h, "audit") /\ Turns(h, {"done"})
  <2>1. Audit(h) => At(h, "audit")
    BY Zenon DEF Audit
  <2>2. Audit(h) => Turns(h, {"done"})
    BY <1>0, Phases DEF Audit
  <2>. QED
    BY <2>1, <2>2
<1>. QED
  BY <1>1, <1>2, <1>3, <1>4, <1>5, <1>6, <1>7, <1>8, <1>9, <1>10,
     <1>11, <1>12, <1>13, <1>14, <1>15, <1>16, <1>17, <1>18, <1>19, Zenon

\* A statement run is a statement less, whatever came of it.
LEMMA AdvanceLowers ==
    ASSUME TypeOK, NEW h \in Handler, Advance(h)
    PROVE  /\ \A g \in Handler \ {h} : req'[g] = req[g]
           /\ Left(h)' < Left(h)
<1>1. CASE LoginFindUser(h)
  BY <1>1, AdvanceTurns DEF At, Turns, Left, StatementsLeft
<1>2. CASE LoginFindTenant(h)
  BY <1>2, AdvanceTurns DEF At, Turns, Left, StatementsLeft
<1>3. CASE LoginCheckPassword(h)
  BY <1>3, AdvanceTurns DEF At, Turns, Left, StatementsLeft
<1>4. CASE LoginReadRoles(h)
  BY <1>4, AdvanceTurns DEF At, Turns, Left, StatementsLeft
<1>5. CASE LoginCreateSession(h)
  BY <1>5, AdvanceTurns DEF At, Turns, Left, StatementsLeft
<1>6. CASE LoginTouchCredential(h)
  BY <1>6, AdvanceTurns DEF At, Turns, Left, StatementsLeft
<1>7. CASE RefreshFindSession(h)
  BY <1>7, AdvanceTurns DEF At, Turns, Left, StatementsLeft
<1>8. CASE RefreshFindUser(h)
  BY <1>8, AdvanceTurns DEF At, Turns, Left, StatementsLeft
<1>9. CASE RefreshReadRoles(h)
  BY <1>9, AdvanceTurns DEF At, Turns, Left, StatementsLeft
<1>10. CASE RefreshWrite(h)
  BY <1>10, AdvanceTurns DEF At, Turns, Left, StatementsLeft
<1>11. CASE LogoutFindSession(h)
  BY <1>11, AdvanceTurns DEF At, Turns, Left, StatementsLeft
<1>12. CASE LogoutRevoke(h)
  BY <1>12, AdvanceTurns DEF At, Turns, Left, StatementsLeft
<1>13. CASE ChangeCheckPassword(h)
  BY <1>13, AdvanceTurns DEF At, Turns, Left, StatementsLeft
<1>14. CASE ChangeWrite(h)
  BY <1>14, AdvanceTurns DEF At, Turns, Left, StatementsLeft
<1>15. CASE ChangeRevoke(h)
  BY <1>15, AdvanceTurns DEF At, Turns, Left, StatementsLeft
<1>16. CASE RevokeFindSession(h)
  BY <1>16, AdvanceTurns DEF At, Turns, Left, StatementsLeft
<1>17. CASE RevokeWrite(h)
  BY <1>17, AdvanceTurns DEF At, Turns, Left, StatementsLeft
<1>18. CASE RevokeOthers(h)
  BY <1>18, AdvanceTurns DEF At, Turns, Left, StatementsLeft
<1>19. CASE Audit(h)
  BY <1>19, AdvanceTurns DEF At, Turns, Left, StatementsLeft
<1>. QED
  BY <1>1, <1>2, <1>3, <1>4, <1>5, <1>6, <1>7, <1>8, <1>9, <1>10, <1>11, <1>12,
     <1>13, <1>14, <1>15, <1>16, <1>17, <1>18, <1>19 DEF Advance

\* No other step prolongs a request: a slot is given away only when it is free,
\* and a crash empties it.
LEMMA NextLowers ==
    ASSUME TypeOK, [Next]_vars, NEW h \in Handler, ~At(h, "done")
    PROVE  req'[h] = req[h] \/ Left(h)' < Left(h)
<1>1. req \in [Handler -> Request]
  BY DEF TypeOK
<1>2. ASSUME NEW g \in Handler, Arrive(g) PROVE req'[h] = req[h]
  <2>1. PICK r : Begin(g, r)
    BY <1>2, Zenon DEF Arrive, Login, RefreshToken, Logout, RevokeSession,
         ChangePassword, RevokeAllOtherSessions, Unauthenticated
  <2>2. g # h
    BY <2>1 DEF Begin, At
  <2>. QED
    BY <1>1, <2>1, <2>2 DEF Begin, Step
<1>3. ASSUME NEW g \in Handler, Advance(g)
      PROVE  req'[h] = req[h] \/ Left(h)' < Left(h)
  BY <1>3, AdvanceLowers
<1>4. CASE Crash
  <2>1. Left(h)' = 0
    BY <1>4 DEF Crash, Left, StatementsLeft, Blank
  <2>2. Left(h) > 0
    BY DEF Left, StatementsLeft, At
  <2>. QED
    BY <2>1, <2>2
<1>5. ASSUME \/ \E u \in User, st \in UserState : SetUserState(u, st)
             \/ SetTenantState
             \/ \E s \in Session : Expire(s)
             \/ UNCHANGED vars
      PROVE  req'[h] = req[h]
  BY <1>5 DEF SetUserState, SetTenantState, Expire, vars
<1>. QED
  BY <1>2, <1>3, <1>4, <1>5 DEF Next, Environment

\* Nothing that other requests, administrators or a crash do makes a request
\* run a statement more than the phase it is in allows: every step of its own
\* lowers what is left, no other step raises it, and it is at most seven.
THEOREM BoundedWork ==
    Spec => [][\A h \in Handler :
                 /\ Left(h) \in 0..7
                 /\ ~At(h, "done") => req'[h] = req[h] \/ Left(h)' < Left(h)]_vars
<1>1. \A h \in Handler : Left(h) \in 0..7
  BY DEF Left, StatementsLeft
<1>2. TypeOK /\ [Next]_vars =>
        [\A h \in Handler :
           /\ Left(h) \in 0..7
           /\ ~At(h, "done") => req'[h] = req[h] \/ Left(h)' < Left(h)]_vars
  BY <1>1, NextLowers
<1>. QED
  BY <1>2, TypeCorrect, PTL DEF Spec

\* A goroutine whose request is not answered yet goes on: what FairSpec asks of
\* the scheduler and the database, given that no step waits for another request.
KeepsRunning == \A h \in Handler : []<>At(h, "done") \/ []<><<Advance(h)>>_vars

\* Whatever statements fail, whoever else runs and however often, a request
\* whose goroutine goes on is answered.
THEOREM RequestsAnswered == Spec /\ KeepsRunning => RequestsEnd
<1>1. SUFFICES ASSUME NEW h \in Handler
               PROVE  Spec /\ KeepsRunning => (~At(h, "done") ~> At(h, "done"))
  BY DEF RequestsEnd
<1> DEFINE L(n) == Left(h) = n
           Done == At(h, "done")
<1>2. Done <=> L(0)
  BY DEF At, Left, StatementsLeft
<1>3. L(0) \/ L(1) \/ L(2) \/ L(3) \/ L(4) \/ L(5) \/ L(6) \/ L(7)
  BY DEF Left, StatementsLeft
<1>4. ASSUME TypeOK, [Next]_vars
      PROVE  /\ L(1) => L(1)' \/ L(0)'
             /\ L(2) => L(2)' \/ L(1)' \/ L(0)'
             /\ L(3) => L(3)' \/ L(2)' \/ L(1)' \/ L(0)'
             /\ L(4) => L(4)' \/ L(3)' \/ L(2)' \/ L(1)' \/ L(0)'
             /\ L(5) => L(5)' \/ L(4)' \/ L(3)' \/ L(2)' \/ L(1)' \/ L(0)'
             /\ L(6) => L(6)' \/ L(5)' \/ L(4)' \/ L(3)' \/ L(2)' \/ L(1)' \/ L(0)'
             /\ L(7) => L(7)' \/ L(6)' \/ L(5)' \/ L(4)' \/ L(3)' \/ L(2)' \/ L(1)' \/ L(0)'
  <2>1. Done \/ Left(h)' = Left(h) \/ Left(h)' < Left(h)
    BY <1>4, NextLowers DEF Left
  <2>2. Left(h) \in 0..7 /\ Left(h)' \in 0..7
    BY DEF Left, StatementsLeft
  <2>. QED
    BY <1>2, <2>1, <2>2
<1>5. ASSUME TypeOK, <<Advance(h)>>_vars
      PROVE  /\ L(1) => L(0)'
             /\ L(2) => L(1)' \/ L(0)'
             /\ L(3) => L(2)' \/ L(1)' \/ L(0)'
             /\ L(4) => L(3)' \/ L(2)' \/ L(1)' \/ L(0)'
             /\ L(5) => L(4)' \/ L(3)' \/ L(2)' \/ L(1)' \/ L(0)'
             /\ L(6) => L(5)' \/ L(4)' \/ L(3)' \/ L(2)' \/ L(1)' \/ L(0)'
             /\ L(7) => L(6)' \/ L(5)' \/ L(4)' \/ L(3)' \/ L(2)' \/ L(1)' \/ L(0)'
  <2>1. Left(h)' < Left(h)
    BY <1>5, AdvanceLowers
  <2>2. Left(h) \in 0..7 /\ Left(h)' \in 0..7
    BY DEF Left, StatementsLeft
  <2>. QED
    BY <2>1, <2>2
<1>6. KeepsRunning => []<>At(h, "done") \/ []<><<Advance(h)>>_vars
  BY DEF KeepsRunning
<1>7. At(h, "done") <=> L(0)
  BY <1>2
<1>. HIDE DEF L
<1>. QED
  BY <1>3, <1>4, <1>5, <1>6, <1>7, TypeCorrect, PTL DEF Spec
-----------------------------------------------------------------------------
(* What it takes for the documents to be right *)

\* A login that has checked the password holds the hash it read until it writes
\* it back.
HoldsHash(g) == req[g].pc \in {"login_roles", "login_session", "login_touch"}

\* The hash that logins are about to write back is the credential's.
HashCurrent == \A g \in Handler : HoldsHash(g) => req[g].hash = cred[req[g].user]

\* No change is at its write while a login of the same user is between its check
\* and its own, as a lock or a transaction around the two would have it.
LoginsApart ==
    \A g, h \in Handler : HoldsHash(g) /\ At(h, "change_write") => req[g].user # req[h].user

\* Which requests hold a hash: those that did, and logins that read it just now.
LEMMA HashSources ==
    ASSUME TypeOK, NEW h \in Handler, Advance(h), HoldsHash(h)'
    PROVE  /\ req'[h].user = req[h].user
           /\ \/ HoldsHash(h) /\ req'[h].hash = req[h].hash
              \/ LoginCheckPassword(h) /\ req'[h].hash = cred[req[h].user]
<1>0. req \in [Handler -> Request]
  BY DEF TypeOK
<1>1. HoldsHash(h)' => req'[h].pc \notin {"done", "audit"}
  BY DEF HoldsHash
<1>2. \A reply : ~Answer(h, reply)
  BY <1>0, <1>1, Phases DEF Turns
<1>3. \A entry, reply : ~LogAndAnswer(h, entry, reply)
  BY <1>0, <1>1, Phases DEF Turns
<1>4. CASE LoginCheckPassword(h)
  <2>1. Step(h, WithHash(req[h], "login_roles", cred[req[h].user]))
    BY <1>2, <1>3, <1>4, Zenon DEF LoginCheckPassword, WithHash
  <2>. QED
    BY <1>0, <1>4, <2>1 DEF Step, WithHash, Request
<1>5. CASE LoginReadRoles(h)
  <2>1. PICK a : Step(h, WithClaims(req[h], "login_session", a))
    BY <1>2, <1>5 DEF LoginReadRoles, WithClaims
  <2>. QED
    BY <1>0, <1>5, <2>1 DEF Step, WithClaims, Request, HoldsHash, LoginReadRoles, At
<1>6. CASE LoginCreateSession(h)
  <2>1. \E s, t : Step(h, WithSession(req[h], "login_touch", s, t))
    BY <1>2, <1>6 DEF LoginCreateSession, WithSession
  <2>2. PICK s, t : Step(h, WithSession(req[h], "login_touch", s, t))
    BY <2>1
  <2>. QED
    BY <1>0, <1>6, <2>2 DEF Step, WithSession, Request, HoldsHash, LoginCreateSession, At
<1>. QED
  BY <1>4, <1>5, <1>6, AdvanceTurns DEF Advance, Turns, HoldsHash

\* Credentials are written at the end of a login and by a password change.
LEMMA CredWriters ==
    ASSUME [Next]_vars,
           ~\E h \in Handler : LoginTouchCredential(h) \/ ChangeWrite(h)
    PROVE  UNCHANGED cred
<1>1. ASSUME NEW h \in Handler, Arrive(h) PROVE UNCHANGED cred
  BY <1>1, ArriveReads DEF tables
<1>2. ASSUME NEW h \in Handler, Advance(h) PROVE UNCHANGED cred
  BY <1>2, Zenon
     DEF Advance, LoginFindUser, LoginFindTenant, LoginCheckPassword, LoginReadRoles,
         LoginCreateSession, RefreshFindSession, RefreshFindUser, RefreshReadRoles,
         RefreshWrite, LogoutFindSession, LogoutRevoke, ChangeCheckPassword,
         ChangeRevoke, RevokeFindSession, RevokeWrite, RevokeOthers, Audit, tables
<1>3. ASSUME Environment \/ UNCHANGED vars PROVE UNCHANGED cred
  BY <1>3 DEF Environment, SetUserState, SetTenantState, Expire, Crash, tables, vars
<1>. QED
  BY <1>1, <1>2, <1>3 DEF Next

\* With logins apart, what a login writes back is what is there.
LEMMA ChangesOnly ==
    ASSUME TypeOK, HashCurrent, [Next]_vars,
           NEW u \in User, cred'[u] # cred[u]
    PROVE  \E h \in Handler : ChangeWrite(h) /\ req[h].user = u
<1>1. PICK h \in Handler : LoginTouchCredential(h) \/ ChangeWrite(h)
  BY CredWriters
<1>2. cred \in [User -> Password \cup {None}]
  BY DEF TypeOK
<1>3. CASE LoginTouchCredential(h)
  <2>1. req[h].hash = cred[req[h].user]
    BY <1>3 DEF LoginTouchCredential, HashCurrent, HoldsHash, At
  <2>. QED
    BY <1>2, <1>3, <2>1 DEF LoginTouchCredential
<1>4. CASE ChangeWrite(h)
  BY <1>2, <1>4 DEF ChangeWrite
<1>. QED
  BY <1>1, <1>3, <1>4

\* Where a request begins.
LEMMA ArriveTurns ==
    ASSUME req \in [Handler -> Request], NEW h \in Handler, Arrive(h)
    PROVE  req'[h].pc \in {"login_user", "refresh_session", "logout_session", "revoke_session",
                           "change_cred", "revoke_others", "done"}
<1>0. \A r : Begin(h, r) => req'[h] = r
  BY DEF Begin, Step
<1>1. ASSUME NEW u, NEW p, Login(h, u, p) PROVE req'[h].pc = "login_user"
  BY <1>0, <1>1 DEF Login, Blank
<1>2. ASSUME NEW t, RefreshToken(h, t) PROVE req'[h].pc = "refresh_session"
  BY <1>0, <1>2 DEF RefreshToken, Blank
<1>3. ASSUME NEW s, Logout(h, s) PROVE req'[h].pc = "logout_session"
  BY <1>0, <1>3 DEF Logout, Blank
<1>4. ASSUME NEW s, RevokeSession(h, s) PROVE req'[h].pc = "revoke_session"
  BY <1>0, <1>4 DEF RevokeSession, Blank
<1>5. ASSUME NEW u, NEW old, NEW new, ChangePassword(h, u, old, new) PROVE req'[h].pc = "change_cred"
  BY <1>0, <1>5 DEF ChangePassword, Blank
<1>6. ASSUME NEW u, NEW s, RevokeAllOtherSessions(h, u, s) PROVE req'[h].pc = "revoke_others"
  BY <1>0, <1>6 DEF RevokeAllOtherSessions, Blank
<1>7. ASSUME NEW op, Unauthenticated(h, op) PROVE req'[h].pc = "done"
  BY <1>0, <1>7 DEF Unauthenticated, Blank
<1>. QED
  BY <1>1, <1>2, <1>3, <1>4, <1>5, <1>6, <1>7 DEF Arrive

LEMMA HashStaysCurrent ==
    ASSUME Inv, HashCurrent, LoginsApart, [Next]_vars
    PROVE  HashCurrent'
<1>. SUFFICES ASSUME NEW g \in Handler, HoldsHash(g)'
              PROVE  req'[g].hash = cred'[req'[g].user]
  BY DEF HashCurrent, HoldsHash
<1>0. TypeOK /\ req \in [Handler -> Request]
  BY DEF Inv, TypeOK
<1>1. \/ req'[g] = req[g] /\ HoldsHash(g)
      \/ Advance(g)
  <2>1. ASSUME NEW h \in Handler, Arrive(h) PROVE req'[g] = req[g]
    <3>1. CASE h = g
      BY <1>0, <2>1, <3>1, ArriveTurns DEF HoldsHash
    <3>2. CASE h # g
      <4>1. PICK r : Begin(h, r)
        BY <2>1, Zenon DEF Arrive, Login, RefreshToken, Logout, RevokeSession,
             ChangePassword, RevokeAllOtherSessions, Unauthenticated
      <4>. QED
        BY <1>0, <3>2, <4>1 DEF Begin, Step
    <3>. QED
      BY <3>1, <3>2
  <2>2. ASSUME NEW h \in Handler, Advance(h), h # g PROVE req'[g] = req[g]
    BY <1>0, <2>2, AdvanceLowers
  <2>3. ~Crash
    BY DEF Crash, HoldsHash, Blank
  <2>4. ASSUME Environment \/ UNCHANGED vars PROVE req'[g] = req[g]
    BY <2>3, <2>4 DEF Environment, SetUserState, SetTenantState, Expire, vars
  <2>. QED
    BY <2>1, <2>2, <2>4 DEF Next, HoldsHash
<1>2. \/ /\ req'[g] = req[g] /\ HoldsHash(g)
      \/ /\ LoginCheckPassword(g) /\ req'[g].user = req[g].user
         /\ req'[g].hash = cred[req[g].user]
      \/ /\ Advance(g) /\ HoldsHash(g) /\ req'[g].user = req[g].user
         /\ req'[g].hash = req[g].hash
  BY <1>0, <1>1, HashSources
<1>3. req'[g].user = req[g].user /\ req'[g].hash = cred[req[g].user]
  BY <1>2 DEF HashCurrent
<1>4. req[g].user \in User
  BY <1>2, Locals DEF HoldsHash, Fits, LoginCheckPassword, At
<1>5. CASE cred'[req[g].user] = cred[req[g].user]
  BY <1>3, <1>5
<1>6. CASE cred'[req[g].user] # cred[req[g].user]
  <2>1. PICK h \in Handler : ChangeWrite(h) /\ req[h].user = req[g].user
    BY <1>0, <1>4, <1>6, ChangesOnly
  <2>2. HoldsHash(g)
    BY <1>0, <1>2, <2>1, AdvanceTurns DEF Turns, At, HoldsHash, LoginCheckPassword, ChangeWrite
  <2>. QED
    BY <2>1, <2>2 DEF LoginsApart, ChangeWrite
<1>. QED
  BY <1>5, <1>6

\* auth_usecase.go:126 is the only reason why a login undoes a password change:
\* if no change is at its write while a login of the same user is between its
\* check and its own, nothing but a password change changes one, whatever fails.
THEOREM PasswordsKeptApart == Spec /\ []LoginsApart => OnlyChangeChangesPassword
<1>1. Init => HashCurrent
  BY DEF Init, HashCurrent, HoldsHash, Blank
<1>2. Inv /\ HashCurrent /\ LoginsApart /\ [Next]_vars => HashCurrent'
  BY HashStaysCurrent
<1>3. Inv /\ HashCurrent /\ [Next]_vars =>
        [\A u \in User : cred'[u] # cred[u] =>
           \E h \in Handler : At(h, "change_write") /\ req[h].user = u]_vars
  <2>. SUFFICES ASSUME Inv, HashCurrent, [Next]_vars, NEW u \in User, cred'[u] # cred[u]
                PROVE  \E h \in Handler : At(h, "change_write") /\ req[h].user = u
    OBVIOUS
  <2>1. PICK h \in Handler : ChangeWrite(h) /\ req[h].user = u
    BY ChangesOnly DEF Inv
  <2>. QED
    BY <2>1 DEF ChangeWrite
<1>. QED
  BY <1>1, <1>2, <1>3, Invariance, PTL DEF Spec, OnlyChangeChangesPassword

\* What the answer of a request is after a step of its own.
LEMMA Words ==
    ASSUME req \in [Handler -> Request], NEW h \in Handler
    PROVE  /\ \A reply : Answer(h, reply) => req'[h].op = req[h].op /\ req'[h].reply = reply
           /\ \A entry, reply : LogAndAnswer(h, entry, reply) =>
                 req'[h].op = req[h].op /\ req'[h].reply = reply
           /\ \A p : Goto(h, p) => req'[h].op = req[h].op /\ req'[h].reply = req[h].reply
           /\ \A p, c : Step(h, WithHash(req[h], p, c)) => req'[h].reply = req[h].reply
           /\ \A p, a : Step(h, WithClaims(req[h], p, a)) =>
                 req'[h].op = req[h].op /\ req'[h].reply = req[h].reply
           /\ \A p, s, t : Step(h, WithSession(req[h], p, s, t)) => req'[h].reply = req[h].reply
           /\ \A p, s, row, u : Step(h, WithRow(req[h], p, s, row, u)) => req'[h].op = req[h].op
           /\ \A p, u : Step(h, WithOwner(req[h], p, u)) => req'[h].op = req[h].op
<1>0. req[h] \in Request
  OBVIOUS
<1>1. \A r : Step(h, r) => req'[h] = r
  BY DEF Step
<1>2. \A reply : Answered(req[h], reply).op = req[h].op /\ Answered(req[h], reply).reply = reply
  BY DEF Answered, Blank
<1>3. \A entry, reply : /\ Logging(req[h], entry, reply).op = req[h].op
                        /\ Logging(req[h], entry, reply).reply = reply
  BY DEF Logging, Answered, Blank
<1>4. \A p : [req[h] EXCEPT !.pc = p].op = req[h].op /\ [req[h] EXCEPT !.pc = p].reply = req[h].reply
  BY <1>0 DEF Request
<1>5. \A p, c : WithHash(req[h], p, c).reply = req[h].reply
  BY <1>0 DEF WithHash, Request
<1>6. \A p, a : /\ WithClaims(req[h], p, a).op = req[h].op
                /\ WithClaims(req[h], p, a).reply = req[h].reply
  BY <1>0 DEF WithClaims, Request
<1>7. \A p, s, t : WithSession(req[h], p, s, t).reply = req[h].reply
  BY <1>0 DEF WithSession, Request
<1>8. \A p, s, row, u : WithRow(req[h], p, s, row, u).op = req[h].op
  BY <1>0 DEF WithRow, Request
<1>9. \A p, u : WithOwner(req[h], p, u).op = req[h].op
  BY <1>0 DEF WithOwner, Request
<1>10. \A reply : Answer(h, reply) => req'[h].op = req[h].op /\ req'[h].reply = reply
  BY <1>1, <1>2 DEF Answer
<1>11. \A entry, reply : LogAndAnswer(h, entry, reply) =>
         req'[h].op = req[h].op /\ req'[h].reply = reply
  BY <1>1, <1>3 DEF LogAndAnswer
<1>12. \A p : Goto(h, p) => req'[h].op = req[h].op /\ req'[h].reply = req[h].reply
  BY <1>1, <1>4 DEF Goto
<1>13. \A p, c : Step(h, WithHash(req[h], p, c)) => req'[h].reply = req[h].reply
  BY <1>1, <1>5
<1>14. \A p, a : Step(h, WithClaims(req[h], p, a)) =>
         req'[h].op = req[h].op /\ req'[h].reply = req[h].reply
  BY <1>1, <1>6
<1>15. \A p, s, t : Step(h, WithSession(req[h], p, s, t)) => req'[h].reply = req[h].reply
  BY <1>1, <1>7
<1>16. \A p, s, row, u : Step(h, WithRow(req[h], p, s, row, u)) => req'[h].op = req[h].op
  BY <1>1, <1>8
<1>17. \A p, u : Step(h, WithOwner(req[h], p, u)) => req'[h].op = req[h].op
  BY <1>1, <1>9
<1>. QED
  BY <1>10, <1>11, <1>12, <1>13, <1>14, <1>15, <1>16, <1>17

\* Without the unique column a login's row, with an id and a hash that no row
\* has, is always stored, so no step of a login comes to an internal error.
LEMMA LoginNotRefused ==
    ASSUME Inv, LoginSucceeds, ~UniqueJti, DbOutcome = {"ok"},
           NEW h \in Handler, Advance(h), req'[h].op = "Login"
    PROVE  req'[h].reply # "Internal"
<1>0. req \in [Handler -> Request] /\ Fits(req[h], sessions, cred)
  BY Locals DEF Inv, TypeOK
<1>1. \A o \in DbOutcome : ~Fails(o)
  BY DEF Fails
<1>2. CASE req[h].op = "Login"
  <2>0. req[h].reply # "Internal"
    BY <1>2 DEF LoginSucceeds
  <2>1. CASE LoginFindUser(h)
    <3>1. \/ Answer(h, "InvalidCredentials")
          \/ \E entry : LogAndAnswer(h, entry, "UserInactive")
          \/ Goto(h, "login_tenant")
      BY <2>1, Zenon DEF LoginFindUser
    <3>. QED
      BY <1>0, <2>0, <3>1, Words
  <2>2. CASE LoginFindTenant(h)
    BY <1>0, <1>1, <2>0, <2>2, Words DEF LoginFindTenant
  <2>3. CASE LoginCheckPassword(h)
    <3>1. \/ Answer(h, "InvalidCredentials")
          \/ \E entry : LogAndAnswer(h, entry, "InvalidCredentials")
          \/ \E c : Step(h, WithHash(req[h], "login_roles", c))
      BY <1>1, <2>3, Zenon DEF LoginCheckPassword, WithHash
    <3>. QED
      BY <1>0, <2>0, <3>1, Words
  <2>4. CASE LoginReadRoles(h)
    BY <1>0, <1>1, <2>0, <2>4, Words DEF LoginReadRoles, WithClaims
  <2>5. CASE LoginCreateSession(h)
    <3>1. \A s \in FreshSession, t \in FreshToken : ~Conflict(s, NewRow(req[h].user, t))
      BY DEF FreshSession, FreshToken, Conflict, NewRow
    <3>2. \E s, t : Step(h, WithSession(req[h], "login_touch", s, t))
      BY <1>1, <2>5, <3>1 DEF LoginCreateSession, WithSession
    <3>. QED
      BY <1>0, <2>0, <3>2, Words
  <2>6. CASE LoginTouchCredential(h)
    BY <1>0, <2>6, Words DEF LoginTouchCredential
  <2>7. CASE Audit(h)
    BY <1>0, <2>0, <2>7, Words DEF Audit
  <2>8. At(h, "login_user") \/ At(h, "login_tenant") \/ At(h, "login_cred") \/ At(h, "login_roles")
        \/ At(h, "login_session") \/ At(h, "login_touch") \/ At(h, "audit") \/ At(h, "done")
    BY <1>0, <1>2 DEF Fits, At, Request, Phase
  <2>. QED
    BY <1>0, <2>1, <2>2, <2>3, <2>4, <2>5, <2>6, <2>7, <2>8, AdvanceTurns DEF Advance, At, Inv
<1>3. CASE req[h].op # "Login"
  <2>1. ~(\/ LoginFindUser(h) \/ LoginFindTenant(h) \/ LoginCheckPassword(h)
          \/ LoginReadRoles(h) \/ LoginCreateSession(h) \/ LoginTouchCredential(h))
    BY <1>0, <1>3, AdvanceTurns DEF Fits, At, Inv
  <2>2. RefreshFindSession(h) => req'[h].op = req[h].op
    BY <1>0, Words DEF RefreshFindSession, WithRow
  <2>3. RefreshFindUser(h) => req'[h].op = req[h].op
    BY <1>0, Words DEF RefreshFindUser
  <2>4. RefreshReadRoles(h) => req'[h].op = req[h].op
    BY <1>0, Words DEF RefreshReadRoles, WithClaims
  <2>5. RefreshWrite(h) => req'[h].op = req[h].op
    BY <1>0, Words DEF RefreshWrite
  <2>6. LogoutFindSession(h) => req'[h].op = req[h].op
    BY <1>0, Words DEF LogoutFindSession, WithOwner
  <2>7. LogoutRevoke(h) => req'[h].op = req[h].op
    BY <1>0, Words DEF LogoutRevoke
  <2>8. ChangeCheckPassword(h) => req'[h].op = req[h].op
    BY <1>0, Words DEF ChangeCheckPassword
  <2>9. ChangeWrite(h) => req'[h].op = req[h].op
    BY <1>0, Words DEF ChangeWrite
  <2>10. ChangeRevoke(h) => req'[h].op = req[h].op
    BY <1>0, Words DEF ChangeRevoke
  <2>11. RevokeFindSession(h) => req'[h].op = req[h].op
    BY <1>0, Words DEF RevokeFindSession, WithOwner
  <2>12. RevokeWrite(h) => req'[h].op = req[h].op
    BY <1>0, Words DEF RevokeWrite
  <2>13. RevokeOthers(h) => req'[h].op = req[h].op
    BY <1>0, Words DEF RevokeOthers
  <2>14. Audit(h) => req'[h].op = req[h].op
    BY <1>0, Words DEF Audit
  <2>. QED
    BY <1>3, <2>1, <2>2, <2>3, <2>4, <2>5, <2>6, <2>7, <2>8, <2>9, <2>10, <2>11, <2>12,
       <2>13, <2>14 DEF Advance
<1>. QED
  BY <1>2, <1>3

\* A request begins without an answer, or is turned away at once.
LEMMA ArriveSays ==
    ASSUME req \in [Handler -> Request], NEW h \in Handler, Arrive(h)
    PROVE  req'[h].reply \in {None, "Unauthorized"}
<1>0. \A r : Begin(h, r) => req'[h] = r
  BY DEF Begin, Step
<1>1. ASSUME NEW u, NEW p, Login(h, u, p) PROVE req'[h].reply = None
  BY <1>0, <1>1 DEF Login, Blank
<1>2. ASSUME NEW t, RefreshToken(h, t) PROVE req'[h].reply = None
  BY <1>0, <1>2 DEF RefreshToken, Blank
<1>3. ASSUME NEW s, Logout(h, s) PROVE req'[h].reply = None
  BY <1>0, <1>3 DEF Logout, Blank
<1>4. ASSUME NEW s, RevokeSession(h, s) PROVE req'[h].reply = None
  BY <1>0, <1>4 DEF RevokeSession, Blank
<1>5. ASSUME NEW u, NEW old, NEW new, ChangePassword(h, u, old, new) PROVE req'[h].reply = None
  BY <1>0, <1>5 DEF ChangePassword, Blank
<1>6. ASSUME NEW u, NEW s, RevokeAllOtherSessions(h, u, s) PROVE req'[h].reply = None
  BY <1>0, <1>6 DEF RevokeAllOtherSessions, Blank
<1>7. ASSUME NEW op, Unauthenticated(h, op) PROVE req'[h].reply = "Unauthorized"
  BY <1>0, <1>7 DEF Unauthenticated, Blank
<1>. QED
  BY <1>1, <1>2, <1>3, <1>4, <1>5, <1>6, <1>7 DEF Arrive

LEMMA LoginsGoOn ==
    ASSUME Inv, LoginSucceeds, ~UniqueJti, DbOutcome = {"ok"}, [Next]_vars
    PROVE  LoginSucceeds'
<1>. SUFFICES ASSUME NEW g \in Handler, req'[g].op = "Login"
              PROVE  req'[g].reply # "Internal"
  BY DEF LoginSucceeds
<1>0. TypeOK /\ req \in [Handler -> Request]
  BY DEF Inv, TypeOK
<1>1. None # "Internal"
  BY NoneAssumption DEF Reply
<1>2. ASSUME NEW h \in Handler, Arrive(h) PROVE req'[g] = req[g] \/ req'[g].reply # "Internal"
  <2>1. CASE h = g
    BY <1>0, <1>1, <1>2, <2>1, ArriveSays
  <2>2. CASE h # g
    <3>1. PICK r : Begin(h, r)
      BY <1>2, Zenon DEF Arrive, Login, RefreshToken, Logout, RevokeSession,
           ChangePassword, RevokeAllOtherSessions, Unauthenticated
    <3>. QED
      BY <1>0, <2>2, <3>1 DEF Begin, Step
  <2>. QED
    BY <2>1, <2>2
<1>3. ASSUME NEW h \in Handler, Advance(h) PROVE req'[g] = req[g] \/ req'[g].reply # "Internal"
  <2>1. CASE h = g
    BY <1>3, <2>1, LoginNotRefused
  <2>2. CASE h # g
    BY <1>0, <1>3, <2>2, AdvanceLowers
  <2>. QED
    BY <2>1, <2>2
<1>4. CASE Crash
  BY <1>1, <1>4 DEF Crash, Blank
<1>5. ASSUME Environment \/ UNCHANGED vars PROVE req'[g] = req[g] \/ req'[g].reply # "Internal"
  BY <1>4, <1>5 DEF Environment, SetUserState, SetTenantState, Expire, vars
<1>6. req'[g] = req[g] \/ req'[g].reply # "Internal"
  BY <1>2, <1>3, <1>5 DEF Next
<1>. QED
  BY <1>6 DEF LoginSucceeds

\* The UNIQUE on access_token_id, filled with "" by generateTokenPair, is the only
\* reason why a login is refused while the database answers: without it none is,
\* whoever signs in at the same time and whatever is changed meanwhile.
THEOREM LoginsSucceed ==
    ASSUME ~UniqueJti, DbOutcome = {"ok"}
    PROVE  Spec => []LoginSucceeds
<1>1. Init => LoginSucceeds
  BY NoneAssumption DEF Init, LoginSucceeds, Blank, Reply
<1>2. Inv /\ LoginSucceeds /\ [Next]_vars => LoginSucceeds'
  BY LoginsGoOn
<1>. QED
  BY <1>1, <1>2, Invariance, PTL DEF Spec
-----------------------------------------------------------------------------
(* Deleted accounts *)

\* A login past its look at the user, and before its session.
Entering(h) == req[h].pc \in {"login_tenant", "login_cred", "login_roles", "login_session"}

\* The user is deleted, and no login that saw it active is about to store a
\* session.
Gone(u) == users[u] = "deleted" /\ \A h \in Handler : Entering(h) => req[h].user # u

SessionsOf(u) == {s \in Rows : sessions[s].user = u}

\* A login enters for a user that it has just read as active.
LEMMA Entrances ==
    ASSUME TypeOK, NEW h \in Handler, Advance(h), Entering(h)'
    PROVE  /\ req'[h].user = req[h].user
           /\ Entering(h) \/ users[req[h].user] = "active"
<1>0. req \in [Handler -> Request] /\ req[h] \in Request
  BY DEF TypeOK
<1>1. req'[h].pc \notin {"done", "audit"}
  BY DEF Entering
<1>2. (\A reply : ~Answer(h, reply)) /\ (\A entry, reply : ~LogAndAnswer(h, entry, reply))
  BY <1>0, <1>1, Phases DEF Turns
<1>3. CASE LoginFindUser(h)
  <2>1. Goto(h, "login_tenant") /\ users[req[h].user] = "active"
    BY <1>2, <1>3, Zenon DEF LoginFindUser
  <2>. QED
    BY <1>0, <2>1 DEF Goto, Step, Request
<1>4. CASE LoginFindTenant(h)
  <2>1. Goto(h, "login_cred") /\ At(h, "login_tenant")
    BY <1>2, <1>4, Zenon DEF LoginFindTenant
  <2>. QED
    BY <1>0, <2>1 DEF Goto, Step, Request, At, Entering
<1>5. CASE LoginCheckPassword(h)
  <2>1. At(h, "login_cred") /\ \E c : Step(h, WithHash(req[h], "login_roles", c))
    BY <1>2, <1>5, Zenon DEF LoginCheckPassword, WithHash
  <2>2. PICK c : Step(h, WithHash(req[h], "login_roles", c))
    BY <2>1
  <2>. QED
    BY <1>0, <2>1, <2>2 DEF WithHash, Step, Request, At, Entering
<1>6. CASE LoginReadRoles(h)
  <2>1. At(h, "login_roles") /\ \E a : Step(h, WithClaims(req[h], "login_session", a))
    BY <1>2, <1>6 DEF LoginReadRoles, WithClaims
  <2>2. PICK a : Step(h, WithClaims(req[h], "login_session", a))
    BY <2>1
  <2>. QED
    BY <1>0, <2>1, <2>2 DEF WithClaims, Step, Request, At, Entering
<1>. QED
  BY <1>3, <1>4, <1>5, <1>6, AdvanceTurns DEF Advance, Turns, Entering

\* Rows are new only by a login that is about to store its session.
LEMMA NewRows ==
    ASSUME Inv, [Next]_vars, NEW s \in Session, s \in Rows', s \notin Rows
    PROVE  \E h \in Handler : At(h, "login_session") /\ sessions'[s].user = req[h].user
<1>1. sessions \in Table
  BY DEF Inv, TypeOK, Table
<1>2. ASSUME NEW h \in Handler, LoginCreateSession(h)
      PROVE  At(h, "login_session") /\ sessions'[s].user = req[h].user
  <2>1. PICK n \in Session, t \in Token, o \in DbOutcome :
          sessions' = IF Applied(o) THEN InsertSession(n, NewRow(req[h].user, t))
                                    ELSE sessions
    BY <1>2 DEF LoginCreateSession, FreshSession, FreshToken
  <2>2. At(h, "login_session")
    BY <1>2, Zenon DEF LoginCreateSession
  <2>3. sessions' = [sessions EXCEPT ![n] = NewRow(req[h].user, t)]
    BY <2>1 DEF InsertSession, Rows, RowsOf
  <2>4. s = n
    BY <1>1, <2>3 DEF Rows, RowsOf, Table
  <2>. QED
    BY <1>1, <2>2, <2>3, <2>4 DEF NewRow, Table
<1>3. ASSUME NEW h \in Handler, RefreshWrite(h) PROVE FALSE
  BY <1>3, RefreshWriteRefused DEF tables, Rows
<1>4. ASSUME NEW h \in Handler,
             LogoutRevoke(h) \/ RevokeWrite(h) \/ ChangeRevoke(h) \/ RevokeOthers(h)
      PROVE  FALSE
  <2>1. \/ sessions' = sessions
        \/ sessions' = Revoke(req[h].sid)
        \/ sessions' = RevokeAllUserSessions(req[h].user, None)
        \/ sessions' = RevokeAllUserSessions(req[h].user, req[h].sid)
    BY <1>4 DEF LogoutRevoke, RevokeWrite, ChangeRevoke, RevokeOthers
  <2>. QED
    BY <1>1, <2>1, RevokeGrows, RevokeAllGrows DEF Rows
<1>5. ASSUME NEW e \in Session, Expire(e) PROVE FALSE
  <2>1. e \in Rows /\ sessions' = [sessions EXCEPT ![e].expired = TRUE]
    BY <1>5 DEF Expire
  <2>. QED
    BY <1>1, <2>1 DEF Rows, RowsOf, Table
<1>6. sessions' # sessions
  BY DEF Rows
<1>7. ASSUME NEW h \in Handler, Arrive(h) PROVE FALSE
  BY <1>6, <1>7, ArriveReads DEF tables
<1>8. ASSUME NEW h \in Handler,
             \/ LoginFindUser(h) \/ LoginFindTenant(h) \/ LoginCheckPassword(h)
             \/ LoginReadRoles(h) \/ LoginTouchCredential(h)
             \/ RefreshFindSession(h) \/ RefreshFindUser(h) \/ RefreshReadRoles(h)
             \/ LogoutFindSession(h) \/ ChangeCheckPassword(h) \/ ChangeWrite(h)
             \/ RevokeFindSession(h) \/ Audit(h)
      PROVE  FALSE
  BY <1>6, <1>8, Zenon
     DEF LoginFindUser, LoginFindTenant, LoginCheckPassword, LoginReadRoles,
         LoginTouchCredential, RefreshFindSession, RefreshFindUser, RefreshReadRoles,
         LogoutFindSession, ChangeCheckPassword, ChangeWrite, RevokeFindSession, Audit,
         tables
<1>9. ~(SetTenantState \/ Crash \/ UNCHANGED vars
        \/ \E u \in User, st \in UserState : SetUserState(u, st))
  BY <1>6 DEF SetTenantState, Crash, SetUserState, tables, vars
<1>10. \E h \in Handler : LoginCreateSession(h)
  BY <1>3, <1>4, <1>5, <1>7, <1>8, <1>9 DEF Next, Environment, Advance
<1>. QED
  BY <1>2, <1>10

LEMMA GoneStays ==
    ASSUME Inv, [Next]_vars, NEW u \in User, Gone(u)
    PROVE  Gone(u)'
<1>0. /\ TypeOK /\ req \in [Handler -> Request] /\ users \in [User -> UserState]
      /\ users[u] = "deleted"
  BY DEF Inv, TypeOK, Gone
<1>1. users'[u] = "deleted"
  <2>1. ASSUME NEW v \in User, NEW st \in UserState, SetUserState(v, st)
        PROVE  users'[u] = "deleted"
    BY <1>0, <2>1 DEF SetUserState
  <2>. QED
    BY <1>0, <2>1, OnlyAdministrators
<1>2. ASSUME NEW g \in Handler, Entering(g)' PROVE req'[g].user # u
  <2>1. CASE req'[g] = req[g]
    BY <1>2, <2>1 DEF Gone, Entering
  <2>2. CASE Advance(g)
    BY <1>0, <1>2, <2>2, Entrances DEF Gone
  <2>3. ASSUME NEW h \in Handler, Arrive(h) PROVE req'[g] = req[g]
    <3>1. h # g
      BY <1>0, <1>2, <2>3, ArriveTurns DEF Entering
    <3>2. PICK r : Begin(h, r)
      BY <2>3, Zenon DEF Arrive, Login, RefreshToken, Logout, RevokeSession,
           ChangePassword, RevokeAllOtherSessions, Unauthenticated
    <3>. QED
      BY <1>0, <3>1, <3>2 DEF Begin, Step
  <2>4. ASSUME NEW h \in Handler, Advance(h), h # g PROVE req'[g] = req[g]
    BY <1>0, <2>4, AdvanceLowers
  <2>5. ~Crash
    BY <1>2 DEF Crash, Entering, Blank
  <2>6. ASSUME Environment \/ UNCHANGED vars PROVE req'[g] = req[g]
    BY <2>5, <2>6 DEF Environment, SetUserState, SetTenantState, Expire, vars
  <2>. QED
    BY <2>1, <2>2, <2>3, <2>4, <2>6 DEF Next
<1>. QED
  BY <1>1, <1>2 DEF Gone

\* A deleted account gains no session and loses none: DeleteUser leaves the
\* sessions as they are, and once the logins that saw the account alive are
\* over, nothing signs it in again, whoever else is signing in.
THEOREM DeletedStaySignedOut ==
    Spec => [][\A u \in User : Gone(u) => Gone(u)' /\ SessionsOf(u)' = SessionsOf(u)]_vars
<1>1. ASSUME Inv, [Next]_vars, NEW u \in User, Gone(u)
      PROVE  Gone(u)' /\ SessionsOf(u)' = SessionsOf(u)
  <2>1. Grows(sessions, sessions')
    BY <1>1, NextGrows
  <2>2. SessionsOf(u) \subseteq SessionsOf(u)'
    BY <2>1 DEF SessionsOf, Grows, Rows
  <2>3. ASSUME NEW s \in SessionsOf(u)' PROVE s \in SessionsOf(u)
    <3>1. s \in Session /\ s \in Rows' /\ sessions'[s].user = u
      BY <2>3 DEF SessionsOf, Rows, RowsOf
    <3>2. CASE s \in Rows
      BY <2>1, <3>1, <3>2 DEF SessionsOf, Grows, Rows
    <3>3. CASE s \notin Rows
      BY <1>1, <3>1, <3>3, NewRows DEF Gone, Entering, At
    <3>. QED
      BY <3>2, <3>3
  <2>. QED
    BY <1>1, <2>2, <2>3, GoneStays
<1>2. Inv /\ [Next]_vars =>
        [\A u \in User : Gone(u) => Gone(u)' /\ SessionsOf(u)' = SessionsOf(u)]_vars
  BY <1>1
<1>. QED
  BY <1>2, Invariance, PTL DEF Spec
=============================================================================
