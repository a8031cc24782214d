------------------------------ MODULE Accounts ------------------------------
(***************************************************************************)
(* User accounts and tenants of the auth-service: Register                 *)
(* (auth_usecase.go), CreateUser, UpdateUser, DeleteUser (user_usecase.go) *)
(* and CreateTenant, UpdateTenant, DeleteTenant (tenant_usecase.go), as    *)
(* they run concurrently on the tables tenants, users, user_credentials    *)
(* and audit_logs.                                                         *)
(*                                                                         *)
(* As in AuthSessions, no usecase opens a transaction: one SQL statement   *)
(* is one step.  The checks before an INSERT are SELECTs of their own, an  *)
(* UPDATE writes back every column of the row that was read.               *)
(*                                                                         *)
(* Left out: the columns nothing depends on (names, phones, profiles,      *)
(* configurations, timestamps); the roles that Register and CreateUser     *)
(* assign between the credential and the audit entry, whose errors they    *)
(* ignore (module Roles).                                                  *)
(***************************************************************************)
EXTENDS FiniteSets, Naturals

CONSTANTS
    Tenant, User,                    \* ids of rows
    Email, Username, Code, Domain,   \* what bodies of requests give
    Actor,       \* what they give as created_by or updated_by
    Handler,     \* slots for requests in progress
    None,        \* NULL, nil, not given
    Zero,        \* the zero UUID, the id of no row
    SeedTenant, SeedCode,  \* the tenant SYSTEM of the migration
    DbOutcome,   \* what a statement may come to, see AuthSessions
    Operations,  \* bound: the operations that are called
    NewEmail, OtherEmail,  \* bound: the addresses of creations and of updates
    StatusGiven  \* bound: the statuses that bodies give

UserStatus == {"blocked", "active", "pending"}
TenantStatus == {"inactive", "active"}  \* suspended counts as inactive

\* A domain is optional; the empty string is stored, but not looked up.
DomainValue == Domain \cup {None, ""}

Operation == {"Register", "CreateUser", "UpdateUser", "DeleteUser",
              "CreateTenant", "UpdateTenant", "DeleteTenant"}

ASSUME ModeAssumption ==
    /\ "ok" \in DbOutcome /\ DbOutcome \subseteq {"ok", "fails", "unacked"}
    /\ Operations \subseteq Operation
    /\ NewEmail \subseteq Email /\ OtherEmail \subseteq Email
    /\ StatusGiven \subseteq UserStatus \cup TenantStatus
    /\ SeedTenant \in Tenant /\ SeedCode \in Code

UserRow == [tenant : Tenant, email : Email, name : Username,
            status : UserStatus, deleted : BOOLEAN]

TenantRow == [code : Code, domain : DomainValue, status : TenantStatus,
              deleted : BOOLEAN]

\* TENANT_DELETE is TENANT_UPDATE with "delete" in its details.
AuditAction == {"REGISTER", "USER_CREATE", "USER_UPDATE", "USER_DELETE",
                "TENANT_CREATE", "TENANT_UPDATE", "TENANT_DELETE"}

AuditRow == [action : AuditAction, user : User \cup Actor \cup {None, Zero},
             tenant : Tenant]

Reply == {"ok", "NotFound", "TenantInactive", "Conflict", "Internal"}

ASSUME NoneAssumption ==
    /\ None \notin UserRow /\ None \notin TenantRow /\ None \notin AuditRow
    /\ None \notin Tenant \cup User \cup Email \cup Username \cup Code
    /\ None \notin UserStatus \cup Domain \cup Operation \cup {""}
    /\ Zero \notin User /\ Zero # None

VARIABLES
    tenants,   \* tenants[t]: the row with id t, or None
    users,     \* users[u]: the row with id u, or None
    cred,      \* the users with an active password credential
    audit,     \* the row of audit_logs inserted last, or None: no usecase here
               \* reads or changes one
    req,       \* req[h]: the request in slot h
    edited,    \* history: users whose e-mail an update has written
    rivals     \* history: <<u, v>>: v's creation checked its e-mail before u's
               \* INSERT and inserted after it

tables == <<tenants, users, cred, audit>>
history == <<edited, rivals>>
vars == <<tables, req, history>>

Phase == {"done", "tenant", "email", "name", "insert_user", "credential",
          "user_read", "user_write", "user_delete",
          "code", "domain", "insert_tenant",
          "tenant_read", "tenant_write", "tenant_delete", "audit"}

Request == [op : Operation \cup {None}, pc : Phase,
            tenant : Tenant \cup {None},
            user : User \cup {None},
            email : Email \cup {None},
            name : Username \cup {None},
            status : UserStatus \cup TenantStatus \cup {None},
            pw : BOOLEAN,                     \* a password is given
            code : Code \cup {None},
            domain : DomainValue,
            actor : Actor \cup {None, Zero},  \* created_by, updated_by
            row : UserRow \cup TenantRow \cup {None},  \* as read
            log : AuditRow \cup {None},
            gone : SUBSET Tenant,    \* history: tenants deleted before it began
            missed : SUBSET User]    \* history: inserted since its e-mail check

Blank == [op |-> None, pc |-> "done", tenant |-> None, user |-> None,
          email |-> None, name |-> None, status |-> None, pw |-> FALSE,
          code |-> None, domain |-> None, actor |-> None, row |-> None,
          log |-> None, gone |-> {}, missed |-> {}]

-----------------------------------------------------------------------------
(* Rows and statements *)

Applied(o) == o \in {"ok", "unacked"}
Fails(o) == o \in {"fails", "unacked"}

\* deleted_at IS NULL.
LiveUser(u) == users[u] # None /\ ~users[u].deleted
LiveTenant(t) == tenants[t] # None /\ ~tenants[t].deleted

\* What the lookups find; each is a SELECT of its own.
GetByEmailAndTenant(e, t) ==
    {u \in User : LiveUser(u) /\ users[u].email = e /\ users[u].tenant = t}
GetByUsername(n) == {u \in User : LiveUser(u) /\ users[u].name = n}
GetByCode(c) == {t \in Tenant : LiveTenant(t) /\ tenants[t].code = c}
GetByDomain(d) == {t \in Tenant : LiveTenant(t) /\ tenants[t].domain = d}

\* The unique index on usernames is partial: rows not deleted.
UserConflict(row) == GetByUsername(row.name) # {}

\* Mutant of TenantConflict: unique among the rows not deleted.
LiveTenantConflict(t, row) ==
    \E s \in Tenant \ {t} :
        /\ LiveTenant(s)
        /\ \/ tenants[s].code = row.code
           \/ row.domain # None /\ tenants[s].domain = row.domain

\* Unique columns of tenants: deleted rows count, NULL does not.
TenantConflict(t, row) ==
    \E s \in Tenant \ {t} :
        /\ tenants[s] # None
        /\ \/ tenants[s].code = row.code
           \/ row.domain # None /\ tenants[s].domain = row.domain

\* Mutant of WriteUser: no WHERE deleted_at IS NULL, and deleted_at written.
WriteUserAnyway(u, row) == [users EXCEPT ![u] = row]

\* UserRepo.Update: columns from the row in hand, if the row is not deleted.
\* The username among them is the row's own, so no unique index is in the way.
WriteUser(u, row) ==
    IF LiveUser(u)
    THEN [users EXCEPT ![u] = [row EXCEPT !.tenant = users[u].tenant,
                                          !.deleted = users[u].deleted]]
    ELSE users

WriteTenant(t, row) ==
    IF LiveTenant(t)
    THEN [tenants EXCEPT ![t] = [row EXCEPT !.deleted = tenants[t].deleted]]
    ELSE tenants

\* The keys uuid.New can return: those no row has.
FreshUser == {u \in User : users[u] = None}
FreshTenant == {t \in Tenant : tenants[t] = None}

-----------------------------------------------------------------------------
(* Steps of a request *)

At(h, p) == req[h].pc = p
Step(h, r) == req' = [req EXCEPT ![h] = r]
Goto(h, p) == Step(h, [req[h] EXCEPT !.pc = p])

\* The answer goes to the client, the locals go with the goroutine.
Answer(h, reply) == reply \in Reply /\ Step(h, Blank)

\* logAudit of an action about tenant t, then "ok".
Logging(action, who, t) ==
    [Blank EXCEPT !.pc = "audit",
                  !.log = [action |-> action, user |-> who, tenant |-> t]]
Log(h, action, who, t) == Step(h, Logging(action, who, t))

Begin(h, r) ==
    /\ At(h, "done")
    /\ r.op \in Operations
    /\ Step(h, [r EXCEPT !.gone = {t \in Tenant : tenants[t] # None
                                                  /\ tenants[t].deleted}])
    /\ UNCHANGED <<tables, history>>

\* audit_logs.user_id and tenant_id are foreign keys, or NULL.
AuditKeys(e) ==
    /\ e.user # None => e.user \in {u \in User : users[u] # None}
    /\ tenants[e.tenant] # None

\* The INSERT; an error is ignored.
Audit(h) ==
    LET e == req[h].log IN
    /\ At(h, "audit")
    /\ \E o \in DbOutcome :
         audit' = IF Applied(o) /\ AuditKeys(e) THEN e ELSE audit
    /\ Answer(h, "ok")
    /\ UNCHANGED <<tenants, users, cred, history>>

-----------------------------------------------------------------------------
(* Register and CreateUser *)

\* Bound: a creation starts only while each in progress can have an id.
Before(insert) == Cardinality({h \in Handler : req[h].pc \in insert})
RoomForUser ==
    Cardinality(FreshUser) > Before({"tenant", "email", "name", "insert_user"})
RoomForTenant ==
    Cardinality(FreshTenant) > Before({"code", "domain", "insert_tenant"})

Register(h, t, e, n) ==
    /\ RoomForUser
    /\ Begin(h, [Blank EXCEPT !.op = "Register", !.pc = "tenant", !.tenant = t,
                   !.email = e, !.name = n, !.status = "pending", !.pw = TRUE])

\* Status 0 is both "blocked" and "not given": it becomes active.
CreateUser(h, t, e, n, st, pw) ==
    /\ RoomForUser
    /\ Begin(h, [Blank EXCEPT !.op = "CreateUser", !.pc = "tenant", !.tenant = t,
                   !.email = e, !.name = n, !.pw = pw,
                   !.status = IF st = "blocked" THEN "active" ELSE st])

\* Mutant of CheckTenant: any row will do.
TenantExists(h) ==
    /\ At(h, "tenant")
    /\ IF tenants[req[h].tenant] # None THEN Goto(h, "email")
                                        ELSE Answer(h, "NotFound")
    /\ UNCHANGED <<tables, history>>

CheckTenant(h) ==
    LET t == req[h].tenant IN
    /\ At(h, "tenant")
    /\ \E o \in DbOutcome :
         \/ (Fails(o) \/ ~LiveTenant(t)) /\ Answer(h, "NotFound")
         \/ /\ ~Fails(o) /\ LiveTenant(t) /\ tenants[t].status # "active"
            /\ Answer(h, "TenantInactive")
         \/ /\ ~Fails(o) /\ LiveTenant(t) /\ tenants[t].status = "active"
            /\ Goto(h, "email")
    /\ UNCHANGED <<tables, history>>

\* A check before the INSERT: Conflict if it finds a row, else on to pc.
Unless(h, found, pc) ==
    /\ \E o \in DbOutcome :
         \/ Fails(o) /\ Answer(h, "Internal")
         \/ ~Fails(o) /\ found # {} /\ Answer(h, "Conflict")
         \/ ~Fails(o) /\ found = {} /\ Goto(h, pc)
    /\ UNCHANGED <<tables, history>>

\* Mutant of CheckEmail: pending accounts do not count.
CheckActiveEmail(h) ==
    /\ At(h, "email")
    /\ Unless(h, {u \in GetByEmailAndTenant(req[h].email, req[h].tenant) :
                    users[u].status # "pending"}, "name")

CheckEmail(h) ==
    /\ At(h, "email")
    /\ Unless(h, GetByEmailAndTenant(req[h].email, req[h].tenant), "name")

CheckUsername(h) ==
    /\ At(h, "name")
    /\ Unless(h, GetByUsername(req[h].name), "insert_user")

\* The creations that have checked their e-mail and not inserted yet.
PastCheck(g) == req[g].pc \in {"name", "insert_user"}

\* The other requests past their check miss u, if it was inserted.
Missing(r, h, u) ==
    [g \in Handler |->
        IF g = h THEN r
        ELSE IF PastCheck(g) THEN [req[g] EXCEPT !.missed = @ \cup {u}]
        ELSE req[g]]

InsertUser(h) ==
    LET r == req[h]
        row == [tenant |-> r.tenant, email |-> r.email, name |-> r.name,
                status |-> r.status, deleted |-> FALSE]
        inserted(u) ==
            IF r.pw THEN [Blank EXCEPT !.op = r.op, !.pc = "credential",
                                       !.user = u, !.tenant = r.tenant]
                    ELSE Logging("USER_CREATE", u, r.tenant)
    IN
    /\ At(h, "insert_user")
    /\ \E u \in FreshUser, o \in DbOutcome :
         IF Applied(o) /\ ~UserConflict(row)
         THEN /\ users' = [users EXCEPT ![u] = row]
              /\ rivals' = rivals \cup (r.missed \X {u})
              /\ req' = Missing(IF Fails(o) THEN Blank
                                            ELSE inserted(u), h, u)
         ELSE Answer(h, "Internal") /\ UNCHANGED <<users, rivals>>
    /\ UNCHANGED <<tenants, cred, audit, edited>>

\* Mutant of InsertCredential: its error is ignored.
CredentialIgnored(h) ==
    /\ At(h, "credential")
    /\ \E o \in DbOutcome :
         cred' = IF Applied(o) THEN cred \cup {req[h].user} ELSE cred
    /\ Log(h, "REGISTER", req[h].user, req[h].tenant)
    /\ UNCHANGED <<tenants, users, audit, history>>

\* If it fails the user row stays, without a password.
InsertCredential(h) ==
    LET r == req[h] IN
    /\ At(h, "credential")
    /\ \E o \in DbOutcome :
         /\ cred' = IF Applied(o) THEN cred \cup {r.user} ELSE cred
         /\ \/ Fails(o) /\ Answer(h, "Internal")
            \/ ~Fails(o) /\ Log(h, IF r.op = "Register" THEN "REGISTER"
                                   ELSE "USER_CREATE", r.user, r.tenant)
    /\ UNCHANGED <<tenants, users, audit, history>>

-----------------------------------------------------------------------------
(* UpdateUser and DeleteUser *)

\* None: the field is not in the body.
UpdateUser(h, u, e, st) ==
    Begin(h, [Blank EXCEPT !.op = "UpdateUser", !.pc = "user_read", !.user = u,
                           !.email = e, !.status = st])

DeleteUser(h, u) ==
    Begin(h, [Blank EXCEPT !.op = "DeleteUser", !.pc = "user_read", !.user = u])

\* Mutant of Given: the field is taken from the body in any case.
FromBody(new, old) == new

Given(new, old) == IF new = None THEN old ELSE new

ReadUser(h) ==
    LET r == req[h]
        u == r.user
        row == [users[u] EXCEPT !.email = Given(r.email, @),
                                !.status = Given(r.status, @)]
        next == [Blank EXCEPT !.op = r.op, !.user = u, !.tenant = users[u].tenant]
    IN
    /\ At(h, "user_read")
    /\ \E o \in DbOutcome :
         \/ (Fails(o) \/ ~LiveUser(u)) /\ Answer(h, "NotFound")
         \/ /\ ~Fails(o) /\ LiveUser(u) /\ r.op = "UpdateUser"
            /\ Step(h, [next EXCEPT !.pc = "user_write", !.row = row])
         \/ /\ ~Fails(o) /\ LiveUser(u) /\ r.op = "DeleteUser"
            /\ Step(h, [next EXCEPT !.pc = "user_delete"])
    /\ UNCHANGED <<tables, history>>

\* Every column is written, the ones the body does not give as read before.
UpdateUserWrite(h) ==
    LET r == req[h] IN
    /\ At(h, "user_write")
    /\ \E o \in DbOutcome :
         /\ users' = IF Applied(o) THEN WriteUser(r.user, r.row) ELSE users
         /\ edited' = IF Applied(o) THEN edited \cup {r.user} ELSE edited
         /\ \/ Fails(o) /\ Answer(h, "Internal")
            \/ ~Fails(o) /\ Log(h, "USER_UPDATE", r.user, r.tenant)
    /\ UNCHANGED <<tenants, cred, audit, rivals>>

DeleteUserWrite(h) ==
    LET r == req[h] IN
    /\ At(h, "user_delete")
    /\ \E o \in DbOutcome :
         /\ users' = IF Applied(o) /\ LiveUser(r.user)
                     THEN [users EXCEPT ![r.user].deleted = TRUE,
                                        ![r.user].status = "blocked"]
                     ELSE users
         /\ \/ Fails(o) /\ Answer(h, "Internal")
            \/ ~Fails(o) /\ Log(h, "USER_DELETE", r.user, r.tenant)
    /\ UNCHANGED <<tenants, cred, audit, history>>

-----------------------------------------------------------------------------
(* CreateTenant, UpdateTenant, DeleteTenant *)

CreateTenant(h, c, d, by) ==
    /\ RoomForTenant
    /\ Begin(h, [Blank EXCEPT !.op = "CreateTenant", !.pc = "code", !.code = c,
                              !.domain = d, !.actor = by])

CheckCode(h) ==
    /\ At(h, "code")
    /\ Unless(h, GetByCode(req[h].code),
              IF req[h].domain \in {None, ""} THEN "insert_tenant" ELSE "domain")

CheckDomain(h) ==
    /\ At(h, "domain")
    /\ Unless(h, GetByDomain(req[h].domain), "insert_tenant")

InsertTenant(h) ==
    LET r == req[h]
        row == [code |-> r.code, domain |-> r.domain, status |-> "active",
                deleted |-> FALSE]
    IN
    /\ At(h, "insert_tenant")
    /\ \E t \in FreshTenant, o \in DbOutcome :
         LET inserts == Applied(o) /\ ~TenantConflict(t, row) IN
         /\ tenants' = IF inserts THEN [tenants EXCEPT ![t] = row] ELSE tenants
         /\ IF inserts /\ ~Fails(o)
            THEN Log(h, "TENANT_CREATE", r.actor, t)
            ELSE Answer(h, "Internal")
    /\ UNCHANGED <<users, cred, audit, history>>

UpdateTenant(h, t, d, st, by) ==
    Begin(h, [Blank EXCEPT !.op = "UpdateTenant", !.pc = "tenant_read",
                           !.tenant = t, !.domain = d, !.status = st, !.actor = by])

\* The handler has nobody to name as deletedBy: it is the zero UUID.
DeleteTenant(h, t) ==
    Begin(h, [Blank EXCEPT !.op = "DeleteTenant", !.pc = "tenant_read",
                           !.tenant = t, !.actor = Zero])

ReadTenant(h) ==
    LET r == req[h]
        t == r.tenant
        row == [tenants[t] EXCEPT !.domain = Given(r.domain, @),
                                  !.status = Given(r.status, @)]
        next == [Blank EXCEPT !.op = r.op, !.tenant = t, !.actor = r.actor]
    IN
    /\ At(h, "tenant_read")
    /\ \E o \in DbOutcome :
         \/ (Fails(o) \/ ~LiveTenant(t)) /\ Answer(h, "NotFound")
         \/ /\ ~Fails(o) /\ LiveTenant(t) /\ r.op = "UpdateTenant"
            /\ Step(h, [next EXCEPT !.pc = "tenant_write", !.row = row])
         \/ /\ ~Fails(o) /\ LiveTenant(t) /\ r.op = "DeleteTenant"
            /\ Step(h, [next EXCEPT !.pc = "tenant_delete"])
    /\ UNCHANGED <<tables, history>>

\* The new domain is not looked up before: UNIQUE decides.
UpdateTenantWrite(h) ==
    LET r == req[h]
        clash == LiveTenant(r.tenant) /\ TenantConflict(r.tenant, r.row)
    IN
    /\ At(h, "tenant_write")
    /\ \E o \in DbOutcome :
         /\ tenants' = IF Applied(o) /\ ~clash THEN WriteTenant(r.tenant, r.row)
                                               ELSE tenants
         /\ IF Fails(o) \/ clash THEN Answer(h, "Internal")
                                 ELSE Log(h, "TENANT_UPDATE", r.actor, r.tenant)
    /\ UNCHANGED <<users, cred, audit, history>>

DeleteTenantWrite(h) ==
    LET r == req[h] IN
    /\ At(h, "tenant_delete")
    /\ \E o \in DbOutcome :
         /\ tenants' = IF Applied(o) /\ LiveTenant(r.tenant)
                       THEN [tenants EXCEPT ![r.tenant].deleted = TRUE,
                                            ![r.tenant].status = "inactive"]
                       ELSE tenants
         /\ \/ Fails(o) /\ Answer(h, "Internal")
            \/ ~Fails(o) /\ Log(h, "TENANT_DELETE", r.actor, r.tenant)
    /\ UNCHANGED <<users, cred, audit, history>>

-----------------------------------------------------------------------------
\* The process dies: the requests in progress get no answer, the tables stay.
Crash ==
    /\ \E h \in Handler : ~At(h, "done")
    /\ req' = [h \in Handler |-> Blank]
    /\ UNCHANGED <<tables, history>>

Init ==
    /\ tenants = [t \in Tenant |->
                    IF t = SeedTenant
                    THEN [code |-> SeedCode, domain |-> None,
                          status |-> "active", deleted |-> FALSE]
                    ELSE None]
    /\ users = [u \in User |-> None]
    /\ cred = {} /\ audit = None /\ edited = {} /\ rivals = {}
    /\ req = [h \in Handler |-> Blank]

Arrive(h) ==
    \/ \E t \in Tenant, e \in NewEmail, n \in Username :
         \/ Register(h, t, e, n)
         \/ \E st \in StatusGiven \cap UserStatus, pw \in BOOLEAN :
              CreateUser(h, t, e, n, st, pw)
    \/ \E u \in User :
         \/ DeleteUser(h, u)
         \/ \E e \in OtherEmail \cup {None},
            st \in (StatusGiven \cap UserStatus) \cup {None} :
              UpdateUser(h, u, e, st)
    \/ \E c \in Code, d \in DomainValue, by \in Actor : CreateTenant(h, c, d, by)
    \/ \E t \in Tenant :
         \/ DeleteTenant(h, t)
         \/ \E d \in DomainValue, by \in Actor,
            st \in (StatusGiven \cap TenantStatus) \cup {None} :
              UpdateTenant(h, t, d, st, by)

Advance(h) ==
    \/ CheckTenant(h) \/ CheckEmail(h) \/ CheckUsername(h) \/ InsertUser(h)
    \/ InsertCredential(h)
    \/ ReadUser(h) \/ UpdateUserWrite(h) \/ DeleteUserWrite(h)
    \/ CheckCode(h) \/ CheckDomain(h) \/ InsertTenant(h)
    \/ ReadTenant(h) \/ UpdateTenantWrite(h) \/ DeleteTenantWrite(h)
    \/ Audit(h)

Next == (\E h \in Handler : Arrive(h) \/ Advance(h)) \/ Crash

Spec == Init /\ [][Next]_vars

-----------------------------------------------------------------------------
(* What holds *)

TypeOK ==
    /\ tenants \in [Tenant -> TenantRow \cup {None}]
    /\ users \in [User -> UserRow \cup {None}]
    /\ cred \subseteq User
    /\ audit \in AuditRow \cup {None}
    /\ req \in [Handler -> Request]
    /\ edited \subseteq User
    /\ rivals \subseteq User \X User

\* The life of each account, as sign-in relies on it: stale rows written back
\* by UpdateUser never undo a DeleteUser, no account loses its password.
Life == INSTANCE AccountLife WITH
    state <- [u \in User |->
                IF users[u] = None THEN "absent"
                ELSE IF users[u].deleted THEN "deleted"
                ELSE IF users[u].status = "active" THEN "active"
                ELSE "inactive"],
    secret <- cred

LifeKept == Life!Spec

\* Checks that are SELECTs race with the INSERTs of others, and UpdateTenant
\* checks nothing; still no two accounts share a username, no two tenants, the
\* deleted ones included, a code or a domain.
NamesDistinct ==
    /\ \A u, v \in User :
         u # v /\ LiveUser(u) /\ LiveUser(v) => users[u].name # users[v].name
    /\ \A s, t \in Tenant :
         s # t /\ tenants[s] # None /\ tenants[t] # None =>
            /\ tenants[s].code # tenants[t].code
            /\ tenants[s].domain = tenants[t].domain => tenants[s].domain = None

\* No index keeps e-mail addresses apart.  Two accounts of one tenant share
\* theirs only if an update wrote one of them, or if each creation had checked
\* before the other's INSERT or the earlier INSERT fell between the check and
\* the INSERT of the later one.
EmailSharedOnlyByRace ==
    \A u, v \in User :
        /\ u # v /\ LiveUser(u) /\ LiveUser(v)
        /\ users[u].tenant = users[v].tenant
        /\ users[u].email = users[v].email
        => \/ u \in edited \/ v \in edited
           \/ <<u, v>> \in rivals \/ <<v, u>> \in rivals

\* A request that begins after a tenant was deleted never adds an account to
\* it, whatever stale rows UpdateTenant writes back meanwhile.
NoUserInDeletedTenant ==
    [][\A u \in User :
         users[u] = None /\ users'[u] # None =>
            \E h \in Handler : /\ At(h, "insert_user")
                               /\ users'[u].tenant \notin req[h].gone]_vars

\* The audit trail reports nothing that did not happen: created accounts are
\* there, registered ones with a password, deleted ones are deleted.
AuditSound ==
    audit # None =>
        /\ audit.action \in {"REGISTER", "USER_CREATE", "USER_UPDATE", "USER_DELETE"} =>
             users[audit.user] # None /\ users[audit.user].tenant = audit.tenant
        /\ audit.action = "REGISTER" => audit.user \in cred
        /\ audit.action = "USER_DELETE" => users[audit.user].deleted

-----------------------------------------------------------------------------
(* What the repository says and the code does not do *)

\* README.md:233 "Audit logging untuk semua operasi penting", tenant_usecase.go:151
\* "Log audit": every operation that gets to logAudit leaves its entry in the
\* trail.  The claim is about a database that works: one that fails the INSERT
\* loses the entry of any operation.
OperationsAudited ==
    [][\A h \in Handler : Audit(h) => audit' = req[h].log]_vars
=============================================================================
