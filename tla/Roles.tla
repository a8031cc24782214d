------------------------------- MODULE Roles -------------------------------
(***************************************************************************)
(* Roles and permissions of the auth-service: CreateRole, UpdateRole,      *)
(* DeleteRole, CreatePermission, AssignPermission, RemovePermission        *)
(* (role_usecase.go), AssignRole, RemoveRole (user_usecase.go) and what    *)
(* Register and CreateUser do about roles, on the tables roles,            *)
(* permissions, role_permissions, user_roles and audit_logs.               *)
(*                                                                         *)
(* One SQL statement is one step, as in Accounts.  Left out: names and     *)
(* descriptions, assigned_by, timestamps, expires_at (always NULL); what   *)
(* Register and CreateUser do before and after the roles (Accounts); the   *)
(* seeded permissions, which differ in nothing from those created later.   *)
(***************************************************************************)
EXTENDS Naturals, Sequences, FiniteSets

CONSTANTS
    Role, Permission, User,     \* ids of rows
    Tenant,                     \* tenants in the table: none ever leaves it
    Code, Right,                \* codes of roles; <<resource, action>>
    None,                       \* NULL, nil, not given
    Nobody,                     \* the id of no row of tenants or users
    SystemRole, SystemCode,     \* ROLE_USER; the other seeded roles are alike
    Handler,                    \* slots for requests in progress
    DbOutcome,                  \* what a statement may come to, see AuthSessions
    Operations,                 \* bound: the operations that are called
    Actor,                      \* bound: what bodies give as created_by, updated_by
    StatusGiven,                \* bound: what they give as status, active or not
    MaxListed,                  \* bound: how many PermissionIDs or RoleIDs they give
    MaxAssigned                 \* bound: no assignment is asked for beyond these

Operation == {"CreateRole", "UpdateRole", "DeleteRole", "CreatePermission",
              "AssignPermission", "RemovePermission", "AssignRole",
              "RemoveRole", "Register", "CreateUser"}

ASSUME ModeAssumption ==
    /\ "ok" \in DbOutcome /\ DbOutcome \subseteq {"ok", "fails", "unacked"}
    /\ Operations \subseteq Operation
    /\ Actor \subseteq User \cup {None, Nobody}
    /\ StatusGiven \subseteq BOOLEAN /\ MaxListed \in Nat /\ MaxAssigned \in Nat
    /\ SystemRole \in Role /\ SystemCode \in Code

RoleRow == [tenant : Tenant \cup {None}, code : Code,
            system : BOOLEAN, active : BOOLEAN]

Entry == [action : Operation, user : User \cup {None, Nobody},
          tenant : Tenant \cup {None}, role : Role]

Reply == {"ok", "NotFound", "Forbidden", "Conflict", "Internal"}

ASSUME FiniteAssumption == IsFiniteSet(Role)

ASSUME NoneAssumption ==
    /\ None \notin RoleRow \cup Right \cup Tenant \cup User \cup Entry
    /\ None \notin Role \cup Operation /\ None # Nobody
    /\ Nobody \notin User \cup Tenant

VARIABLES
    roles,      \* roles[r]: the row with id r, or None
    perms,      \* perms[p]: what permission p allows, or None
    rolePerms,  \* role_permissions: <<role, permission>>
    users,      \* ids of the rows of users
    userRoles,  \* user_roles: <<user, role>>
    audit,      \* the roles whose deletion audit_logs reports
    req,        \* req[h]: the request in slot h
    born,       \* history: born[r]: how many roles were inserted up to r, or 0
    seen        \* history: seen[r]: how many were when r's code was looked up

tables == <<roles, perms, rolePerms, users, userRoles, audit>>
history == <<born, seen>>
vars == <<tables, req, history>>

Phase == {"done", "code", "insert", "give_permissions", "read", "write",
          "delete", "permission", "assign_permission", "remove_permission",
          "assign_role", "remove_role", "default", "give_default",
          "give_roles", "audit"}

Request == [op : Operation \cup {None}, pc : Phase,
            role : Role \cup {None}, perm : Permission \cup {None},
            right : Right \cup {None},
            user : User \cup {None},
            tenant : Tenant \cup {None, Nobody},
            code : Code \cup {None},
            active : BOOLEAN \cup {None},
            actor : User \cup {None, Nobody},  \* created_by, updated_by
            row : RoleRow \cup {None},         \* as read
            todo : Seq(Permission) \cup Seq(Role),
            checked : Nat,                     \* history: see seen
            log : Entry \cup {None}]

Blank == [op |-> None, pc |-> "done", role |-> None, perm |-> None,
          right |-> None, user |-> None, tenant |-> None, code |-> None,
          active |-> None, actor |-> None, row |-> None, todo |-> <<>>,
          checked |-> 0, log |-> None]

-----------------------------------------------------------------------------
(* Rows and statements *)

Applied(o) == o \in {"ok", "unacked"}
Fails(o) == o \in {"fails", "unacked"}

\* Mutant of Matches: a tenant sees its own roles only.
MatchesOwn(c, t) ==
    {r \in Role : roles[r] # None /\ roles[r].code = c /\ roles[r].tenant = t}

\* GetByCode finds one of these, whichever comes first.
Matches(c, t) ==
    {r \in Role : /\ roles[r] # None /\ roles[r].code = c
                  /\ roles[r].tenant \in {t, None}}

\* Mutant of RoleConflict: without UNIQUE.
NoConflict(row) == FALSE

\* UNIQUE(tenant_id, code), for which no two NULLs are equal.
RoleConflict(row) ==
    /\ row.tenant # None
    /\ \E r \in Role : /\ roles[r] # None
                       /\ roles[r].tenant = row.tenant /\ roles[r].code = row.code

\* WHERE id = r AND is_system_defined = false.
Ours(r) == roles[r] # None /\ ~roles[r].system

\* Mutant of Protected: it is left to the WHERE.
NotProtected(row) == FALSE

\* What the usecase refuses to change.
Protected(row) == row.system

\* Mutant of TenantKey: roles.tenant_id without a foreign key.
NoTenantKey(t) == TRUE

\* roles.tenant_id is a foreign key, or NULL.
TenantKey(t) == t # Nobody

\* Mutant of PermissionKeys: role_id without a foreign key.
NoRoleKey(r, p) == perms[p] # None

\* Both foreign keys of role_permissions, of user_roles.
PermissionKeys(r, p) == roles[r] # None /\ perms[p] # None
RoleKeys(u, r) == u \in users /\ roles[r] # None

\* The INSERTs do nothing to a row that is there.
WithPermission(r, p) ==
    IF PermissionKeys(r, p) THEN rolePerms \cup {<<r, p>>} ELSE rolePerms
WithRole(u, r) ==
    IF RoleKeys(u, r) THEN userRoles \cup {<<u, r>>} ELSE userRoles

Inserted == Cardinality({r \in Role : born[r] # 0})
FreshRole == {r \in Role : born[r] = 0}
FreshPermission == {p \in Permission : perms[p] = None}

\* Bound: a creation starts only while each in progress can have an id.
Room(fresh, before) ==
    Cardinality(fresh) > Cardinality({h \in Handler : req[h].pc \in before})

\* UNIQUE(resource, action); a permission never leaves its table.
Taken(right) == \E p \in Permission : perms[p] = right

RoomToAssign == Cardinality(rolePerms) + Cardinality(userRoles) < MaxAssigned

\* What a body lists.
Listed(ids) ==
    UNION {[1 .. n -> ids] : n \in 0 .. (IF RoomToAssign THEN MaxListed ELSE 0)}

-----------------------------------------------------------------------------
(* Steps of a request *)

At(h, p) == req[h].pc = p
Step(h, r) == req' = [req EXCEPT ![h] = r]
Goto(h, p) == Step(h, [req[h] EXCEPT !.pc = p])

\* The answer goes to the client, the locals go with the goroutine.
Answer(h, reply) == reply \in Reply /\ Step(h, Blank)

\* logAudit, then "ok".
Log(h, action, u, t, r) ==
    Step(h, [Blank EXCEPT !.pc = "audit",
               !.log = [action |-> action, user |-> u, tenant |-> t, role |-> r]])

Begin(h, r) ==
    /\ At(h, "done") /\ r.op \in Operations
    /\ Step(h, r)
    /\ UNCHANGED <<tables, history>>

\* audit_logs.user_id is a foreign key; an error is ignored.  Kept of the rows
\* is what AuditSound is about.
Audit(h) ==
    LET e == req[h].log IN
    /\ At(h, "audit")
    /\ \E o \in DbOutcome :
         audit' = IF /\ Applied(o) /\ e.user \in users \cup {None}
                     /\ e.action = "DeleteRole"
                  THEN audit \cup {e.role} ELSE audit
    /\ Answer(h, "ok")
    /\ UNCHANGED <<roles, perms, rolePerms, users, userRoles, history>>

-----------------------------------------------------------------------------
(* CreateRole, UpdateRole, DeleteRole *)

CreateRole(h, t, c, by, ps) ==
    /\ Room(FreshRole, {"code", "insert"})
    /\ Begin(h, [Blank EXCEPT !.op = "CreateRole", !.pc = "code", !.tenant = t,
                              !.code = c, !.actor = by, !.todo = ps])

CheckCode(h) ==
    LET taken == Matches(req[h].code, req[h].tenant) # {} IN
    /\ At(h, "code")
    /\ \E o \in DbOutcome :
         \/ Fails(o) /\ Answer(h, "Internal")
         \/ ~Fails(o) /\ taken /\ Answer(h, "Conflict")
         \/ /\ ~Fails(o) /\ ~taken
            /\ Step(h, [req[h] EXCEPT !.pc = "insert", !.checked = Inserted])
    /\ UNCHANGED <<tables, history>>

InsertRole(h) ==
    LET r == req[h]
        row == [tenant |-> r.tenant, code |-> r.code,
                system |-> FALSE, active |-> TRUE]
        accepted == TenantKey(r.tenant) /\ ~RoleConflict(row)
    IN
    /\ At(h, "insert")
    /\ \E id \in FreshRole, o \in DbOutcome :
         \/ /\ Applied(o) /\ accepted
            /\ roles' = [roles EXCEPT ![id] = row]
            /\ born' = [born EXCEPT ![id] = Inserted + 1]
            /\ seen' = [seen EXCEPT ![id] = r.checked]
            /\ \/ Fails(o) /\ Answer(h, "Internal")
               \/ /\ ~Fails(o)
                  /\ Step(h, [r EXCEPT !.pc = "give_permissions", !.role = id,
                                       !.checked = 0])
         \/ /\ ~(Applied(o) /\ accepted)
            /\ UNCHANGED <<roles, history>>
            /\ Answer(h, "Internal")
    /\ UNCHANGED <<perms, rolePerms, users, userRoles, audit>>

\* One permission of the body after the other; errors are ignored.
GivePermission(h) ==
    LET r == req[h] IN
    /\ At(h, "give_permissions")
    /\ IF r.todo = <<>>
       THEN /\ Log(h, "CreateRole", r.actor, r.tenant, r.role)
            /\ UNCHANGED rolePerms
       ELSE /\ \E o \in DbOutcome :
                 rolePerms' = IF Applied(o) THEN WithPermission(r.role, Head(r.todo))
                                            ELSE rolePerms
            /\ Step(h, [r EXCEPT !.todo = Tail(@)])
    /\ UNCHANGED <<roles, perms, users, userRoles, audit, history>>

\* None: the status is not in the body.
UpdateRole(h, r, active, by) ==
    Begin(h, [Blank EXCEPT !.op = "UpdateRole", !.pc = "read", !.role = r,
                           !.active = active, !.actor = by])

DeleteRole(h, r) ==
    Begin(h, [Blank EXCEPT !.op = "DeleteRole", !.pc = "read", !.role = r])

ReadRole(h) ==
    LET r == req[h]
        row == roles[r.role]
        next == [Blank EXCEPT !.op = r.op, !.role = r.role, !.actor = r.actor]
    IN
    /\ At(h, "read")
    /\ \E o \in DbOutcome :
         \/ (Fails(o) \/ row = None) /\ Answer(h, "NotFound")
         \/ ~Fails(o) /\ row # None /\ Protected(row) /\ Answer(h, "Forbidden")
         \/ /\ ~Fails(o) /\ row # None /\ ~Protected(row) /\ r.op = "UpdateRole"
            /\ Step(h, [next EXCEPT
                          !.pc = "write",
                          !.row = IF r.active = None THEN row
                                  ELSE [row EXCEPT !.active = r.active]])
         \/ /\ ~Fails(o) /\ row # None /\ ~Protected(row) /\ r.op = "DeleteRole"
            /\ Step(h, [next EXCEPT !.pc = "delete", !.row = row])
    /\ UNCHANGED <<tables, history>>

\* Mutant of UpdateRoleWrite: the row is saved whether it is there or not.
SaveRole(h) ==
    LET r == req[h] IN
    /\ At(h, "write")
    /\ roles' = [roles EXCEPT ![r.role] = r.row]
    /\ Log(h, "UpdateRole", r.actor, r.row.tenant, r.role)
    /\ UNCHANGED <<perms, rolePerms, users, userRoles, audit, history>>

\* The status is written back as read when the body does not give it.
UpdateRoleWrite(h) ==
    LET r == req[h] IN
    /\ At(h, "write")
    /\ \E o \in DbOutcome :
         /\ roles' = IF Applied(o) /\ Ours(r.role)
                     THEN [roles EXCEPT ![r.role].active = r.row.active,
                                        ![r.role].code = r.row.code]
                     ELSE roles
         /\ \/ Fails(o) /\ Answer(h, "Internal")
            \/ ~Fails(o) /\ Log(h, "UpdateRole", r.actor, r.row.tenant, r.role)
    /\ UNCHANGED <<perms, rolePerms, users, userRoles, audit, history>>

\* ON DELETE CASCADE in role_permissions and user_roles.
DeleteRoleWrite(h) ==
    LET r == req[h]
        deletes(o) == Applied(o) /\ Ours(r.role)
    IN
    /\ At(h, "delete")
    /\ \E o \in DbOutcome :
         /\ \/ /\ deletes(o)
               /\ roles' = [roles EXCEPT ![r.role] = None]
               /\ rolePerms' = {e \in rolePerms : e[1] # r.role}
               /\ userRoles' = {e \in userRoles : e[2] # r.role}
            \/ ~deletes(o) /\ UNCHANGED <<roles, rolePerms, userRoles>>
         /\ \/ Fails(o) /\ Answer(h, "Internal")
            \/ ~Fails(o) /\ Log(h, "DeleteRole", None, r.row.tenant, r.role)
    /\ UNCHANGED <<perms, users, audit, history>>

-----------------------------------------------------------------------------
(* CreatePermission, AssignPermission, RemovePermission *)

CreatePermission(h, right) ==
    /\ Room(FreshPermission, {"permission"}) \/ Taken(right)
    /\ Begin(h, [Blank EXCEPT !.op = "CreatePermission", !.pc = "permission",
                              !.right = right])

\* Not audited.
InsertPermission(h) ==
    LET right == req[h].right
    IN
    /\ At(h, "permission")
    /\ \/ /\ Taken(right) /\ UNCHANGED perms
          /\ Answer(h, "Internal")
       \/ /\ ~Taken(right)
          /\ \E p \in FreshPermission, o \in DbOutcome :
               /\ perms' = IF Applied(o) THEN [perms EXCEPT ![p] = right] ELSE perms
               /\ Answer(h, IF Fails(o) THEN "Internal" ELSE "ok")
    /\ UNCHANGED <<roles, rolePerms, users, userRoles, audit, history>>

AssignPermission(h, r, p) ==
    /\ RoomToAssign
    /\ Begin(h, [Blank EXCEPT !.op = "AssignPermission", !.role = r, !.perm = p,
                              !.pc = "assign_permission"])

\* System roles are not spared.
InsertRolePermission(h) ==
    LET r == req[h] IN
    /\ At(h, "assign_permission")
    /\ \E o \in DbOutcome :
         /\ rolePerms' = IF Applied(o) THEN WithPermission(r.role, r.perm)
                                       ELSE rolePerms
         /\ IF Fails(o) \/ ~PermissionKeys(r.role, r.perm)
            THEN Answer(h, "Internal")
            ELSE Log(h, "AssignPermission", None, None, r.role)
    /\ UNCHANGED <<roles, perms, users, userRoles, audit, history>>

RemovePermission(h, r, p) ==
    Begin(h, [Blank EXCEPT !.op = "RemovePermission", !.pc = "remove_permission",
                           !.role = r, !.perm = p])

\* "ok" also when there was nothing to remove.
DeleteRolePermission(h) ==
    LET r == req[h] IN
    /\ At(h, "remove_permission")
    /\ \E o \in DbOutcome :
         /\ rolePerms' = IF Applied(o) THEN rolePerms \ {<<r.role, r.perm>>}
                                       ELSE rolePerms
         /\ \/ Fails(o) /\ Answer(h, "Internal")
            \/ ~Fails(o) /\ Log(h, "RemovePermission", None, None, r.role)
    /\ UNCHANGED <<roles, perms, users, userRoles, audit, history>>

-----------------------------------------------------------------------------
(* Roles of users *)

AssignRole(h, u, r) ==
    /\ RoomToAssign
    /\ Begin(h, [Blank EXCEPT !.op = "AssignRole", !.pc = "assign_role",
                              !.user = u, !.role = r])

InsertUserRole(h) ==
    LET r == req[h] IN
    /\ At(h, "assign_role")
    /\ \E o \in DbOutcome :
         /\ userRoles' = IF Applied(o) THEN WithRole(r.user, r.role) ELSE userRoles
         /\ IF Fails(o) \/ ~RoleKeys(r.user, r.role)
            THEN Answer(h, "Internal")
            ELSE Log(h, "AssignRole", r.user, None, r.role)
    /\ UNCHANGED <<roles, perms, rolePerms, users, audit, history>>

RemoveRole(h, u, r) ==
    Begin(h, [Blank EXCEPT !.op = "RemoveRole", !.pc = "remove_role",
                           !.user = u, !.role = r])

DeleteUserRole(h) ==
    LET r == req[h] IN
    /\ At(h, "remove_role")
    /\ \E o \in DbOutcome :
         /\ userRoles' = IF Applied(o) THEN userRoles \ {<<r.user, r.role>>}
                                       ELSE userRoles
         /\ \/ Fails(o) /\ Answer(h, "Internal")
            \/ ~Fails(o) /\ Log(h, "RemoveRole", r.user, None, r.role)
    /\ UNCHANGED <<roles, perms, rolePerms, users, audit, history>>

\* Register and CreateUser from the INSERT of the user on: the row is there
\* for everybody before it has its roles.
NewUser(h, r) ==
    /\ At(h, "done") /\ r.op \in Operations /\ r.user \notin users
    /\ users' = users \cup {r.user}
    /\ Step(h, r)
    /\ UNCHANGED <<roles, perms, rolePerms, userRoles, audit, history>>

Register(h, u, t) ==
    NewUser(h, [Blank EXCEPT !.op = "Register", !.pc = "default", !.user = u,
                             !.tenant = t])

CreateUser(h, u, rs) ==
    NewUser(h, [Blank EXCEPT !.op = "CreateUser", !.pc = "give_roles", !.user = u,
                             !.todo = rs])

\* The lookup of ROLE_USER; without it the user is left without a role.
FindDefaultRole(h) ==
    LET found == Matches(SystemCode, req[h].tenant) IN
    /\ At(h, "default")
    /\ \E o \in DbOutcome :
         \/ (Fails(o) \/ found = {}) /\ Answer(h, "ok")
         \/ /\ ~Fails(o)
            /\ \E r \in found :
                 Step(h, [req[h] EXCEPT !.pc = "give_default", !.role = r])
    /\ UNCHANGED <<tables, history>>

\* Errors are ignored.
GiveDefaultRole(h) ==
    LET r == req[h] IN
    /\ At(h, "give_default")
    /\ \E o \in DbOutcome :
         userRoles' = IF Applied(o) THEN WithRole(r.user, r.role) ELSE userRoles
    /\ Answer(h, "ok")
    /\ UNCHANGED <<roles, perms, rolePerms, users, audit, history>>

\* One role of the body after the other; errors are ignored.
GiveRole(h) ==
    LET r == req[h] IN
    /\ At(h, "give_roles")
    /\ IF r.todo = <<>>
       THEN Answer(h, "ok") /\ UNCHANGED userRoles
       ELSE /\ \E o \in DbOutcome :
                 userRoles' = IF Applied(o) THEN WithRole(r.user, Head(r.todo))
                                            ELSE userRoles
            /\ Step(h, [r EXCEPT !.todo = Tail(@)])
    /\ UNCHANGED <<roles, perms, rolePerms, users, audit, history>>

-----------------------------------------------------------------------------
\* The process dies: the requests in progress get no answer, the tables stay.
Crash ==
    /\ \E h \in Handler : ~At(h, "done")
    /\ req' = [h \in Handler |-> Blank]
    /\ UNCHANGED <<tables, history>>

Init ==
    /\ roles = [r \in Role |->
                  IF r = SystemRole
                  THEN [tenant |-> None, code |-> SystemCode,
                        system |-> TRUE, active |-> TRUE]
                  ELSE None]
    /\ perms = [p \in Permission |-> None] /\ rolePerms = {}
    /\ users = {} /\ userRoles = {} /\ audit = {}
    /\ req = [h \in Handler |-> Blank]
    /\ born = [r \in Role |-> IF r = SystemRole THEN 1 ELSE 0]
    /\ seen = [r \in Role |-> 0]

\* Ids of roles, permissions and users may be those of no row (yet).
Arrive(h) ==
    \/ \E t \in Tenant \cup {None, Nobody}, c \in Code, by \in Actor,
          ps \in Listed(Permission) : CreateRole(h, t, c, by, ps)
    \/ \E r \in Role :
         \/ DeleteRole(h, r)
         \/ \E a \in StatusGiven \cup {None}, by \in Actor : UpdateRole(h, r, a, by)
    \/ \E right \in Right : CreatePermission(h, right)
    \/ \E r \in Role, p \in Permission :
         AssignPermission(h, r, p) \/ RemovePermission(h, r, p)
    \/ \E u \in User, r \in Role :
         AssignRole(h, u, r) \/ RemoveRole(h, u, r)
    \/ \E u \in User : \/ \E t \in Tenant : Register(h, u, t)
                       \/ \E rs \in Listed(Role) : CreateUser(h, u, rs)

Advance(h) ==
    \/ CheckCode(h) \/ InsertRole(h) \/ GivePermission(h)
    \/ ReadRole(h) \/ UpdateRoleWrite(h) \/ DeleteRoleWrite(h)
    \/ InsertPermission(h) \/ InsertRolePermission(h) \/ DeleteRolePermission(h)
    \/ InsertUserRole(h) \/ DeleteUserRole(h)
    \/ FindDefaultRole(h) \/ GiveDefaultRole(h) \/ GiveRole(h)
    \/ Audit(h)

Next == (\E h \in Handler : Arrive(h) \/ Advance(h)) \/ Crash

Spec == Init /\ [][Next]_vars

-----------------------------------------------------------------------------
(* What holds *)

TypeOK ==
    /\ roles \in [Role -> RoleRow \cup {None}]
    /\ perms \in [Permission -> Right \cup {None}]
    /\ rolePerms \subseteq Role \X Permission
    /\ users \subseteq User
    /\ userRoles \subseteq User \X Role
    /\ audit \subseteq Role
    /\ req \in [Handler -> Request]
    /\ born \in [Role -> Nat] /\ seen \in [Role -> Nat]

\* Whatever roles are created, renamed or deleted meanwhile, in any tenant:
\* ROLE_USER stays as it was seeded, no other role has its code, and it is what
\* a registration finds by that code and assigns.
RegistersAsUser ==
    /\ roles[SystemRole] = [tenant |-> None, code |-> SystemCode,
                            system |-> TRUE, active |-> TRUE]
    /\ \A r \in Role \ {SystemRole} :
         roles[r] # None => ~roles[r].system /\ roles[r].code # SystemCode
    /\ \A h \in Handler : At(h, "give_default") => req[h].role = SystemRole

\* Two roles of one tenant never share a code.  Two that one tenant can see do
\* only if one of them is global, and the later was looked up before the
\* earlier was inserted, or is global and was not looked up among the tenants'.
CodesClashOnlyByRace ==
    \A r, s \in Role :
        /\ roles[r] # None /\ roles[s] # None /\ born[r] < born[s]
        /\ roles[r].code = roles[s].code
        => /\ roles[r].tenant = roles[s].tenant => roles[r].tenant = None
           /\ roles[s].tenant \in {roles[r].tenant, None} \/ roles[r].tenant = None
              => \/ seen[s] < born[r]
                 \/ roles[s].tenant = None /\ roles[r].tenant # None

\* No assignment outlives its role, the ones a request in progress makes for a
\* role that another has deleted included.
NothingDangles ==
    /\ \A e \in rolePerms : roles[e[1]] # None /\ perms[e[2]] # None
    /\ \A e \in userRoles : e[1] \in users /\ roles[e[2]] # None

\* A deleted role never comes back, by the row an update read before or
\* otherwise, and no role changes its tenant, its code or its protection.
RolesStayDeleted ==
    [][\A r \in Role :
         /\ roles[r] = None /\ born[r] # 0 => roles'[r] = None
         /\ roles[r] # None /\ roles'[r] # None =>
              roles'[r] = [roles[r] EXCEPT !.active = roles'[r].active]]_vars

\* A role that the audit trail reports as deleted is gone, although the DELETE
\* spares system roles without a word and another request may have been first.
AuditSound == \A r \in audit : roles[r] = None
=============================================================================
