---------------------------- MODULE RolesProofs ----------------------------
(***************************************************************************)
(* Theorems about Roles, for all sets of rows, tenants, codes and handlers *)
(* and every database behaviour.                                           *)
(*                                                                         *)
(* That a registration assigns ROLE_USER depends on what every request in  *)
(* progress still holds of rows that others have changed since.  Fits says *)
(* what that is: in particular no request is about to insert or to write   *)
(* back the code of ROLE_USER.  Tables says what is true between any two   *)
(* statements.  Every step keeps Tables, moves the rows only as Evolves    *)
(* allows, and Fits survives that.                                         *)
(***************************************************************************)
EXTENDS Roles, TLAPS, FiniteSetTheorems, SequenceTheorems

SystemRow == [tenant |-> None, code |-> SystemCode, system |-> TRUE, active |-> TRUE]

\* The locals of request r with roles = rr and born = bb.
Fits(r, rr, bb) ==
    /\ r.pc \in {"code", "insert"} =>
          /\ r.tenant \in Tenant \cup {None, Nobody} /\ r.code \in Code
          /\ r.actor \in User \cup {None, Nobody}
          /\ r.todo \in Seq(Permission)
    /\ r.pc = "insert" => r.code # SystemCode
    /\ r.pc = "give_permissions" =>
          /\ r.role \in Role /\ r.tenant \in Tenant \cup {None}
          /\ r.actor \in User \cup {None, Nobody}
          /\ r.todo \in Seq(Permission)
    /\ r.pc = "read" =>
          /\ r.role \in Role /\ r.op \in {"UpdateRole", "DeleteRole"}
          /\ r.actor \in User \cup {None, Nobody}
          /\ r.active \in BOOLEAN \cup {None}
    /\ r.pc \in {"write", "delete"} =>
          /\ r.role \in Role \ {SystemRole} /\ bb[r.role] # 0
          /\ r.actor \in User \cup {None, Nobody}
          /\ r.row \in RoleRow /\ r.row.code # SystemCode
          /\ rr[r.role] # None => r.row.code = rr[r.role].code
    /\ r.pc = "permission" => r.right \in Right
    /\ r.pc \in {"assign_permission", "remove_permission"} =>
          r.role \in Role /\ r.perm \in Permission
    /\ r.pc \in {"assign_role", "remove_role"} => r.role \in Role /\ r.user \in User
    /\ r.pc = "default" => r.user \in User
    /\ r.pc = "give_default" => r.user \in User /\ r.role = SystemRole
    /\ r.pc = "give_roles" => r.user \in User /\ r.todo \in Seq(Role)
    /\ r.pc = "audit" =>
          /\ r.log \in Entry
          /\ r.log.action = "DeleteRole" =>
                rr[r.log.role] = None /\ bb[r.log.role] # 0

LocalsOK == \A h \in Handler : Fits(req[h], roles, born)

Tables ==
    /\ roles \in [Role -> RoleRow \cup {None}]
    /\ perms \in [Permission -> Right \cup {None}]
    /\ rolePerms \subseteq Role \X Permission
    /\ users \subseteq User
    /\ userRoles \subseteq User \X Role
    /\ born \in [Role -> Nat] /\ seen \in [Role -> Nat]
    /\ roles[SystemRole] = SystemRow
    /\ \A r \in Role \ {SystemRole} :
         roles[r] # None => ~roles[r].system /\ roles[r].code # SystemCode
    /\ \A r \in Role : roles[r] # None => born[r] # 0
    /\ NothingDangles
    /\ audit \subseteq {r \in Role : roles[r] = None /\ born[r] # 0}

Inv == Tables /\ req \in [Handler -> Request] /\ LocalsOK

\* How rows may change under a request: they keep their code and are not
\* inserted twice.
Evolves(rr, bb, ss, cc) ==
    \A r \in Role :
        /\ bb[r] # 0 => cc[r] # 0
        /\ rr[r] = None /\ bb[r] # 0 => ss[r] = None
        /\ rr[r] # None /\ ss[r] # None => ss[r].code = rr[r].code

-----------------------------------------------------------------------------
(* Locals *)

LEMMA InsertedNat == Inserted \in Nat
<1>1. IsFiniteSet({r \in Role : born[r] # 0})
  BY FiniteAssumption, FS_Subset
<1>. QED
  BY <1>1, FS_CardinalityType DEF Inserted

LEMMA FitsStays ==
    ASSUME NEW r, NEW rr, NEW bb, NEW ss, NEW cc,
           Fits(r, rr, bb), Evolves(rr, bb, ss, cc)
    PROVE  Fits(r, ss, cc)
<1>1. r.pc \in {"write", "delete"} =>
        /\ cc[r.role] # 0
        /\ ss[r.role] # None => r.row.code = ss[r.role].code
  BY DEF Fits, Evolves
<1>2. r.pc = "audit" /\ r.log.action = "DeleteRole" =>
        ss[r.log.role] = None /\ cc[r.log.role] # 0
  BY DEF Fits, Evolves, Entry
<1>. QED
  BY <1>1, <1>2 DEF Fits

LEMMA Stepped ==
    ASSUME Inv, NEW h \in Handler, NEW r \in Request, Step(h, r),
           Evolves(roles, born, roles', born'), Fits(r, roles', born'), Tables'
    PROVE  Inv'
<1>1. req' \in [Handler -> Request]
  BY DEF Inv, Step
<1>2. ASSUME NEW g \in Handler PROVE Fits(req'[g], roles', born')
  <2>1. CASE g = h
    BY <2>1 DEF Step, Inv
  <2>2. CASE g # h
    <3>1. req'[g] = req[g]
      BY <2>2 DEF Step, Inv
    <3>. QED
      BY <3>1, FitsStays DEF Inv, LocalsOK
  <2>. QED
    BY <2>1, <2>2
<1>. QED
  BY <1>1, <1>2 DEF Inv, LocalsOK

LEMMA EvolvesRefl == Evolves(roles, born, roles, born)
BY DEF Evolves

\* A step that reads the tables.
LEMMA ReadStep ==
    ASSUME Inv, NEW h \in Handler, NEW r \in Request, Step(h, r),
           UNCHANGED <<tables, history>>, Fits(r, roles, born)
    PROVE  Inv'
<1>1. UNCHANGED <<roles, perms, rolePerms, users, userRoles, audit, born, seen>>
  BY DEF tables, history
<1>2. Tables'
  BY <1>1 DEF Inv, Tables, NothingDangles
<1>3. Evolves(roles, born, roles', born') /\ Fits(r, roles', born')
  BY <1>1, EvolvesRefl
<1>. QED
  BY <1>2, <1>3, Stepped

\* A step that changes neither roles nor what is known of their deletion.
LEMMA SideStep ==
    ASSUME Inv, NEW h \in Handler, NEW r \in Request, Step(h, r),
           UNCHANGED <<roles, audit, born, seen>>, Fits(r, roles, born),
           perms' \in [Permission -> Right \cup {None}],
           rolePerms' \subseteq Role \X Permission,
           users' \subseteq User, userRoles' \subseteq User \X Role,
           NothingDangles'
    PROVE  Inv'
<1>1. Tables'
  BY DEF Inv, Tables
<1>2. Evolves(roles, born, roles', born') /\ Fits(r, roles', born')
  BY EvolvesRefl
<1>. QED
  BY <1>1, <1>2, Stepped

LEMMA BlankFits ==
    ASSUME NEW rr, NEW bb PROVE Blank \in Request /\ Fits(Blank, rr, bb)
BY DEF Blank, Request, Phase, Fits

\* One field at a time.
LEMMA FieldChange ==
    ASSUME NEW r \in Request
    PROVE  /\ \A x \in Phase : [r EXCEPT !.pc = x] \in Request
           /\ \A x \in Operation : [r EXCEPT !.op = x] \in Request
           /\ \A x \in Role : [r EXCEPT !.role = x] \in Request
           /\ \A x \in Permission : [r EXCEPT !.perm = x] \in Request
           /\ \A x \in Right : [r EXCEPT !.right = x] \in Request
           /\ \A x \in User : [r EXCEPT !.user = x] \in Request
           /\ \A x \in Tenant \cup {None, Nobody} : [r EXCEPT !.tenant = x] \in Request
           /\ \A x \in Code : [r EXCEPT !.code = x] \in Request
           /\ \A x \in BOOLEAN \cup {None} : [r EXCEPT !.active = x] \in Request
           /\ \A x \in User \cup {None, Nobody} : [r EXCEPT !.actor = x] \in Request
           /\ \A x \in RoleRow : [r EXCEPT !.row = x] \in Request
           /\ \A x \in Seq(Permission) \cup Seq(Role) : [r EXCEPT !.todo = x] \in Request
           /\ \A x \in Nat : [r EXCEPT !.checked = x] \in Request
           /\ \A x \in Entry : [r EXCEPT !.log = x] \in Request
<1>1. \A x \in Phase : [r EXCEPT !.pc = x] \in Request
  BY DEF Request
<1>2. \A x \in Operation : [r EXCEPT !.op = x] \in Request
  BY DEF Request
<1>3. \A x \in Role : [r EXCEPT !.role = x] \in Request
  BY DEF Request
<1>4. \A x \in Permission : [r EXCEPT !.perm = x] \in Request
  BY DEF Request
<1>5. \A x \in Right : [r EXCEPT !.right = x] \in Request
  BY DEF Request
<1>6. \A x \in User : [r EXCEPT !.user = x] \in Request
  BY DEF Request
<1>7. \A x \in Tenant \cup {None, Nobody} : [r EXCEPT !.tenant = x] \in Request
  BY DEF Request
<1>8. \A x \in Code : [r EXCEPT !.code = x] \in Request
  BY DEF Request
<1>9. \A x \in BOOLEAN \cup {None} : [r EXCEPT !.active = x] \in Request
  BY DEF Request
<1>10. \A x \in User \cup {None, Nobody} : [r EXCEPT !.actor = x] \in Request
  BY DEF Request
<1>11. \A x \in RoleRow : [r EXCEPT !.row = x] \in Request
  BY DEF Request
<1>12. \A x \in Seq(Permission) \cup Seq(Role) : [r EXCEPT !.todo = x] \in Request
  BY DEF Request
<1>13. \A x \in Nat : [r EXCEPT !.checked = x] \in Request
  BY DEF Request
<1>14. \A x \in Entry : [r EXCEPT !.log = x] \in Request
  BY DEF Request
<1>. QED
  BY <1>1, <1>2, <1>3, <1>4, <1>5, <1>6, <1>7,
     <1>8, <1>9, <1>10, <1>11, <1>12, <1>13, <1>14

\* What a request that logs leaves behind.
Logging(action, u, t, r) ==
    [Blank EXCEPT !.pc = "audit",
       !.log = [action |-> action, user |-> u, tenant |-> t, role |-> r]]

LEMMA LoggingFits ==
    ASSUME NEW action \in Operation, NEW u \in User \cup {None, Nobody},
           NEW t \in Tenant \cup {None}, NEW r \in Role, NEW rr, NEW bb,
           action = "DeleteRole" => rr[r] = None /\ bb[r] # 0
    PROVE  /\ Logging(action, u, t, r) \in Request
           /\ Fits(Logging(action, u, t, r), rr, bb)
<1> DEFINE e == [action |-> action, user |-> u, tenant |-> t, role |-> r]
           l == [Blank EXCEPT !.pc = "audit", !.log = e]
<1>1. e \in Entry /\ e.action = action /\ e.role = r
  BY DEF Entry
<1> HIDE DEF e
<1>2. l \in Request
  <2>1. Blank \in Request
    BY BlankFits
  <2>. QED
    BY <1>1, <2>1, FieldChange DEF Phase
<1>3. l.pc = "audit" /\ l.log = e
  BY DEF Blank
<1> HIDE DEF l
<1>4. Fits(l, rr, bb)
  BY <1>1, <1>3 DEF Fits
<1>. QED
  BY <1>2, <1>4 DEF l, e, Logging
-----------------------------------------------------------------------------
(* Arrivals *)

LEMMA Begins ==
    ASSUME Inv, NEW h \in Handler, NEW r \in Request, Begin(h, r),
           Fits(r, roles, born)
    PROVE  Inv'
BY ReadStep DEF Begin

LEMMA ListedSeq ==
    ASSUME NEW ids, NEW l \in Listed(ids) PROVE l \in Seq(ids)
<1>1. PICK n \in 0 .. (IF RoomToAssign THEN MaxListed ELSE 0) : l \in [1 .. n -> ids]
  BY DEF Listed
<1>2. n \in Nat
  BY ModeAssumption
<1>. QED
  BY <1>1, <1>2, SeqDef

LEMMA CreateRoleStep ==
    ASSUME Inv, NEW h \in Handler, NEW t \in Tenant \cup {None, Nobody}, NEW c \in Code,
           NEW by \in Actor, NEW ps \in Listed(Permission),
           CreateRole(h, t, c, by, ps)
    PROVE  Inv'
<1> DEFINE n == [Blank EXCEPT !.op = "CreateRole", !.pc = "code", !.tenant = t,
                              !.code = c, !.actor = by, !.todo = ps]
<1>0. ps \in Seq(Permission) /\ by \in User \cup {None, Nobody}
  BY ListedSeq, ModeAssumption
<1>1. n \in Request
  BY BlankFits, FieldChange, <1>0 DEF Phase, Operation
<1>2. n.pc = "code" /\ n.tenant = t /\ n.code = c /\ n.actor = by /\ n.todo = ps
  BY DEF Blank
<1>3. Begin(h, n)
  BY DEF CreateRole
<1> HIDE DEF n
<1>4. Fits(n, roles, born)
  BY <1>2, <1>0 DEF Fits
<1>. QED
  BY <1>1, <1>3, <1>4, Begins

LEMMA UpdateRoleStep ==
    ASSUME Inv, NEW h \in Handler, NEW r \in Role, NEW a \in StatusGiven \cup {None}, NEW by \in Actor,
           UpdateRole(h, r, a, by)
    PROVE  Inv'
<1> DEFINE n == [Blank EXCEPT !.op = "UpdateRole", !.pc = "read", !.role = r,
                           !.active = a, !.actor = by]
<1>0. a \in BOOLEAN \cup {None} /\ by \in User \cup {None, Nobody}
  BY ModeAssumption
<1>1. n \in Request
  BY BlankFits, FieldChange, <1>0 DEF Phase, Operation
<1>2. /\ n.pc = "read" /\ n.op = "UpdateRole" /\ n.role = r
      /\ n.active = a /\ n.actor = by
  BY DEF Blank
<1>3. Begin(h, n)
  BY DEF UpdateRole
<1> HIDE DEF n
<1>4. Fits(n, roles, born)
  BY <1>2, <1>0 DEF Fits
<1>. QED
  BY <1>1, <1>3, <1>4, Begins

LEMMA DeleteRoleStep ==
    ASSUME Inv, NEW h \in Handler, NEW r \in Role,
           DeleteRole(h, r)
    PROVE  Inv'
<1> DEFINE n == [Blank EXCEPT !.op = "DeleteRole", !.pc = "read", !.role = r]
<1>1. n \in Request
  BY BlankFits, FieldChange DEF Phase, Operation
<1>2. /\ n.pc = "read" /\ n.op = "DeleteRole" /\ n.role = r
      /\ n.active = None /\ n.actor = None
  BY DEF Blank
<1>3. Begin(h, n)
  BY DEF DeleteRole
<1> HIDE DEF n
<1>4. Fits(n, roles, born)
  BY <1>2 DEF Fits
<1>. QED
  BY <1>1, <1>3, <1>4, Begins

LEMMA CreatePermissionStep ==
    ASSUME Inv, NEW h \in Handler, NEW right \in Right,
           CreatePermission(h, right)
    PROVE  Inv'
<1> DEFINE n == [Blank EXCEPT !.op = "CreatePermission", !.pc = "permission",
                              !.right = right]
<1>1. n \in Request
  BY BlankFits, FieldChange DEF Phase, Operation
<1>2. n.pc = "permission" /\ n.right = right
  BY DEF Blank
<1>3. Begin(h, n)
  BY DEF CreatePermission
<1> HIDE DEF n
<1>4. Fits(n, roles, born)
  BY <1>2 DEF Fits
<1>. QED
  BY <1>1, <1>3, <1>4, Begins

LEMMA AssignPermissionStep ==
    ASSUME Inv, NEW h \in Handler, NEW r \in Role, NEW p \in Permission,
           AssignPermission(h, r, p)
    PROVE  Inv'
<1> DEFINE n == [Blank EXCEPT !.op = "AssignPermission", !.role = r, !.perm = p,
                              !.pc = "assign_permission"]
<1>1. n \in Request
  BY BlankFits, FieldChange DEF Phase, Operation
<1>2. n.pc = "assign_permission" /\ n.role = r /\ n.perm = p
  BY DEF Blank
<1>3. Begin(h, n)
  BY DEF AssignPermission
<1> HIDE DEF n
<1>4. Fits(n, roles, born)
  BY <1>2 DEF Fits
<1>. QED
  BY <1>1, <1>3, <1>4, Begins

LEMMA RemovePermissionStep ==
    ASSUME Inv, NEW h \in Handler, NEW r \in Role, NEW p \in Permission,
           RemovePermission(h, r, p)
    PROVE  Inv'
<1> DEFINE n == [Blank EXCEPT !.op = "RemovePermission", !.pc = "remove_permission",
                           !.role = r, !.perm = p]
<1>1. n \in Request
  BY BlankFits, FieldChange DEF Phase, Operation
<1>2. n.pc = "remove_permission" /\ n.role = r /\ n.perm = p
  BY DEF Blank
<1>3. Begin(h, n)
  BY DEF RemovePermission
<1> HIDE DEF n
<1>4. Fits(n, roles, born)
  BY <1>2 DEF Fits
<1>. QED
  BY <1>1, <1>3, <1>4, Begins

LEMMA AssignRoleStep ==
    ASSUME Inv, NEW h \in Handler, NEW u \in User, NEW r \in Role,
           AssignRole(h, u, r)
    PROVE  Inv'
<1> DEFINE n == [Blank EXCEPT !.op = "AssignRole", !.pc = "assign_role",
                              !.user = u, !.role = r]
<1>1. n \in Request
  BY BlankFits, FieldChange DEF Phase, Operation
<1>2. n.pc = "assign_role" /\ n.user = u /\ n.role = r
  BY DEF Blank
<1>3. Begin(h, n)
  BY DEF AssignRole
<1> HIDE DEF n
<1>4. Fits(n, roles, born)
  BY <1>2 DEF Fits
<1>. QED
  BY <1>1, <1>3, <1>4, Begins

LEMMA RemoveRoleStep ==
    ASSUME Inv, NEW h \in Handler, NEW u \in User, NEW r \in Role,
           RemoveRole(h, u, r)
    PROVE  Inv'
<1> DEFINE n == [Blank EXCEPT !.op = "RemoveRole", !.pc = "remove_role",
                              !.user = u, !.role = r]
<1>1. n \in Request
  BY BlankFits, FieldChange DEF Phase, Operation
<1>2. n.pc = "remove_role" /\ n.user = u /\ n.role = r
  BY DEF Blank
<1>3. Begin(h, n)
  BY DEF RemoveRole
<1> HIDE DEF n
<1>4. Fits(n, roles, born)
  BY <1>2 DEF Fits
<1>. QED
  BY <1>1, <1>3, <1>4, Begins

LEMMA NewUsers ==
    ASSUME Inv, NEW h \in Handler, NEW r \in Request, NewUser(h, r),
           r.user \in User, Fits(r, roles, born)
    PROVE  Inv'
<1>1. NothingDangles'
  BY DEF Inv, Tables, NothingDangles, NewUser
<1>. QED
  BY <1>1, SideStep DEF Inv, Tables, NewUser, history

LEMMA RegisterStep ==
    ASSUME Inv, NEW h \in Handler, NEW u \in User, NEW t \in Tenant,
           Register(h, u, t)
    PROVE  Inv'
<1> DEFINE n == [Blank EXCEPT !.op = "Register", !.pc = "default", !.user = u,
                              !.tenant = t]
<1>1. n \in Request
  BY BlankFits, FieldChange DEF Phase, Operation
<1>2. n.pc = "default" /\ n.user = u
  BY DEF Blank
<1>3. NewUser(h, n)
  BY DEF Register
<1> HIDE DEF n
<1>4. Fits(n, roles, born)
  BY <1>2 DEF Fits
<1>. QED
  BY <1>1, <1>2, <1>3, <1>4, NewUsers

LEMMA CreateUserStep ==
    ASSUME Inv, NEW h \in Handler, NEW u \in User, NEW rs \in Listed(Role),
           CreateUser(h, u, rs)
    PROVE  Inv'
<1> DEFINE n == [Blank EXCEPT !.op = "CreateUser", !.pc = "give_roles", !.user = u,
                              !.todo = rs]
<1>0. rs \in Seq(Role)
  BY ListedSeq
<1>1. n \in Request
  BY BlankFits, FieldChange, <1>0 DEF Phase, Operation
<1>2. n.pc = "give_roles" /\ n.user = u /\ n.todo = rs
  BY DEF Blank
<1>3. NewUser(h, n)
  BY DEF CreateUser
<1> HIDE DEF n
<1>4. Fits(n, roles, born)
  BY <1>0, <1>2 DEF Fits
<1>. QED
  BY <1>1, <1>2, <1>3, <1>4, NewUsers

-----------------------------------------------------------------------------
(* Statements *)

LEMMA Refused ==
    ASSUME Inv, NEW h \in Handler, NEW reply, Answer(h, reply),
           UNCHANGED <<tables, history>>
    PROVE  Inv'
BY BlankFits, ReadStep DEF Answer

\* What the locals of the request are.
LEMMA Locals ==
    ASSUME Inv, NEW h \in Handler
    PROVE  req[h] \in Request /\ Fits(req[h], roles, born)
BY DEF Inv, LocalsOK

LEMMA Seeded ==
    ASSUME Inv
    PROVE  SystemRow \in RoleRow /\ SystemRow # None /\ roles[SystemRole] = SystemRow
<1>1. SystemRow \in RoleRow
  BY ModeAssumption DEF SystemRow, RoleRow
<1>. QED
  BY <1>1, NoneAssumption DEF Inv, Tables

LEMMA OutcomeCases ==
    ASSUME NEW o \in DbOutcome
    PROVE  ~Fails(o) => Applied(o)
BY ModeAssumption DEF Fails, Applied

LEMMA Assigns ==
    ASSUME Inv
    PROVE  /\ \A r \in Role, p \in Permission :
                /\ WithPermission(r, p) \subseteq Role \X Permission
                /\ \A e \in WithPermission(r, p) :
                     roles[e[1]] # None /\ perms[e[2]] # None
           /\ \A u \in User, r \in Role :
                /\ WithRole(u, r) \subseteq User \X Role
                /\ \A e \in WithRole(u, r) : e[1] \in users /\ roles[e[2]] # None
<1>1. ASSUME NEW r \in Role, NEW p \in Permission
      PROVE  /\ WithPermission(r, p) \subseteq Role \X Permission
             /\ \A e \in WithPermission(r, p) :
                  roles[e[1]] # None /\ perms[e[2]] # None
  BY DEF Inv, Tables, NothingDangles, WithPermission, PermissionKeys
<1>2. ASSUME NEW u \in User, NEW r \in Role
      PROVE  /\ WithRole(u, r) \subseteq User \X Role
             /\ \A e \in WithRole(u, r) : e[1] \in users /\ roles[e[2]] # None
  BY DEF Inv, Tables, NothingDangles, WithRole, RoleKeys
<1>. QED
  BY <1>1, <1>2

\* A step that writes role_permissions and nothing else.
LEMMA PermissionStep ==
    ASSUME Inv, NEW h \in Handler, NEW r \in Request, Step(h, r),
           UNCHANGED <<roles, perms, users, userRoles, audit, history>>,
           Fits(r, roles, born),
           rolePerms' \subseteq Role \X Permission,
           \A e \in rolePerms' : roles[e[1]] # None /\ perms[e[2]] # None
    PROVE  Inv'
<1>1. NothingDangles'
  BY DEF Inv, Tables, NothingDangles
<1>. QED
  BY <1>1, SideStep DEF Inv, Tables, history

\* A step that writes user_roles and nothing else.
LEMMA AssignmentStep ==
    ASSUME Inv, NEW h \in Handler, NEW r \in Request, Step(h, r),
           UNCHANGED <<roles, perms, rolePerms, users, audit, history>>,
           Fits(r, roles, born),
           userRoles' \subseteq User \X Role,
           \A e \in userRoles' : e[1] \in users /\ roles[e[2]] # None
    PROVE  Inv'
<1>1. NothingDangles'
  BY DEF Inv, Tables, NothingDangles
<1>. QED
  BY <1>1, SideStep DEF Inv, Tables, history

LEMMA CheckCodeStep ==
    ASSUME Inv, NEW h \in Handler, CheckCode(h) PROVE Inv'
<1> DEFINE n == [req[h] EXCEPT !.pc = "insert", !.checked = Inserted]
<1>1. UNCHANGED <<tables, history>>
  BY DEF CheckCode
<1>2. \/ \E reply : Answer(h, reply)
      \/ Matches(req[h].code, req[h].tenant) = {} /\ Step(h, n)
  BY DEF CheckCode
<1>3. CASE \E reply : Answer(h, reply)
  BY <1>1, <1>3, Refused
<1>4. CASE Matches(req[h].code, req[h].tenant) = {} /\ Step(h, n)
  <2>1. At(h, "code") /\ req[h].pc = "code"
    BY DEF CheckCode, At
  <2>2. req[h].code # SystemCode
    <3>1. roles[SystemRole] = SystemRow /\ roles[SystemRole] # None
      BY Seeded
    <3>2. roles[SystemRole].code = SystemCode /\ roles[SystemRole].tenant = None
      BY <3>1 DEF SystemRow
    <3>. QED
      BY <1>4, <3>1, <3>2, ModeAssumption DEF Matches
  <2>3. n \in Request
    BY Locals, FieldChange, InsertedNat DEF Phase
  <2>4. /\ n.pc = "insert" /\ n.code = req[h].code /\ n.tenant = req[h].tenant
        /\ n.actor = req[h].actor /\ n.todo = req[h].todo
    BY Locals DEF Request
  <2> HIDE DEF n
  <2>5. Fits(n, roles, born)
    BY <2>1, <2>2, <2>4, Locals DEF Fits
  <2>. QED
    BY <1>1, <1>4, <2>3, <2>5, ReadStep
<1>. QED
  BY <1>2, <1>3, <1>4

LEMMA InsertRoleStep ==
    ASSUME Inv, NEW h \in Handler, InsertRole(h) PROVE Inv'
<1> DEFINE r == req[h]
           row == [tenant |-> r.tenant, code |-> r.code,
                   system |-> FALSE, active |-> TRUE]
           accepted == TenantKey(r.tenant) /\ ~RoleConflict(row)
<1>1. PICK id \in FreshRole :
        \/ /\ accepted
           /\ roles' = [roles EXCEPT ![id] = row]
           /\ born' = [born EXCEPT ![id] = Inserted + 1]
           /\ seen' = [seen EXCEPT ![id] = r.checked]
           /\ \/ Answer(h, "Internal")
              \/ Step(h, [r EXCEPT !.pc = "give_permissions", !.role = id,
                                   !.checked = 0])
        \/ UNCHANGED <<roles, history>> /\ Answer(h, "Internal")
  BY Zenon DEF InsertRole
<1>2. /\ UNCHANGED <<perms, rolePerms, users, userRoles, audit>>
      /\ r.pc = "insert"
  BY DEF InsertRole, At
<1>3. /\ r \in Request /\ Fits(r, roles, born)
      /\ r.tenant \in Tenant \cup {None, Nobody} /\ r.code \in Code
      /\ r.code # SystemCode /\ r.checked \in Nat
      /\ r.actor \in User \cup {None, Nobody} /\ r.todo \in Seq(Permission)
  BY <1>2, Locals DEF Fits, Request
<1>4. id \in Role /\ born[id] = 0 /\ roles[id] = None /\ id # SystemRole
  BY Seeded, ModeAssumption DEF FreshRole, Inv, Tables
<1>5. CASE /\ accepted
           /\ roles' = [roles EXCEPT ![id] = row]
           /\ born' = [born EXCEPT ![id] = Inserted + 1]
           /\ seen' = [seen EXCEPT ![id] = r.checked]
           /\ \/ Answer(h, "Internal")
              \/ Step(h, [r EXCEPT !.pc = "give_permissions", !.role = id,
                                   !.checked = 0])
  <2>1. row \in RoleRow /\ ~row.system /\ row.code # SystemCode /\ row # None
    <3>1. r.tenant \in Tenant \cup {None}
      BY <1>3, <1>5 DEF TenantKey
    <3>2. row \in RoleRow
      BY <1>3, <3>1 DEF RoleRow
    <3>. QED
      BY <1>3, <3>2, NoneAssumption
  <2>2. /\ roles' = [roles EXCEPT ![id] = row]
        /\ born' = [born EXCEPT ![id] = Inserted + 1]
        /\ seen' = [seen EXCEPT ![id] = r.checked]
        /\ Inserted + 1 \in Nat /\ Inserted + 1 # 0
    BY <1>5, InsertedNat
  <2> HIDE DEF row
  <2>3. /\ roles' \in [Role -> RoleRow \cup {None}]
        /\ born' \in [Role -> Nat] /\ seen' \in [Role -> Nat]
        /\ roles'[id] = row /\ born'[id] # 0
        /\ \A x \in Role \ {id} : roles'[x] = roles[x] /\ born'[x] = born[x]
    BY <1>3, <1>4, <2>1, <2>2 DEF Inv, Tables
  <2>4. NothingDangles'
    BY <1>2, <1>4, <2>1, <2>3 DEF Inv, Tables, NothingDangles
  <2>5. Evolves(roles, born, roles', born')
    BY <1>4, <2>3 DEF Evolves
  <2>6. Tables'
    BY <1>2, <1>4, <2>1, <2>3, <2>4, ModeAssumption DEF Inv, Tables
  <2>7. CASE Answer(h, "Internal")
    BY <2>5, <2>6, <2>7, BlankFits, Stepped DEF Answer
  <2>8. CASE Step(h, [r EXCEPT !.pc = "give_permissions", !.role = id, !.checked = 0])
    <3> DEFINE n == [r EXCEPT !.pc = "give_permissions", !.role = id, !.checked = 0]
    <3>1. n \in Request
      <4>1. [r EXCEPT !.pc = "give_permissions"] \in Request
        BY <1>3, FieldChange DEF Phase
      <4>2. [r EXCEPT !.pc = "give_permissions", !.role = id] \in Request
        BY <1>4, <4>1, FieldChange
      <4>. QED
        BY <4>2, FieldChange
    <3>2. /\ n.pc = "give_permissions" /\ n.role = id /\ n.tenant = r.tenant
          /\ n.actor = r.actor /\ n.todo = r.todo
      BY <1>3 DEF Request
    <3>3. Step(h, n) /\ n.tenant \in Tenant \cup {None}
      BY <1>3, <1>5, <2>8, <3>2 DEF TenantKey
    <3> HIDE DEF n
    <3>4. Fits(n, roles', born')
      BY <1>3, <1>4, <3>2, <3>3 DEF Fits
    <3>. QED
      BY <2>5, <2>6, <3>1, <3>3, <3>4, Stepped
  <2>. QED
    BY <1>5, <2>7, <2>8
<1>6. CASE UNCHANGED <<roles, history>> /\ Answer(h, "Internal")
  BY <1>2, <1>6, Refused DEF tables
<1>. QED
  BY <1>1, <1>5, <1>6

LEMMA GivePermissionStep ==
    ASSUME Inv, NEW h \in Handler, GivePermission(h) PROVE Inv'
<1> DEFINE r == req[h]
<1>1. /\ UNCHANGED <<roles, perms, users, userRoles, audit, history>>
      /\ r.pc = "give_permissions"
  BY DEF GivePermission, At
<1>2. /\ r \in Request /\ Fits(r, roles, born)
      /\ r.role \in Role /\ r.tenant \in Tenant \cup {None}
      /\ r.actor \in User \cup {None, Nobody} /\ r.todo \in Seq(Permission)
  BY <1>1, Locals DEF Fits
<1>3. CASE r.todo = <<>>
  <2>1. Step(h, Logging("CreateRole", r.actor, r.tenant, r.role)) /\ UNCHANGED rolePerms
    BY <1>3 DEF GivePermission, Log, Logging
  <2>. QED
    BY <1>1, <1>2, <2>1, LoggingFits, PermissionStep
       DEF Inv, Tables, NothingDangles, Operation
<1>4. CASE r.todo # <<>>
  <2> DEFINE n == [r EXCEPT !.todo = Tail(@)]
  <2>1. Head(r.todo) \in Permission /\ Tail(r.todo) \in Seq(Permission)
    BY <1>2, <1>4, HeadTailProperties
  <2>2. /\ rolePerms' \in {rolePerms, WithPermission(r.role, Head(r.todo))}
        /\ Step(h, n)
    BY <1>4 DEF GivePermission
  <2>3. n \in Request
    BY <1>2, <2>1, FieldChange
  <2>4. /\ n.pc = "give_permissions" /\ n.role = r.role /\ n.tenant = r.tenant
        /\ n.actor = r.actor /\ n.todo = Tail(r.todo)
    BY <1>1, <1>2 DEF Request
  <2> HIDE DEF n
  <2>5. Fits(n, roles, born)
    BY <1>2, <2>1, <2>4 DEF Fits
  <2>6. /\ rolePerms' \subseteq Role \X Permission
        /\ \A e \in rolePerms' : roles[e[1]] # None /\ perms[e[2]] # None
    BY <1>2, <2>1, <2>2, Assigns DEF Inv, Tables, NothingDangles
  <2>. QED
    BY <1>1, <2>2, <2>3, <2>5, <2>6, PermissionStep
<1>. QED
  BY <1>3, <1>4

LEMMA ReadRoleStep ==
    ASSUME Inv, NEW h \in Handler, ReadRole(h) PROVE Inv'
<1> DEFINE r == req[h]
           row == roles[r.role]
           next == [Blank EXCEPT !.op = r.op, !.role = r.role, !.actor = r.actor]
           new == IF r.active = None THEN row ELSE [row EXCEPT !.active = r.active]
           write == [next EXCEPT !.pc = "write", !.row = new]
           delete == [next EXCEPT !.pc = "delete", !.row = row]
<1>1. UNCHANGED <<tables, history>> /\ r.pc = "read"
  BY DEF ReadRole, At
<1>2. \/ \E reply : Answer(h, reply)
      \/ row # None /\ ~Protected(row) /\ Step(h, write)
      \/ row # None /\ ~Protected(row) /\ Step(h, delete)
  BY Zenon DEF ReadRole
<1>3. CASE \E reply : Answer(h, reply)
  BY <1>1, <1>3, Refused
<1>4. CASE /\ row # None /\ ~Protected(row)
           /\ Step(h, write) \/ Step(h, delete)
  <2>1. /\ r.role \in Role /\ r.op \in {"UpdateRole", "DeleteRole"}
        /\ r.actor \in User \cup {None, Nobody}
        /\ r.active \in BOOLEAN \cup {None}
    BY <1>1, Locals DEF Fits
  <2>2. row \in RoleRow /\ r.role # SystemRole /\ born[r.role] # 0
    BY <1>4, <2>1, Seeded DEF Inv, Tables, Protected, SystemRow
  <2>3. row.code # SystemCode
    BY <1>4, <2>1, <2>2 DEF Inv, Tables
  <2>4. new \in RoleRow /\ new.code = row.code
    BY <2>1, <2>2 DEF RoleRow
  <2>5. next \in Request
    <3>1. [Blank EXCEPT !.op = r.op] \in Request
      BY <2>1, BlankFits, FieldChange DEF Operation
    <3>2. [Blank EXCEPT !.op = r.op, !.role = r.role] \in Request
      BY <2>1, <3>1, FieldChange
    <3>. QED
      BY <2>1, <3>2, FieldChange
  <2>6. next.role = r.role /\ next.actor = r.actor
    BY DEF Blank
  <2> HIDE DEF next, new
  <2>7. write \in Request /\ delete \in Request
    <3>1. /\ [next EXCEPT !.pc = "write"] \in Request
          /\ [next EXCEPT !.pc = "delete"] \in Request
      BY <2>5, FieldChange DEF Phase
    <3>. QED
      BY <2>2, <2>4, <3>1, FieldChange
  <2>8. /\ write.pc = "write" /\ write.role = r.role /\ write.actor = r.actor
        /\ write.row = new
        /\ delete.pc = "delete" /\ delete.role = r.role /\ delete.actor = r.actor
        /\ delete.row = row
    BY <2>5, <2>6 DEF Request
  <2> HIDE DEF write, delete
  <2>9. Fits(write, roles, born) /\ Fits(delete, roles, born)
    BY <2>1, <2>2, <2>3, <2>4, <2>8 DEF Fits
  <2>. QED
    BY <1>1, <1>4, <2>7, <2>9, ReadStep
<1>. QED
  BY <1>2, <1>3, <1>4

\* A step that logs and leaves the rows as Evolves allows.
LEMMA LogStep ==
    ASSUME Inv, NEW h \in Handler, NEW action \in Operation,
           NEW u \in User \cup {None, Nobody}, NEW t \in Tenant \cup {None},
           NEW r \in Role, Answer(h, "Internal") \/ Log(h, action, u, t, r),
           Tables', Evolves(roles, born, roles', born'),
           action = "DeleteRole" => roles'[r] = None /\ born'[r] # 0
    PROVE  Inv'
<1>1. CASE Answer(h, "Internal")
  BY <1>1, BlankFits, Stepped DEF Answer
<1>2. CASE Log(h, action, u, t, r)
  <2>1. Step(h, Logging(action, u, t, r))
    BY <1>2 DEF Log, Logging
  <2>2. /\ Logging(action, u, t, r) \in Request
        /\ Fits(Logging(action, u, t, r), roles', born')
    BY LoggingFits
  <2>. QED
    BY <2>1, <2>2, Stepped
<1>. QED
  BY <1>1, <1>2

LEMMA UpdateRoleWriteStep ==
    ASSUME Inv, NEW h \in Handler, UpdateRoleWrite(h) PROVE Inv'
<1> DEFINE r == req[h]
<1>1. /\ UNCHANGED <<perms, rolePerms, users, userRoles, audit, history>>
      /\ r.pc = "write"
  BY DEF UpdateRoleWrite, At
<1>2. /\ \/ roles' = roles
         \/ /\ Ours(r.role)
            /\ roles' = [roles EXCEPT ![r.role].active = r.row.active,
                                      ![r.role].code = r.row.code]
      /\ Answer(h, "Internal") \/ Log(h, "UpdateRole", r.actor, r.row.tenant, r.role)
  BY Zenon DEF UpdateRoleWrite
<1>3. /\ r.role \in Role /\ r.role # SystemRole /\ born[r.role] # 0
      /\ r.actor \in User \cup {None, Nobody}
      /\ r.row \in RoleRow /\ r.row.code # SystemCode
      /\ roles[r.role] # None => r.row.code = roles[r.role].code
  BY <1>1, Locals DEF Fits
<1>4. CASE roles' = roles
  <2>1. Tables' /\ Evolves(roles, born, roles', born')
    BY <1>1, <1>4, EvolvesRefl DEF Inv, Tables, NothingDangles, history
  <2>. QED
    BY <1>2, <1>3, <2>1, LogStep DEF RoleRow, Operation
<1>5. CASE /\ Ours(r.role)
           /\ roles' = [roles EXCEPT ![r.role].active = r.row.active,
                                     ![r.role].code = r.row.code]
  <2> DEFINE old == roles[r.role]
             new == [old EXCEPT !.active = r.row.active, !.code = r.row.code]
  <2>1. old \in RoleRow /\ old # None /\ ~old.system
    BY <1>3, <1>5 DEF Inv, Tables, Ours
  <2>2. new \in RoleRow /\ new.code = old.code /\ new.system = old.system
    BY <1>3, <2>1 DEF RoleRow
  <2>3. new # None
    BY <2>2, NoneAssumption
  <2>4. roles' = [roles EXCEPT ![r.role] = new]
    BY <1>3, <1>5 DEF Inv, Tables
  <2> HIDE DEF new
  <2>5. /\ roles' \in [Role -> RoleRow \cup {None}]
        /\ roles'[r.role] = new
        /\ \A x \in Role \ {r.role} : roles'[x] = roles[x]
    BY <1>3, <2>2, <2>4 DEF Inv, Tables
  <2>6. NothingDangles'
    BY <1>1, <1>3, <2>3, <2>5 DEF Inv, Tables, NothingDangles
  <2>7. Evolves(roles, born, roles', born')
    BY <1>1, <1>3, <2>1, <2>2, <2>5 DEF Evolves, history
  <2>8. new.code # SystemCode /\ ~new.system
    BY <1>3, <2>1, <2>2
  <2>9. /\ roles'[SystemRole] = SystemRow
        /\ \A x \in Role \ {SystemRole} :
             roles'[x] # None => ~roles'[x].system /\ roles'[x].code # SystemCode
        /\ \A x \in Role : roles'[x] # None => born[x] # 0
        /\ audit \subseteq {x \in Role : roles'[x] = None /\ born[x] # 0}
    BY <1>3, <2>1, <2>5, <2>8, ModeAssumption DEF Inv, Tables
  <2>10. Tables'
    BY <1>1, <2>5, <2>6, <2>9 DEF Inv, Tables, history
  <2>. QED
    BY <1>2, <1>3, <2>7, <2>10, LogStep DEF RoleRow, Operation
<1>. QED
  BY <1>2, <1>4, <1>5

LEMMA DeleteRoleWriteStep ==
    ASSUME Inv, NEW h \in Handler, DeleteRoleWrite(h) PROVE Inv'
<1> DEFINE r == req[h]
           deleted == /\ roles' = [roles EXCEPT ![r.role] = None]
                      /\ rolePerms' = {e \in rolePerms : e[1] # r.role}
                      /\ userRoles' = {e \in userRoles : e[2] # r.role}
           kept == UNCHANGED <<roles, rolePerms, userRoles>>
           log == Log(h, "DeleteRole", None, r.row.tenant, r.role)
<1>1. UNCHANGED <<perms, users, audit, history>> /\ r.pc = "delete"
  BY DEF DeleteRoleWrite, At
<1>2. /\ (Ours(r.role) /\ deleted) \/ kept
      /\ Answer(h, "Internal") \/ ((Ours(r.role) => deleted) /\ log)
  <2>1. PICK o \in DbOutcome :
          /\ \/ (Applied(o) /\ Ours(r.role)) /\ deleted
             \/ ~(Applied(o) /\ Ours(r.role)) /\ kept
          /\ (Fails(o) /\ Answer(h, "Internal")) \/ (~Fails(o) /\ log)
    BY Zenon DEF DeleteRoleWrite
  <2>2. ~Fails(o) => Applied(o)
    BY ModeAssumption DEF Fails, Applied
  <2> HIDE DEF deleted, kept, log
  <2>. QED
    BY <2>1, <2>2
<1>4. /\ r.role \in Role /\ r.role # SystemRole /\ born[r.role] # 0
      /\ r.row \in RoleRow /\ r.row.tenant \in Tenant \cup {None}
  BY <1>1, Locals DEF Fits, RoleRow
<1>5. Tables' /\ Evolves(roles, born, roles', born')
  <2>1. CASE kept
    BY <1>1, <2>1, EvolvesRefl DEF Inv, Tables, NothingDangles, history
  <2>2. CASE deleted
    <3>1. /\ roles' \in [Role -> RoleRow \cup {None}]
          /\ roles'[r.role] = None
          /\ \A x \in Role \ {r.role} : roles'[x] = roles[x]
      BY <1>4, <2>2 DEF Inv, Tables
    <3>2. NothingDangles'
      <4>1. \A e \in rolePerms' : roles'[e[1]] # None /\ perms'[e[2]] # None
        BY <1>1, <2>2, <3>1 DEF Inv, Tables, NothingDangles
      <4>2. \A e \in userRoles' : e[1] \in users' /\ roles'[e[2]] # None
        BY <1>1, <2>2, <3>1 DEF Inv, Tables, NothingDangles
      <4>. QED
        BY <4>1, <4>2 DEF NothingDangles
    <3>3. Evolves(roles, born, roles', born')
      BY <1>1, <3>1 DEF Evolves, history
    <3>. QED
      BY <1>1, <1>4, <2>2, <3>1, <3>2, <3>3, ModeAssumption
         DEF Inv, Tables, history
  <2>. QED
    BY <1>2, <2>1, <2>2
<1>6. (Ours(r.role) => deleted) => roles'[r.role] = None
  <2>1. CASE Ours(r.role) /\ deleted
    BY <1>4, <2>1 DEF Inv, Tables
  <2>2. CASE ~Ours(r.role)
    <3>1. kept
      BY <1>2, <2>2
    <3>2. roles[r.role] = None
      BY <1>4, <2>2 DEF Ours, Inv, Tables
    <3>. QED
      BY <3>1, <3>2
  <2>. QED
    BY <2>1, <2>2
<1>7. born'[r.role] # 0
  BY <1>1, <1>4 DEF history
<1>8. CASE Answer(h, "Internal")
  BY <1>5, <1>8, BlankFits, Stepped DEF Answer
<1>9. CASE (Ours(r.role) => deleted) /\ log
  <2>1. log /\ roles'[r.role] = None
    BY <1>6, <1>9
  <2>. QED
    BY <1>4, <1>5, <1>7, <2>1, LogStep DEF Operation
<1>. QED
  BY <1>2, <1>8, <1>9

LEMMA InsertPermissionStep ==
    ASSUME Inv, NEW h \in Handler, InsertPermission(h) PROVE Inv'
<1> DEFINE right == req[h].right
<1>1. /\ UNCHANGED <<roles, rolePerms, users, userRoles, audit, history>>
      /\ right \in Right
  BY Locals DEF InsertPermission, At, Fits
<1>2. /\ \/ UNCHANGED perms
         \/ \E p \in FreshPermission : perms' = [perms EXCEPT ![p] = right]
      /\ Step(h, Blank)
  BY Zenon DEF InsertPermission, Answer
<1>3. perms' \in [Permission -> Right \cup {None}]
  BY <1>1, <1>2 DEF Inv, Tables
<1>4. \A p \in Permission : perms[p] # None => perms'[p] # None
  BY <1>2 DEF Inv, Tables, FreshPermission
<1>5. NothingDangles'
  BY <1>1, <1>4 DEF Inv, Tables, NothingDangles
<1>. QED
  BY <1>1, <1>2, <1>3, <1>5, BlankFits, SideStep DEF Inv, Tables, history

\* A step that writes role_permissions and answers or logs.
LEMMA PermissionWrite ==
    ASSUME Inv, NEW h \in Handler, NEW action \in Operation \ {"DeleteRole"},
           NEW r \in Role,
           Answer(h, "Internal") \/ Log(h, action, None, None, r),
           UNCHANGED <<roles, perms, users, userRoles, audit, history>>,
           rolePerms' \subseteq Role \X Permission,
           \A e \in rolePerms' : roles[e[1]] # None /\ perms[e[2]] # None
    PROVE  Inv'
<1>1. CASE Answer(h, "Internal")
  BY <1>1, BlankFits, PermissionStep DEF Answer
<1>2. CASE Log(h, action, None, None, r)
  <2>1. Step(h, Logging(action, None, None, r))
    BY <1>2 DEF Log, Logging
  <2>. QED
    BY <2>1, LoggingFits, PermissionStep
<1>. QED
  BY <1>1, <1>2

LEMMA InsertRolePermissionStep ==
    ASSUME Inv, NEW h \in Handler, InsertRolePermission(h) PROVE Inv'
<1> DEFINE r == req[h]
<1>1. /\ UNCHANGED <<roles, perms, users, userRoles, audit, history>>
      /\ r.role \in Role /\ r.perm \in Permission
  BY Locals DEF InsertRolePermission, At, Fits
<1>2. /\ rolePerms' \in {rolePerms, WithPermission(r.role, r.perm)}
      /\ Answer(h, "Internal") \/ Log(h, "AssignPermission", None, None, r.role)
  BY Zenon DEF InsertRolePermission
<1>3. /\ rolePerms' \subseteq Role \X Permission
      /\ \A e \in rolePerms' : roles[e[1]] # None /\ perms[e[2]] # None
  BY <1>1, <1>2, Assigns DEF Inv, Tables, NothingDangles
<1>. QED
  BY <1>1, <1>2, <1>3, PermissionWrite DEF Operation

LEMMA DeleteRolePermissionStep ==
    ASSUME Inv, NEW h \in Handler, DeleteRolePermission(h) PROVE Inv'
<1> DEFINE r == req[h]
<1>1. /\ UNCHANGED <<roles, perms, users, userRoles, audit, history>>
      /\ r.role \in Role
  BY Locals DEF DeleteRolePermission, At, Fits
<1>2. /\ rolePerms' \in {rolePerms, rolePerms \ {<<r.role, r.perm>>}}
      /\ Answer(h, "Internal") \/ Log(h, "RemovePermission", None, None, r.role)
  BY Zenon DEF DeleteRolePermission
<1>3. rolePerms' \subseteq rolePerms
  BY <1>2
<1>4. /\ rolePerms' \subseteq Role \X Permission
      /\ \A e \in rolePerms' : roles[e[1]] # None /\ perms[e[2]] # None
  BY <1>3 DEF Inv, Tables, NothingDangles
<1>. QED
  BY <1>1, <1>2, <1>4, PermissionWrite DEF Operation

\* A step that writes user_roles and answers or logs.
LEMMA AssignmentWrite ==
    ASSUME Inv, NEW h \in Handler, NEW action \in Operation \ {"DeleteRole"},
           NEW u \in User, NEW r \in Role,
           Answer(h, "Internal") \/ Log(h, action, u, None, r),
           UNCHANGED <<roles, perms, rolePerms, users, audit, history>>,
           userRoles' \subseteq User \X Role,
           \A e \in userRoles' : e[1] \in users /\ roles[e[2]] # None
    PROVE  Inv'
<1>1. CASE Answer(h, "Internal")
  BY <1>1, BlankFits, AssignmentStep DEF Answer
<1>2. CASE Log(h, action, u, None, r)
  <2>1. Step(h, Logging(action, u, None, r))
    BY <1>2 DEF Log, Logging
  <2>. QED
    BY <2>1, LoggingFits, AssignmentStep
<1>. QED
  BY <1>1, <1>2

LEMMA InsertUserRoleStep ==
    ASSUME Inv, NEW h \in Handler, InsertUserRole(h) PROVE Inv'
<1> DEFINE r == req[h]
<1>1. /\ UNCHANGED <<roles, perms, rolePerms, users, audit, history>>
      /\ r.role \in Role /\ r.user \in User
  BY Locals DEF InsertUserRole, At, Fits
<1>2. /\ userRoles' \in {userRoles, WithRole(r.user, r.role)}
      /\ Answer(h, "Internal") \/ Log(h, "AssignRole", r.user, None, r.role)
  BY Zenon DEF InsertUserRole
<1>3. /\ userRoles' \subseteq User \X Role
      /\ \A e \in userRoles' : e[1] \in users /\ roles[e[2]] # None
  BY <1>1, <1>2, Assigns DEF Inv, Tables, NothingDangles
<1>. QED
  BY <1>1, <1>2, <1>3, AssignmentWrite DEF Operation

LEMMA DeleteUserRoleStep ==
    ASSUME Inv, NEW h \in Handler, DeleteUserRole(h) PROVE Inv'
<1> DEFINE r == req[h]
<1>1. /\ UNCHANGED <<roles, perms, rolePerms, users, audit, history>>
      /\ r.role \in Role /\ r.user \in User
  BY Locals DEF DeleteUserRole, At, Fits
<1>2. /\ userRoles' \in {userRoles, userRoles \ {<<r.user, r.role>>}}
      /\ Answer(h, "Internal") \/ Log(h, "RemoveRole", r.user, None, r.role)
  BY Zenon DEF DeleteUserRole
<1>3. userRoles' \subseteq userRoles
  BY <1>2
<1>4. /\ userRoles' \subseteq User \X Role
      /\ \A e \in userRoles' : e[1] \in users /\ roles[e[2]] # None
  BY <1>3 DEF Inv, Tables, NothingDangles
<1>. QED
  BY <1>1, <1>2, <1>4, AssignmentWrite DEF Operation

\* Only ROLE_USER has its code.
LEMMA FindDefaultRoleStep ==
    ASSUME Inv, NEW h \in Handler, FindDefaultRole(h) PROVE Inv'
<1> DEFINE n(r) == [req[h] EXCEPT !.pc = "give_default", !.role = r]
<1>1. UNCHANGED <<tables, history>> /\ req[h].pc = "default"
  BY Zenon DEF FindDefaultRole, At
<1>2. \/ \E reply : Answer(h, reply)
      \/ \E r \in Matches(SystemCode, req[h].tenant) : Step(h, n(r))
  BY Zenon DEF FindDefaultRole
<1>3. CASE \E reply : Answer(h, reply)
  BY <1>1, <1>3, Refused
<1>4. CASE \E r \in Matches(SystemCode, req[h].tenant) : Step(h, n(r))
  <2>1. PICK r \in Matches(SystemCode, req[h].tenant) : Step(h, n(r))
    BY Zenon, <1>4
  <2>2. r = SystemRole /\ r \in Role
    BY ModeAssumption DEF Inv, Tables, Matches
  <2>3. n(r) \in Request
    BY <2>2, Locals, FieldChange DEF Phase
  <2>4. n(r).pc = "give_default" /\ n(r).role = r /\ n(r).user = req[h].user
    BY Locals DEF Request
  <2> HIDE DEF n
  <2>5. Fits(n(r), roles, born)
    BY <1>1, <2>2, <2>4, Locals DEF Fits
  <2>. QED
    BY <1>1, <2>1, <2>3, <2>5, ReadStep
<1>. QED
  BY Zenon, <1>2, <1>3, <1>4

LEMMA GiveDefaultRoleStep ==
    ASSUME Inv, NEW h \in Handler, GiveDefaultRole(h) PROVE Inv'
<1> DEFINE r == req[h]
<1>1. /\ UNCHANGED <<roles, perms, rolePerms, users, audit, history>>
      /\ r.role \in Role /\ r.user \in User /\ Step(h, Blank)
  BY Locals, ModeAssumption DEF GiveDefaultRole, At, Fits, Answer
<1>2. userRoles' \in {userRoles, WithRole(r.user, r.role)}
  BY Zenon DEF GiveDefaultRole
<1>3. /\ userRoles' \subseteq User \X Role
      /\ \A e \in userRoles' : e[1] \in users /\ roles[e[2]] # None
  BY <1>1, <1>2, Assigns DEF Inv, Tables, NothingDangles
<1>. QED
  BY <1>1, <1>3, BlankFits, AssignmentStep

LEMMA GiveRoleStep ==
    ASSUME Inv, NEW h \in Handler, GiveRole(h) PROVE Inv'
<1> DEFINE r == req[h]
<1>1. /\ UNCHANGED <<roles, perms, rolePerms, users, audit, history>>
      /\ r.pc = "give_roles"
  BY DEF GiveRole, At
<1>2. /\ r \in Request /\ r.user \in User /\ r.todo \in Seq(Role)
  BY <1>1, Locals DEF Fits
<1>3. CASE r.todo = <<>>
  <2>1. Answer(h, "ok") /\ UNCHANGED userRoles
    BY <1>3 DEF GiveRole
  <2>. QED
    BY <1>1, <2>1, Refused DEF tables
<1>4. CASE r.todo # <<>>
  <2> DEFINE n == [r EXCEPT !.todo = Tail(@)]
  <2>1. Head(r.todo) \in Role /\ Tail(r.todo) \in Seq(Role)
    BY <1>2, <1>4, HeadTailProperties
  <2>2. userRoles' \in {userRoles, WithRole(r.user, Head(r.todo))} /\ Step(h, n)
    BY <1>4 DEF GiveRole
  <2>3. n \in Request
    BY <1>2, <2>1, FieldChange
  <2>4. n.pc = "give_roles" /\ n.user = r.user /\ n.todo = Tail(r.todo)
    BY <1>1, <1>2 DEF Request
  <2> HIDE DEF n
  <2>5. Fits(n, roles, born)
    BY <1>2, <2>1, <2>4 DEF Fits
  <2>6. /\ userRoles' \subseteq User \X Role
        /\ \A e \in userRoles' : e[1] \in users /\ roles[e[2]] # None
    BY <1>2, <2>1, <2>2, Assigns DEF Inv, Tables, NothingDangles
  <2>. QED
    BY <1>1, <2>2, <2>3, <2>5, <2>6, AssignmentStep
<1>. QED
  BY <1>3, <1>4

LEMMA AuditStep ==
    ASSUME Inv, NEW h \in Handler, Audit(h) PROVE Inv'
<1> DEFINE e == req[h].log
<1>1. /\ UNCHANGED <<roles, perms, rolePerms, users, userRoles, history>>
      /\ req[h].pc = "audit" /\ Step(h, Blank)
  BY DEF Audit, At, Answer
<1>2. audit' = audit \/ (e.action = "DeleteRole" /\ audit' = audit \cup {e.role})
  BY Zenon DEF Audit
<1>3. /\ e.role \in Role
      /\ e.action = "DeleteRole" => roles[e.role] = None /\ born[e.role] # 0
  BY <1>1, Locals DEF Fits, Entry
<1>4. audit' \subseteq {r \in Role : roles[r] = None /\ born[r] # 0}
  BY <1>2, <1>3 DEF Inv, Tables
<1>5. Tables'
  BY <1>1, <1>4 DEF Inv, Tables, NothingDangles, history
<1>6. Evolves(roles, born, roles', born')
  BY <1>1, EvolvesRefl DEF history
<1>. QED
  BY <1>1, <1>5, <1>6, BlankFits, Stepped

LEMMA CrashStep == ASSUME Inv, Crash PROVE Inv'
<1>1. Tables'
  BY DEF Inv, Tables, NothingDangles, Crash, tables, history
<1>2. req' \in [Handler -> Request] /\ LocalsOK'
  BY BlankFits DEF Crash, LocalsOK
<1>. QED
  BY <1>1, <1>2 DEF Inv

-----------------------------------------------------------------------------
(* Every step *)

LEMMA InitInv == Init => Inv
<1> SUFFICES ASSUME Init PROVE Inv
  OBVIOUS
<1>1. /\ roles \in [Role -> RoleRow \cup {None}]
      /\ roles[SystemRole] = SystemRow
      /\ \A r \in Role \ {SystemRole} : roles[r] = None
      /\ born[SystemRole] # 0
  BY ModeAssumption DEF Init, RoleRow, SystemRow
<1>2. Tables
  BY <1>1 DEF Init, Tables, NothingDangles
<1>3. req \in [Handler -> Request] /\ LocalsOK
  BY BlankFits DEF Init, LocalsOK
<1>. QED
  BY <1>2, <1>3 DEF Inv

LEMMA ArriveStep == ASSUME Inv, NEW h \in Handler, Arrive(h) PROVE Inv'
<1>1. CASE \E t \in Tenant \cup {None, Nobody}, c \in Code, by \in Actor,
              ps \in Listed(Permission) : CreateRole(h, t, c, by, ps)
  BY <1>1, CreateRoleStep
<1>2. CASE \E r \in Role : DeleteRole(h, r)
  BY <1>2, DeleteRoleStep
<1>3. CASE \E r \in Role, a \in StatusGiven \cup {None}, by \in Actor :
             UpdateRole(h, r, a, by)
  BY <1>3, UpdateRoleStep
<1>4. CASE \E right \in Right : CreatePermission(h, right)
  BY <1>4, CreatePermissionStep
<1>5. CASE \E r \in Role, p \in Permission :
             AssignPermission(h, r, p) \/ RemovePermission(h, r, p)
  BY <1>5, AssignPermissionStep, RemovePermissionStep
<1>6. CASE \E u \in User, r \in Role : AssignRole(h, u, r) \/ RemoveRole(h, u, r)
  BY <1>6, AssignRoleStep, RemoveRoleStep
<1>7. CASE \E u \in User, t \in Tenant : Register(h, u, t)
  BY <1>7, RegisterStep
<1>8. CASE \E u \in User, rs \in Listed(Role) : CreateUser(h, u, rs)
  BY <1>8, CreateUserStep
<1>. QED
  BY Zenon, <1>1, <1>2, <1>3, <1>4, <1>5, <1>6, <1>7, <1>8 DEF Arrive

LEMMA AdvanceStep == ASSUME Inv, NEW h \in Handler, Advance(h) PROVE Inv'
BY CheckCodeStep, InsertRoleStep, GivePermissionStep, ReadRoleStep,
   UpdateRoleWriteStep, DeleteRoleWriteStep, InsertPermissionStep,
   InsertRolePermissionStep, DeleteRolePermissionStep, InsertUserRoleStep,
   DeleteUserRoleStep, FindDefaultRoleStep, GiveDefaultRoleStep, GiveRoleStep,
   AuditStep DEF Advance

LEMMA StutterStep == ASSUME Inv, UNCHANGED vars PROVE Inv'
BY DEF Inv, Tables, NothingDangles, LocalsOK, vars, tables, history

\* What is true between any two statements of the handlers, whatever they are.
THEOREM Invariance == Spec => []Inv
<1>1. Inv /\ [Next]_vars => Inv'
  BY ArriveStep, AdvanceStep, CrashStep, StutterStep DEF Next
<1>. QED
  BY InitInv, <1>1, PTL DEF Spec

\* Every request and row has the fields that the code reads of it.
THEOREM TypeCorrect == Spec => []TypeOK
<1>1. Inv => TypeOK
  BY DEF Inv, Tables, TypeOK
<1>. QED
  BY Invariance, <1>1, PTL

\* Register assigns ROLE_USER as it was seeded and never a role that a tenant
\* made, however CreateRole, UpdateRole and DeleteRole interleave with it.
THEOREM DefaultRoleSafe == Spec => []RegistersAsUser
<1>1. Inv => RegistersAsUser
  BY DEF Inv, Tables, SystemRow, RegistersAsUser, LocalsOK, Fits, At
<1>. QED
  BY Invariance, <1>1, PTL

\* No row of role_permissions or user_roles is left behind by DeleteRole, nor
\* made later by AssignPermission, AssignRole, CreateRole or CreateUser.
THEOREM NoDanglingAssignment == Spec => []NothingDangles
<1>1. Inv => NothingDangles
  BY DEF Inv, Tables
<1>. QED
  BY Invariance, <1>1, PTL

\* DeleteRole logs a deletion only of a role that is gone for good.
THEOREM AuditTrailSound == Spec => []AuditSound
<1>1. Inv => AuditSound
  BY DEF Inv, Tables, AuditSound
<1>. QED
  BY Invariance, <1>1, PTL

LEMMA SameCode ==
    ASSUME NEW x \in RoleRow, NEW a \in BOOLEAN
    PROVE  [x EXCEPT !.active = a, !.code = x.code] = [x EXCEPT !.active = a]
BY DEF RoleRow

\* What becomes of rows in any step.
LEMMA RowsKept ==
    ASSUME Inv, [Next]_vars
    PROVE  \A r \in Role :
             /\ roles[r] = None /\ born[r] # 0 => roles'[r] = None
             /\ roles[r] # None /\ roles'[r] # None =>
                  roles'[r] = [roles[r] EXCEPT !.active = roles'[r].active]
<1> DEFINE kept(r) ==
      /\ roles[r] = None /\ born[r] # 0 => roles'[r] = None
      /\ roles[r] # None /\ roles'[r] # None =>
           roles'[r] = [roles[r] EXCEPT !.active = roles'[r].active]
<1>1. ASSUME Inv, UNCHANGED roles PROVE \A r \in Role : kept(r)
  <2>1. \A r \in Role : roles[r] \in RoleRow \cup {None}
    BY <1>1 DEF Inv, Tables
  <2>. QED
    BY <1>1, <2>1 DEF RoleRow
<1>2. ASSUME Inv, NEW h \in Handler, InsertRole(h) PROVE \A r \in Role : kept(r)
  <2>1. \/ \E id \in FreshRole : \E row : roles' = [roles EXCEPT ![id] = row]
        \/ UNCHANGED roles
    BY <1>2, Zenon DEF InsertRole
  <2>2. CASE \E id \in FreshRole : \E row : roles' = [roles EXCEPT ![id] = row]
    <3>1. PICK id \in FreshRole : \E row : roles' = [roles EXCEPT ![id] = row]
      BY <2>2
    <3>2. born[id] = 0 /\ roles[id] = None
      BY <1>2 DEF Inv, Tables, FreshRole
    <3>3. \A r \in Role \ {id} : roles'[r] = roles[r] /\ roles[r] \in RoleRow \cup {None}
      BY <1>2, <3>1 DEF Inv, Tables
    <3>. QED
      BY <3>2, <3>3 DEF RoleRow
  <2>. QED
    BY <1>1, <1>2, <2>1, <2>2
<1>3. ASSUME Inv, NEW h \in Handler, UpdateRoleWrite(h) PROVE \A r \in Role : kept(r)
  <2> DEFINE q == req[h]
  <2>1. \/ UNCHANGED roles
        \/ /\ Ours(q.role)
           /\ roles' = [roles EXCEPT ![q.role].active = q.row.active,
                                     ![q.role].code = q.row.code]
    BY <1>3, Zenon DEF UpdateRoleWrite
  <2>2. /\ q.role \in Role /\ q.row \in RoleRow
        /\ roles[q.role] # None => q.row.code = roles[q.role].code
    BY <1>3, Locals DEF UpdateRoleWrite, At, Fits
  <2>3. CASE /\ Ours(q.role)
             /\ roles' = [roles EXCEPT ![q.role].active = q.row.active,
                                       ![q.role].code = q.row.code]
    <3>1. roles[q.role] \in RoleRow
      BY <1>3, <2>2, <2>3 DEF Inv, Tables, Ours
    <3>2. roles'[q.role] = [roles[q.role] EXCEPT !.active = q.row.active,
                                                 !.code = q.row.code]
      BY <1>3, <2>2, <2>3 DEF Inv, Tables
    <3>3. roles'[q.role] = [roles[q.role] EXCEPT !.active = q.row.active]
      <4>1. q.row.code = roles[q.role].code /\ q.row.active \in BOOLEAN
        BY <2>2, <2>3 DEF Ours, RoleRow
      <4>. QED
        BY Zenon, <3>1, <3>2, <4>1, SameCode
    <3>4. \A r \in Role \ {q.role} :
            roles'[r] = roles[r] /\ roles[r] \in RoleRow \cup {None}
      BY <1>3, <2>2, <2>3 DEF Inv, Tables
    <3>5. kept(q.role)
      BY <2>3, <3>1, <3>3 DEF RoleRow, Ours
    <3>6. \A r \in Role \ {q.role} : kept(r)
      BY <3>4 DEF RoleRow
    <3>. QED
      BY <3>5, <3>6
  <2>. QED
    BY <1>1, <1>3, <2>1, <2>3
<1>4. ASSUME Inv, NEW h \in Handler, DeleteRoleWrite(h) PROVE \A r \in Role : kept(r)
  <2> DEFINE q == req[h]
  <2>1. UNCHANGED roles \/ roles' = [roles EXCEPT ![q.role] = None]
    BY <1>4, Zenon DEF DeleteRoleWrite
  <2>2. CASE roles' = [roles EXCEPT ![q.role] = None]
    <3>1. /\ roles'[q.role] = None \/ q.role \notin Role
          /\ \A r \in Role \ {q.role} :
               roles'[r] = roles[r] /\ roles[r] \in RoleRow \cup {None}
      BY <1>4, <2>2 DEF Inv, Tables
    <3>. QED
      BY <3>1 DEF RoleRow
  <2>. QED
    BY <1>1, <1>4, <2>1, <2>2
<1>5. ASSUME Inv, NEW h \in Handler, Arrive(h) \/ Advance(h)
      PROVE  \A r \in Role : kept(r)
  <2>1. Arrive(h) => UNCHANGED roles
    BY Zenon DEF Arrive, CreateRole, UpdateRole, DeleteRole, CreatePermission,
       AssignPermission, RemovePermission, AssignRole, RemoveRole, Register,
       CreateUser, Begin, NewUser, tables
  <2>2. Advance(h) =>
          UNCHANGED roles \/ InsertRole(h) \/ UpdateRoleWrite(h) \/ DeleteRoleWrite(h)
    BY Zenon DEF Advance, CheckCode, GivePermission, ReadRole, InsertPermission,
       InsertRolePermission, DeleteRolePermission, InsertUserRole,
       DeleteUserRole, FindDefaultRole, GiveDefaultRole, GiveRole, Audit, tables
  <2> HIDE DEF kept
  <2>. QED
    BY <1>1, <1>2, <1>3, <1>4, <1>5, <2>1, <2>2
<1>6. Crash \/ UNCHANGED vars => UNCHANGED roles
  BY DEF Crash, vars, tables
<1>7. \A r \in Role : kept(r)
  <2> HIDE DEF kept
  <2>. QED
    BY <1>1, <1>5, <1>6 DEF Next
<1>. QED
  BY <1>7

\* UpdateRole, which writes back what it read, neither brings back a role that
\* DeleteRole has removed meanwhile nor changes whose it is.
THEOREM DeletedForGood == Spec => RolesStayDeleted
<1>1. Inv /\ [Next]_vars =>
        [\A r \in Role :
           /\ roles[r] = None /\ born[r] # 0 => roles'[r] = None
           /\ roles[r] # None /\ roles'[r] # None =>
                roles'[r] = [roles[r] EXCEPT !.active = roles'[r].active]]_vars
  BY RowsKept
<1>. QED
  BY Invariance, <1>1, PTL DEF Spec, RolesStayDeleted
-----------------------------------------------------------------------------
(* Codes that two roles share *)

\* What the lookup of a creation has told it.
Looked(q) ==
    q.pc = "insert" =>
        \A r \in Role : /\ roles[r] # None /\ roles[r].code = q.code
                        /\ roles[r].tenant \in {q.tenant, None}
                        => q.checked < born[r]

Numbered ==
    /\ \A r \in Role : born[r] \leq Inserted
    /\ \A h \in Handler : Looked(req[h]) /\ (At(h, "insert") => req[h].checked \leq Inserted)

\* No role is inserted; only a lookup that finds nothing lets a creation on.
Idles(h) == \E r : Step(h, r) /\ r.pc # "insert"

LEMMA AnswerIdles ==
    ASSUME NEW h \in Handler, (\E a : Answer(h, a)) \/ (\E a, u, t, r : Log(h, a, u, t, r))
    PROVE  Idles(h)
<1>1. Blank.pc # "insert"
  BY DEF Blank
<1>2. \A e : [Blank EXCEPT !.pc = "audit", !.log = e].pc # "insert"
  BY DEF Blank
<1>. QED
  BY <1>1, <1>2 DEF Answer, Log, Idles

LEMMA ArriveIdles ==
    ASSUME NEW h \in Handler, Arrive(h)
    PROVE  Idles(h) /\ UNCHANGED history
<1>1. UNCHANGED history
  BY Zenon DEF Arrive, CreateRole, UpdateRole, DeleteRole, CreatePermission,
     AssignPermission, RemovePermission, AssignRole, RemoveRole, Register,
     CreateUser, Begin, NewUser
<1>2. ASSUME NEW r, Begin(h, r) \/ NewUser(h, r), r.pc # "insert" PROVE Idles(h)
  BY <1>2 DEF Begin, NewUser, Idles
<1>3. ASSUME NEW t, NEW c, NEW by, NEW ps, CreateRole(h, t, c, by, ps) PROVE Idles(h)
  <2> DEFINE q == [Blank EXCEPT !.op = "CreateRole", !.pc = "code", !.tenant = t,
                              !.code = c, !.actor = by, !.todo = ps]
  <2>1. q.pc = "code" /\ Begin(h, q)
    BY <1>3 DEF CreateRole, Blank
  <2>. QED
    BY <1>2, <2>1
<1>4. ASSUME NEW r, NEW a, NEW by, UpdateRole(h, r, a, by) PROVE Idles(h)
  <2> DEFINE q == [Blank EXCEPT !.op = "UpdateRole", !.pc = "read", !.role = r,
                              !.active = a, !.actor = by]
  <2>1. q.pc = "read" /\ Begin(h, q)
    BY <1>4 DEF UpdateRole, Blank
  <2>. QED
    BY <1>2, <2>1
<1>5. ASSUME NEW r, DeleteRole(h, r) PROVE Idles(h)
  <2> DEFINE q == [Blank EXCEPT !.op = "DeleteRole", !.pc = "read", !.role = r]
  <2>1. q.pc = "read" /\ Begin(h, q)
    BY <1>5 DEF DeleteRole, Blank
  <2>. QED
    BY <1>2, <2>1
<1>6. ASSUME NEW right, CreatePermission(h, right) PROVE Idles(h)
  <2> DEFINE q == [Blank EXCEPT !.op = "CreatePermission", !.pc = "permission",
                              !.right = right]
  <2>1. q.pc = "permission" /\ Begin(h, q)
    BY <1>6 DEF CreatePermission, Blank
  <2>. QED
    BY <1>2, <2>1
<1>7. ASSUME NEW r, NEW p, AssignPermission(h, r, p) PROVE Idles(h)
  <2> DEFINE q == [Blank EXCEPT !.op = "AssignPermission", !.role = r, !.perm = p,
                              !.pc = "assign_permission"]
  <2>1. q.pc = "assign_permission" /\ Begin(h, q)
    BY <1>7 DEF AssignPermission, Blank
  <2>. QED
    BY <1>2, <2>1
<1>8. ASSUME NEW r, NEW p, RemovePermission(h, r, p) PROVE Idles(h)
  <2> DEFINE q == [Blank EXCEPT !.op = "RemovePermission", !.pc = "remove_permission",
                              !.role = r, !.perm = p]
  <2>1. q.pc = "remove_permission" /\ Begin(h, q)
    BY <1>8 DEF RemovePermission, Blank
  <2>. QED
    BY <1>2, <2>1
<1>9. ASSUME NEW u, NEW r, AssignRole(h, u, r) PROVE Idles(h)
  <2> DEFINE q == [Blank EXCEPT !.op = "AssignRole", !.pc = "assign_role",
                              !.user = u, !.role = r]
  <2>1. q.pc = "assign_role" /\ Begin(h, q)
    BY <1>9 DEF AssignRole, Blank
  <2>. QED
    BY <1>2, <2>1
<1>10. ASSUME NEW u, NEW r, RemoveRole(h, u, r) PROVE Idles(h)
  <2> DEFINE q == [Blank EXCEPT !.op = "RemoveRole", !.pc = "remove_role",
                              !.user = u, !.role = r]
  <2>1. q.pc = "remove_role" /\ Begin(h, q)
    BY <1>10 DEF RemoveRole, Blank
  <2>. QED
    BY <1>2, <2>1
<1>11. ASSUME NEW u, NEW t, Register(h, u, t) PROVE Idles(h)
  <2> DEFINE q == [Blank EXCEPT !.op = "Register", !.pc = "default", !.user = u,
                              !.tenant = t]
  <2>1. q.pc = "default" /\ NewUser(h, q)
    BY <1>11 DEF Register, Blank
  <2>. QED
    BY <1>2, <2>1
<1>12. ASSUME NEW u, NEW rs, CreateUser(h, u, rs) PROVE Idles(h)
  <2> DEFINE q == [Blank EXCEPT !.op = "CreateUser", !.pc = "give_roles", !.user = u,
                              !.todo = rs]
  <2>1. q.pc = "give_roles" /\ NewUser(h, q)
    BY <1>12 DEF CreateUser, Blank
  <2>. QED
    BY <1>2, <2>1
<1>. QED
  BY <1>1, <1>3, <1>4, <1>5, <1>6, <1>7, <1>8, <1>9, <1>10, <1>11, <1>12, Zenon DEF Arrive

LEMMA AdvanceIdles ==
    ASSUME Inv, NEW h \in Handler, Advance(h), ~CheckCode(h), ~InsertRole(h)
    PROVE  Idles(h) /\ UNCHANGED history
<1>1. UNCHANGED history
  BY Zenon DEF Advance, GivePermission, ReadRole, UpdateRoleWrite, DeleteRoleWrite,
     InsertPermission, InsertRolePermission, DeleteRolePermission, InsertUserRole,
     DeleteUserRole, FindDefaultRole, GiveDefaultRole, GiveRole, Audit
<1>2. CASE ReadRole(h)
  <2> DEFINE q == req[h]
             next == [Blank EXCEPT !.op = q.op, !.role = q.role, !.actor = q.actor]
             w(row) == [next EXCEPT !.pc = "write", !.row = row]
             d(row) == [next EXCEPT !.pc = "delete", !.row = row]
  <2>1. (\E a : Answer(h, a)) \/ \E row : Step(h, w(row)) \/ Step(h, d(row))
    BY <1>2, Zenon DEF ReadRole
  <2>2. \A row : w(row).pc = "write" /\ d(row).pc = "delete"
    BY DEF Blank
  <2> HIDE DEF w, d
  <2>. QED
    BY <1>1, <2>1, <2>2, AnswerIdles DEF Idles
<1>3. CASE GivePermission(h) \/ GiveRole(h)
  <2> DEFINE n == [req[h] EXCEPT !.todo = Tail(@)]
  <2>1. (\E a : Answer(h, a)) \/ (\E a, u, t, r : Log(h, a, u, t, r)) \/ Step(h, n)
    BY <1>3, Zenon DEF GivePermission, GiveRole
  <2>2. n.pc # "insert"
    BY <1>3 DEF GivePermission, GiveRole, At, Inv, Request
  <2> HIDE DEF n
  <2>. QED
    BY <1>1, <2>1, <2>2, AnswerIdles DEF Idles
<1>4. CASE FindDefaultRole(h)
  <2> DEFINE n(r) == [req[h] EXCEPT !.pc = "give_default", !.role = r]
  <2>1. (\E a : Answer(h, a)) \/ \E r : Step(h, n(r))
    BY <1>4, Zenon DEF FindDefaultRole
  <2>2. \A r : n(r).pc = "give_default"
    BY DEF Inv, Request
  <2> HIDE DEF n
  <2>. QED
    BY <1>1, <2>1, <2>2, AnswerIdles DEF Idles
<1>5. CASE \/ UpdateRoleWrite(h) \/ DeleteRoleWrite(h) \/ InsertPermission(h)
           \/ InsertRolePermission(h) \/ DeleteRolePermission(h) \/ InsertUserRole(h)
           \/ DeleteUserRole(h) \/ GiveDefaultRole(h) \/ Audit(h)
  <2>1. (\E a : Answer(h, a)) \/ (\E a, u, t, r : Log(h, a, u, t, r))
    BY <1>5, Zenon DEF UpdateRoleWrite, DeleteRoleWrite, InsertPermission,
       InsertRolePermission, DeleteRolePermission, InsertUserRole, DeleteUserRole,
       GiveDefaultRole, Audit
  <2>. QED
    BY <1>1, <2>1, AnswerIdles
<1>. QED
  BY <1>2, <1>3, <1>4, <1>5, Zenon DEF Advance

\* Without an INSERT nothing new is said of the roles there are.
LEMMA RolesThere ==
    ASSUME Inv, Inv', [Next]_vars, UNCHANGED history, NEW r \in Role, roles'[r] # None
    PROVE  /\ roles[r] # None /\ roles'[r].code = roles[r].code
           /\ roles'[r].tenant = roles[r].tenant /\ born'[r] = born[r] /\ seen'[r] = seen[r]
<1>1. born'[r] = born[r] /\ seen'[r] = seen[r] /\ born'[r] # 0
  BY DEF history, Inv, Tables
<1>2. roles[r] # None /\ roles'[r] = [roles[r] EXCEPT !.active = roles'[r].active]
  BY <1>1, RowsKept
<1>3. roles[r] \in RoleRow
  BY <1>2 DEF Inv, Tables
<1>. QED
  BY <1>1, <1>2, <1>3 DEF RoleRow

LEMMA NumberedStays ==
    ASSUME Inv, Inv', Numbered, CodesClashOnlyByRace, [Next]_vars, UNCHANGED history,
           \A g \in Handler : \/ req'[g] = req[g]
                              \/ req'[g].pc # "insert"
                              \/ /\ req'[g].checked = Inserted
                                 /\ Matches(req'[g].code, req'[g].tenant) = {}
    PROVE  Numbered' /\ CodesClashOnlyByRace'
<1>1. Inserted' = Inserted /\ born' = born
  BY DEF Inserted, history
<1>2. CodesClashOnlyByRace'
  BY RolesThere DEF CodesClashOnlyByRace
<1>3. ASSUME NEW g \in Handler PROVE Looked(req[g])'
  <2> SUFFICES ASSUME req'[g].pc = "insert", NEW r \in Role, roles'[r] # None,
                      roles'[r].code = req'[g].code,
                      roles'[r].tenant \in {req'[g].tenant, None}
               PROVE  req'[g].checked < born'[r]
    BY Zenon DEF Looked
  <2>1. /\ roles[r] # None /\ roles[r].code = req'[g].code
        /\ roles[r].tenant \in {req'[g].tenant, None}
    BY RolesThere
  <2>2. CASE req'[g] = req[g]
    BY <1>1, <2>1, <2>2 DEF Numbered, Looked
  <2>3. CASE Matches(req'[g].code, req'[g].tenant) = {}
    BY <2>1, <2>3 DEF Matches
  <2>. QED
    BY <2>2, <2>3
<1>4. ASSUME NEW g \in Handler, At(g, "insert")' PROVE req'[g].checked \leq Inserted'
  BY <1>1, <1>4, InsertedNat DEF Numbered, At
<1>. QED
  BY <1>1, <1>2, <1>3, <1>4 DEF Numbered

LEMMA Counted ==
    ASSUME Inv, NEW id \in FreshRole, NEW n, n # 0, born' = [born EXCEPT ![id] = n]
    PROVE  Inserted' = Inserted + 1
<1> DEFINE S == {r \in Role : born[r] # 0}
<1>1. IsFiniteSet(S)
  BY FiniteAssumption, FS_Subset
<1>2. {r \in Role : born'[r] # 0} = S \cup {id} /\ id \notin S
  BY DEF FreshRole, Inv, Tables
<1>3. Cardinality(S \cup {id}) = Cardinality(S) + 1
  BY <1>1, <1>2, FS_AddElement
<1>. QED
  BY <1>2, <1>3 DEF Inserted

LEMMA InsertNumbered ==
    ASSUME Inv, Inv', Numbered, CodesClashOnlyByRace, NEW h \in Handler, InsertRole(h)
    PROVE  Numbered' /\ CodesClashOnlyByRace'
<1> DEFINE q == req[h]
           row == [tenant |-> q.tenant, code |-> q.code, system |-> FALSE, active |-> TRUE]
           n(id) == [q EXCEPT !.pc = "give_permissions", !.role = id, !.checked = 0]
<1>0. /\ req \in [Handler -> Request] /\ roles \in [Role -> RoleRow \cup {None}]
      /\ born \in [Role -> Nat] /\ seen \in [Role -> Nat] /\ Inserted \in Nat
      /\ q.checked \in Nat /\ q.pc = "insert"
  BY InsertedNat DEF Inv, Tables, InsertRole, At, Request
<1>1. \/ (\E a : Answer(h, a)) /\ UNCHANGED <<roles, history>>
      \/ \E id \in FreshRole :
           /\ ~RoleConflict(row)
           /\ roles' = [roles EXCEPT ![id] = row]
           /\ born' = [born EXCEPT ![id] = Inserted + 1]
           /\ seen' = [seen EXCEPT ![id] = q.checked]
           /\ (\E a : Answer(h, a)) \/ Step(h, n(id))
  BY Zenon DEF InsertRole
<1>2. \A id : n(id).pc = "give_permissions"
  BY <1>0 DEF Inv, Request
<1>3. ASSUME (\E a : Answer(h, a)) \/ \E id : Step(h, n(id))
      PROVE  \A g \in Handler : req'[g] = req[g] \/ req'[g].pc # "insert"
  <2> HIDE DEF n
  <2>1. Idles(h)
    BY <1>2, <1>3, AnswerIdles DEF Idles
  <2>. QED
    BY <1>0, <2>1 DEF Idles, Step
<1>4. CASE (\E a : Answer(h, a)) /\ UNCHANGED <<roles, history>>
  <2> HIDE DEF n
  <2>1. Next
    BY DEF Next, Advance
  <2>. QED
    BY <1>3, <1>4, <2>1, NumberedStays
<1>5. ASSUME NEW id \in FreshRole, ~RoleConflict(row), roles' = [roles EXCEPT ![id] = row],
             born' = [born EXCEPT ![id] = Inserted + 1],
             seen' = [seen EXCEPT ![id] = q.checked],
             (\E a : Answer(h, a)) \/ Step(h, n(id))
      PROVE  Numbered' /\ CodesClashOnlyByRace'
  <2>1. /\ id \in Role /\ roles'[id] = row /\ born'[id] = Inserted + 1 /\ seen'[id] = q.checked
        /\ \A r \in Role \ {id} :
             roles'[r] = roles[r] /\ born'[r] = born[r] /\ seen'[r] = seen[r]
    BY <1>0, <1>5 DEF FreshRole
  <2>2. row.tenant = q.tenant /\ row.code = q.code
    OBVIOUS
  <2>3. Inserted' = Inserted + 1
    <3> DEFINE k == Inserted + 1
    <3>1. k # 0
      BY <1>0
    <3>2. born' = [born EXCEPT ![id] = k]
      BY <1>5
    <3> HIDE DEF k
    <3>3. Inserted' = Inserted + 1
      BY <3>1, <3>2, Counted
    <3>. QED
      BY <3>3
  <2>4. \A g \in Handler : req'[g] = req[g] \/ req'[g].pc # "insert"
    BY <1>3, <1>5
  <2>5. \A r \in Role \ {id} : roles[r] # None /\ roles[r].code = q.code
                               /\ roles[r].tenant \in {q.tenant, None}
                               => q.checked < born[r]
    BY <1>0 DEF Numbered, Looked
  <2>6. \A r \in Role : born[r] \leq Inserted
    BY DEF Numbered
  <2>7. \A r \in Role \ {id} : roles[r] # None /\ roles[r].code = q.code
                               /\ roles[r].tenant = q.tenant => q.tenant = None
    BY <1>5 DEF RoleConflict
  <2> HIDE DEF row, n
  <2>8. Numbered'
    <3>1. \A r \in Role : born'[r] \leq Inserted'
      BY <1>0, <2>1, <2>3, <2>6
    <3>2. ASSUME NEW g \in Handler, req'[g].pc = "insert"
          PROVE  Looked(req[g])' /\ req'[g].checked \leq Inserted'
      <4>1. req'[g] = req[g] /\ req[g].checked \in Nat /\ req[g].checked \leq Inserted
        BY <1>0, <2>4, <3>2 DEF Numbered, At, Request
      <4>2. ASSUME NEW r \in Role, roles'[r] # None, roles'[r].code = req[g].code,
                   roles'[r].tenant \in {req[g].tenant, None}
            PROVE  req[g].checked < born'[r]
        <5>1. CASE r = id
          BY <1>0, <2>1, <4>1, <5>1
        <5>2. CASE r # id
          BY <2>1, <3>2, <4>1, <4>2, <5>2 DEF Numbered, Looked
        <5>. QED
          BY <5>1, <5>2
      <4>. QED
        BY <1>0, <2>3, <4>1, <4>2 DEF Looked
    <3>. QED
      BY <3>1, <3>2 DEF Numbered, Looked, At
  <2>9. CodesClashOnlyByRace'
    <3> SUFFICES ASSUME NEW r \in Role, NEW s \in Role, roles'[r] # None, roles'[s] # None,
                        born'[r] < born'[s], roles'[r].code = roles'[s].code
                 PROVE  /\ roles'[r].tenant = roles'[s].tenant => roles'[r].tenant = None
                        /\ roles'[s].tenant \in {roles'[r].tenant, None}
                             \/ roles'[r].tenant = None
                           => \/ seen'[s] < born'[r]
                              \/ roles'[s].tenant = None /\ roles'[r].tenant # None
      BY DEF CodesClashOnlyByRace
    <3>1. CASE r = id
      <4>1. s # id /\ born'[s] = born[s] /\ born[s] \leq Inserted /\ born[s] \in Nat
        BY <1>0, <2>1, <2>6, <3>1
      <4>. QED
        BY <1>0, <2>1, <3>1, <4>1
    <3>2. CASE s = id /\ r # id
      <4>1. /\ roles[r] # None /\ roles[r].code = q.code /\ roles'[r] = roles[r]
            /\ born'[r] = born[r] /\ roles'[s].tenant = q.tenant /\ seen'[s] = q.checked
        BY <2>1, <2>2, <3>2
      <4>. QED
        BY <2>5, <2>7, <3>2, <4>1
    <3>3. CASE s # id /\ r # id
      BY <2>1, <3>3 DEF CodesClashOnlyByRace
    <3>. QED
      BY <3>1, <3>2, <3>3
  <2>. QED
    BY <2>8, <2>9
<1> HIDE DEF row, n
<1>. QED
  BY <1>1, <1>4, <1>5

LEMMA NextNumbered ==
    ASSUME Inv, Inv', Numbered, CodesClashOnlyByRace, [Next]_vars
    PROVE  Numbered' /\ CodesClashOnlyByRace'
<1>0. req \in [Handler -> Request]
  BY DEF Inv
<1>1. CASE UNCHANGED vars
  BY <1>1, NumberedStays DEF vars
<1>2. CASE Crash
  <2>1. \A g \in Handler : req'[g].pc # "insert"
    BY <1>2 DEF Crash, Blank
  <2>. QED
    BY <1>2, <2>1, NumberedStays DEF Crash
<1>3. ASSUME NEW h \in Handler, Idles(h), UNCHANGED history
      PROVE  Numbered' /\ CodesClashOnlyByRace'
  <2>1. \A g \in Handler : req'[g] = req[g] \/ req'[g].pc # "insert"
    BY <1>0, <1>3 DEF Idles, Step
  <2>. QED
    BY <1>3, <2>1, NumberedStays
<1>4. ASSUME NEW h \in Handler, CheckCode(h)
      PROVE  Numbered' /\ CodesClashOnlyByRace'
  <2>1. UNCHANGED history
    BY <1>4 DEF CheckCode
  <2> DEFINE n == [req[h] EXCEPT !.pc = "insert", !.checked = Inserted]
  <2>2. \/ \E a : Answer(h, a)
        \/ Matches(req[h].code, req[h].tenant) = {} /\ Step(h, n)
    BY <1>4, Zenon DEF CheckCode
  <2>3. CASE Matches(req[h].code, req[h].tenant) = {} /\ Step(h, n)
    <3>1. n.checked = Inserted /\ n.code = req[h].code /\ n.tenant = req[h].tenant
      BY <1>0 DEF Request
    <3>2. ASSUME NEW g \in Handler
          PROVE  \/ req'[g] = req[g]
                 \/ /\ req'[g].checked = Inserted
                    /\ Matches(req'[g].code, req'[g].tenant) = {}
      <4> HIDE DEF n
      <4>1. g # h => req'[g] = req[g]
        BY <1>0, <2>3 DEF Step
      <4>2. g = h => req'[g] = n
        BY <1>0, <2>3 DEF Step
      <4>. QED
        BY <2>3, <3>1, <4>1, <4>2
    <3>. QED
      BY <2>1, <3>2, NumberedStays
  <2>. QED
    BY <1>3, <2>1, <2>2, <2>3, AnswerIdles
<1>5. ASSUME NEW h \in Handler, Advance(h)
      PROVE  Numbered' /\ CodesClashOnlyByRace'
  BY <1>3, <1>4, <1>5, AdvanceIdles, InsertNumbered
<1>. QED
  BY <1>1, <1>2, <1>3, <1>5, ArriveIdles DEF Next

\* Whatever creations race, two roles that a tenant can see share a code only
\* if the later was looked up before the earlier was inserted, or is global.
THEOREM CodesClashByRace == Spec => []CodesClashOnlyByRace
<1>1. Init => Numbered /\ CodesClashOnlyByRace
  <2> SUFFICES ASSUME Init PROVE Numbered /\ CodesClashOnlyByRace
    OBVIOUS
  <2>1. \A h \in Handler : req[h].pc # "insert"
    BY DEF Init, Blank
  <2>2. \A r \in Role : born[r] = (IF r = SystemRole THEN 1 ELSE 0) /\ (roles[r] # None => r = SystemRole)
    BY DEF Init
  <2>3. Inserted = 1
    <3>1. {r \in Role : born[r] # 0} = {SystemRole}
      BY <2>2, ModeAssumption
    <3>. QED
      BY <3>1, FS_Singleton DEF Inserted
  <2>. QED
    BY <2>1, <2>2, <2>3 DEF Numbered, Looked, At, CodesClashOnlyByRace
<1>. QED
  BY <1>1, NextNumbered, Invariance, PTL DEF Spec
-----------------------------------------------------------------------------
(* Requests end *)

\* How many statements a request with locals r has to run at most: one for each
\* id that its body still lists, and those of its chain.
Remaining(r) ==
    IF r.pc = "done" THEN 0
    ELSE IF r.pc \in {"audit", "permission", "give_default"} THEN 1
    ELSE IF r.pc = "give_roles" THEN Len(r.todo) + 1
    ELSE IF r.pc = "give_permissions" THEN Len(r.todo) + 2
    ELSE IF r.pc = "read" THEN 3
    ELSE IF r.pc = "insert" THEN Len(r.todo) + 3
    ELSE IF r.pc = "code" THEN Len(r.todo) + 4 ELSE 2

Left(h) == Remaining(req[h])

LEMMA Countable ==
    ASSUME NEW r \in Request
    PROVE  /\ Len(r.todo) \in Nat /\ Remaining(r) \in Nat
           /\ r.pc # "done" => Remaining(r) > 0
<1>1. r.todo \in Seq(Permission) \/ r.todo \in Seq(Role)
  BY DEF Request
<1>. QED
  BY <1>1 DEF Remaining

\* Request h moves, to locals with less to do.
Lowers(h) == \E r : Step(h, r) /\ Remaining(r) < Left(h)

LEMMA EndLowers ==
    ASSUME Inv, NEW h \in Handler, ~At(h, "done")
    PROVE  /\ (\E a : Answer(h, a)) => Lowers(h)
           /\ (\E a, u, t, r : Log(h, a, u, t, r)) /\ Left(h) > 1 => Lowers(h)
<1>1. Left(h) \in Nat /\ Left(h) > 0
  BY Countable DEF Inv, Left, At
<1>2. Remaining(Blank) = 0
  BY DEF Remaining, Blank
<1>3. \A e : Remaining([Blank EXCEPT !.pc = "audit", !.log = e]) = 1
  BY DEF Remaining, Blank
<1>4. (\E a : Answer(h, a)) => Step(h, Blank)
  BY DEF Answer
<1>5. (\E a, u, t, r : Log(h, a, u, t, r)) =>
        \E e : Step(h, [Blank EXCEPT !.pc = "audit", !.log = e])
  BY Zenon DEF Log
<1>6. (\E a : Answer(h, a)) => Lowers(h)
  BY <1>1, <1>2, <1>4 DEF Lowers
<1>7. (\E a, u, t, r : Log(h, a, u, t, r)) /\ Left(h) > 1 => Lowers(h)
  <2> SUFFICES ASSUME \E a, u, t, r : Log(h, a, u, t, r), Left(h) > 1 PROVE Lowers(h)
    OBVIOUS
  <2>1. PICK e : Step(h, [Blank EXCEPT !.pc = "audit", !.log = e])
    BY <1>5
  <2> DEFINE n == [Blank EXCEPT !.pc = "audit", !.log = e]
  <2>2. Remaining(n) = 1 /\ Step(h, n)
    BY <1>3, <2>1
  <2> HIDE DEF n
  <2>. QED
    BY <2>2 DEF Lowers
<1>. QED
  BY <1>6, <1>7

LEMMA ListLowers ==
    ASSUME Inv, NEW h \in Handler, GivePermission(h) \/ GiveRole(h)
    PROVE  Lowers(h)
<1> DEFINE r == req[h]
           n == [r EXCEPT !.todo = Tail(@)]
<1>1. r \in Request /\ r.pc \in {"give_permissions", "give_roles"}
  BY DEF Inv, GivePermission, GiveRole, At
<1>2. \/ /\ r.pc = "give_permissions" /\ r.todo = <<>>
         /\ \E a, u, t, o : Log(h, a, u, t, o)
      \/ \E a : Answer(h, a)
      \/ r.todo # <<>> /\ Step(h, n)
  BY Zenon DEF GivePermission, GiveRole, At
<1>3. n.pc = r.pc /\ n.todo = Tail(r.todo)
  BY <1>1 DEF Request
<1>4. r.todo # <<>> => Len(Tail(r.todo)) < Len(r.todo) /\ Len(Tail(r.todo)) \in Nat
  <2>1. r.todo \in Seq(Permission) \/ r.todo \in Seq(Role)
    BY <1>1 DEF Request
  <2>. QED
    BY <2>1
<1>5. r.todo # <<>> => Remaining(n) < Left(h)
  BY <1>1, <1>3, <1>4, Countable DEF Remaining, Left
<1>6. r.pc = "give_permissions" => Left(h) > 1
  BY <1>1, Countable DEF Remaining, Left
<1>7. ~At(h, "done")
  BY <1>1 DEF At
<1> HIDE DEF n
<1>. QED
  BY <1>2, <1>5, <1>6, <1>7, EndLowers DEF Lowers

\* A statement run is a statement less, whatever came of it.
LEMMA AdvanceLowers ==
    ASSUME Inv, NEW h \in Handler, Advance(h)
    PROVE  Lowers(h)
<1> DEFINE q == req[h]
<1>0. q \in Request /\ Len(q.todo) \in Nat
  BY Countable DEF Inv
<1>1. CASE CheckCode(h)
  <2> DEFINE n == [q EXCEPT !.pc = "insert", !.checked = Inserted]
  <2>1. At(h, "code") /\ ((\E a : Answer(h, a)) \/ Step(h, n))
    BY <1>1, Zenon DEF CheckCode
  <2>2. n.pc = "insert" /\ n.todo = q.todo
    BY <1>0 DEF Request
  <2> HIDE DEF n
  <2>3. Remaining(n) < Left(h) /\ ~At(h, "done")
    BY <1>0, <2>1, <2>2 DEF Remaining, Left, At
  <2>. QED
    BY <2>1, <2>3, EndLowers DEF Lowers
<1>2. CASE InsertRole(h)
  <2> DEFINE n(id) == [q EXCEPT !.pc = "give_permissions", !.role = id, !.checked = 0]
  <2>1. At(h, "insert") /\ ((\E a : Answer(h, a)) \/ \E id : Step(h, n(id)))
    BY <1>2, Zenon DEF InsertRole
  <2>2. \A id : n(id).pc = "give_permissions" /\ n(id).todo = q.todo
    BY <1>0 DEF Request
  <2> HIDE DEF n
  <2>3. ~At(h, "done") /\ \A id : Remaining(n(id)) < Left(h)
    BY <1>0, <2>1, <2>2 DEF Remaining, Left, At
  <2>. QED
    BY <2>1, <2>3, EndLowers DEF Lowers
<1>3. CASE GivePermission(h) \/ GiveRole(h)
  BY <1>3, ListLowers
<1>4. CASE ReadRole(h)
  <2> DEFINE next == [Blank EXCEPT !.op = q.op, !.role = q.role, !.actor = q.actor]
             w(row) == [next EXCEPT !.pc = "write", !.row = row]
             d(row) == [next EXCEPT !.pc = "delete", !.row = row]
  <2>1. At(h, "read") /\ ((\E a : Answer(h, a)) \/ \E row : Step(h, w(row)) \/ Step(h, d(row)))
    BY <1>4, Zenon DEF ReadRole
  <2>2. \A row : w(row).pc = "write" /\ d(row).pc = "delete"
    BY DEF Blank
  <2> HIDE DEF w, d
  <2>3. ~At(h, "done") /\ \A row : Remaining(w(row)) < Left(h) /\ Remaining(d(row)) < Left(h)
    BY <2>1, <2>2 DEF Remaining, Left, At
  <2>. QED
    BY <2>1, <2>3, EndLowers DEF Lowers
<1>5. CASE FindDefaultRole(h)
  <2> DEFINE n(r) == [q EXCEPT !.pc = "give_default", !.role = r]
  <2>1. At(h, "default") /\ ((\E a : Answer(h, a)) \/ \E r : Step(h, n(r)))
    BY <1>5, Zenon DEF FindDefaultRole
  <2>2. \A r : n(r).pc = "give_default"
    BY <1>0 DEF Request
  <2> HIDE DEF n
  <2>3. ~At(h, "done") /\ \A r : Remaining(n(r)) < Left(h)
    BY <2>1, <2>2 DEF Remaining, Left, At
  <2>. QED
    BY <2>1, <2>3, EndLowers DEF Lowers
<1>6. CASE \/ UpdateRoleWrite(h) \/ DeleteRoleWrite(h) \/ InsertRolePermission(h)
           \/ DeleteRolePermission(h) \/ InsertUserRole(h) \/ DeleteUserRole(h)
  <2>1. (\E a : Answer(h, a)) \/ (\E a, u, t, r : Log(h, a, u, t, r))
    BY <1>6, Zenon DEF UpdateRoleWrite, DeleteRoleWrite, InsertRolePermission,
       DeleteRolePermission, InsertUserRole, DeleteUserRole
  <2>2. req[h].pc \in {"write", "delete", "assign_permission", "remove_permission",
                       "assign_role", "remove_role"}
    BY <1>6 DEF UpdateRoleWrite, DeleteRoleWrite, InsertRolePermission,
       DeleteRolePermission, InsertUserRole, DeleteUserRole, At
  <2>3. ~At(h, "done") /\ Left(h) > 1
    BY <2>2 DEF Remaining, Left, At
  <2>. QED
    BY <2>1, <2>3, EndLowers
<1>7. CASE InsertPermission(h) \/ GiveDefaultRole(h) \/ Audit(h)
  <2>1. \E a : Answer(h, a)
    BY <1>7, Zenon DEF InsertPermission, GiveDefaultRole, Audit
  <2>2. ~At(h, "done")
    BY <1>7 DEF InsertPermission, GiveDefaultRole, Audit, At
  <2>. QED
    BY <2>1, <2>2, EndLowers
<1>. QED
  BY <1>1, <1>2, <1>3, <1>4, <1>5, <1>6, <1>7 DEF Advance

\* No other step prolongs a request, as a new one takes a free slot only.
LEMMA NextLowers ==
    ASSUME Inv, [Next]_vars, NEW h \in Handler, ~At(h, "done")
    PROVE  req'[h] = req[h] \/ Left(h)' < Left(h)
<1>0. req \in [Handler -> Request]
  BY DEF Inv
<1>1. ASSUME NEW g \in Handler, Arrive(g) PROVE req'[h] = req[h]
  <2>1. \E r : At(g, "done") /\ Step(g, r)
    BY <1>1, Zenon DEF Arrive, CreateRole, DeleteRole, UpdateRole, CreatePermission,
       AssignPermission, RemovePermission, AssignRole, RemoveRole, Register, CreateUser,
       Begin, NewUser
  <2>. QED
    BY <1>0, <2>1 DEF Step, At
<1>2. ASSUME NEW g \in Handler, Advance(g) PROVE req'[h] = req[h] \/ Left(h)' < Left(h)
  <2>1. PICK r : Step(g, r) /\ Remaining(r) < Left(g)
    BY <1>2, AdvanceLowers DEF Lowers
  <2>2. req'[g] = r /\ (g # h => req'[h] = req[h])
    BY <1>0, <2>1 DEF Step
  <2>. QED
    BY <2>1, <2>2 DEF Left
<1>3. CASE Crash
  <2>1. Left(h)' = 0
    BY <1>3 DEF Crash, Left, Remaining, Blank
  <2>2. Left(h) \in Nat /\ Left(h) > 0
    BY <1>0, Countable DEF Left, At
  <2>. QED
    BY <2>1, <2>2
<1>. QED
  BY <1>1, <1>2, <1>3 DEF Next, vars

\* The loops over the listed ids end like everything else: every step of a
\* request lowers what it has left to do, and nothing that others create, assign
\* or delete meanwhile raises it.
THEOREM BoundedWork ==
    Spec => [][\A h \in Handler :
                 /\ Left(h) \in Nat
                 /\ ~At(h, "done") => req'[h] = req[h] \/ Left(h)' < Left(h)]_vars
<1>1. Inv /\ [Next]_vars =>
        [\A h \in Handler :
           /\ Left(h) \in Nat
           /\ ~At(h, "done") => req'[h] = req[h] \/ Left(h)' < Left(h)]_vars
  <2>1. Inv => \A h \in Handler : Left(h) \in Nat
    BY Countable DEF Inv, Left
  <2>. QED
    BY <2>1, NextLowers
<1>. QED
  BY <1>1, Invariance, PTL DEF Spec
=============================================================================
