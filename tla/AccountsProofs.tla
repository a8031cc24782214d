--------------------------- MODULE AccountsProofs ---------------------------
(***************************************************************************)
(* Theorems about Accounts, for all sets of rows, names and handlers and   *)
(* every database behaviour.                                               *)
(*                                                                         *)
(* Fits says what a request still tells of rows that others have changed   *)
(* since it read them; Evolves, how rows may change under it: they stay,   *)
(* keep tenant and name, and stay deleted.  What a step does to accounts   *)
(* and tenants (UserChange, TenantChange) gives the uniqueness of names    *)
(* and the refinement of AccountLife; what it does to the locals of        *)
(* creations (NextMoves), the theorems on deleted tenants and e-mail       *)
(* addresses, whose invariants need Inv and not each other.  What is left  *)
(* of a request (Left) decreases, from which it follows that it ends.      *)
(***************************************************************************)
EXTENDS Accounts, TLAPS

\* What an entry about an account says is so.
Sound(e, uu, cc) ==
    /\ e.action \in {"REGISTER", "USER_CREATE", "USER_UPDATE", "USER_DELETE"} =>
         e.user \in User /\ uu[e.user] # None /\ uu[e.user].tenant = e.tenant
    /\ e.action = "REGISTER" => e.user \in cc
    /\ e.action = "USER_DELETE" => uu[e.user].deleted

Creating == {"tenant", "email", "name", "insert_user"}

\* The locals of request r with users = uu and cred = cc.
Fits(r, uu, cc) ==
    /\ r.pc \in Creating =>
          /\ r.tenant \in Tenant /\ r.email \in Email /\ r.name \in Username
          /\ r.status \in UserStatus /\ r.op \in {"Register", "CreateUser"}
    /\ r.pc \in {"credential", "user_write", "user_delete"} =>
          /\ r.user \in User /\ r.tenant \in Tenant
          /\ uu[r.user] # None /\ uu[r.user].tenant = r.tenant
    /\ r.pc = "user_read" =>
          /\ r.user \in User /\ r.op \in {"UpdateUser", "DeleteUser"}
          /\ r.email \in Email \cup {None} /\ r.status \in UserStatus \cup {None}
    /\ r.pc = "user_write" => r.row \in UserRow /\ r.row.name = uu[r.user].name
    /\ r.pc \in {"code", "domain", "insert_tenant"} =>
          r.code \in Code /\ r.domain \in DomainValue /\ r.actor \in Actor
    /\ r.pc = "tenant_read" =>
          /\ r.tenant \in Tenant /\ r.op \in {"UpdateTenant", "DeleteTenant"}
          /\ r.domain \in DomainValue /\ r.status \in TenantStatus \cup {None}
          /\ r.actor \in Actor \cup {Zero}
          /\ r.op = "DeleteTenant" => r.actor = Zero
    /\ r.pc = "tenant_write" =>
          r.tenant \in Tenant /\ r.actor \in Actor \cup {Zero} /\ r.row \in TenantRow
    /\ r.pc = "tenant_delete" => r.tenant \in Tenant /\ r.actor = Zero
    /\ r.pc = "audit" => r.log \in AuditRow /\ Sound(r.log, uu, cc)

Tables ==
    /\ tenants \in [Tenant -> TenantRow \cup {None}]
    /\ users \in [User -> UserRow \cup {None}]
    /\ cred \subseteq User
    /\ audit \in AuditRow \cup {None}
    /\ edited \subseteq User
    /\ rivals \subseteq User \X User
    /\ audit # None => Sound(audit, users, cred)

Inv ==
    /\ Tables
    /\ req \in [Handler -> Request]
    /\ \A h \in Handler : Fits(req[h], users, cred)

\* How rows and passwords may change under a request.
Evolves(uu, cc, vv, dd) ==
    /\ cc \subseteq dd
    /\ \A u \in User : uu[u] # None =>
         /\ vv[u] # None /\ vv[u].tenant = uu[u].tenant /\ vv[u].name = uu[u].name
         /\ uu[u].deleted => vv[u].deleted

-----------------------------------------------------------------------------
(* Locals *)

LEMMA SoundStays ==
    ASSUME NEW e, NEW uu, NEW cc, NEW vv, NEW dd,
           Sound(e, uu, cc), Evolves(uu, cc, vv, dd)
    PROVE  Sound(e, vv, dd)
BY DEF Sound, Evolves

LEMMA FitsStays ==
    ASSUME NEW r, NEW uu, NEW cc, NEW vv, NEW dd,
           Fits(r, uu, cc), Evolves(uu, cc, vv, dd)
    PROVE  Fits(r, vv, dd)
<1>1. r.pc = "audit" => Sound(r.log, vv, dd)
  BY SoundStays DEF Fits
<1>2. r.pc \in {"credential", "user_write", "user_delete"} =>
        vv[r.user] # None /\ vv[r.user].tenant = r.tenant
  BY DEF Fits, Evolves
<1>3. r.pc = "user_write" => r.row.name = vv[r.user].name
  BY DEF Fits, Evolves
<1>. QED
  BY <1>1, <1>2, <1>3 DEF Fits

LEMMA EvolvesRefl == Evolves(users, cred, users, cred)
BY DEF Evolves

LEMMA Stepped ==
    ASSUME Inv, NEW h \in Handler, NEW r \in Request, Step(h, r),
           Evolves(users, cred, users', cred'), Fits(r, users', cred'), Tables'
    PROVE  Inv'
<1>1. req' \in [Handler -> Request]
  BY DEF Inv, Step
<1>2. ASSUME NEW g \in Handler PROVE Fits(req[g], users, cred)'
  <2>1. CASE g = h
    <3>1. req'[g] = r
      BY <2>1 DEF Step, Inv
    <3>. QED
      BY <3>1
  <2>2. CASE g # h
    <3>1. req'[g] = req[g]
      BY <2>2 DEF Step, Inv
    <3>2. Fits(req[g], users', cred')
      BY FitsStays DEF Inv
    <3>. QED
      BY <3>1, <3>2
  <2>. QED
    BY <2>1, <2>2
<1>. QED
  BY <1>1, <1>2 DEF Inv

\* A step that reads the tables.
LEMMA ReadStep ==
    ASSUME Inv, NEW h \in Handler, NEW r \in Request, Step(h, r),
           UNCHANGED <<tables, history>>, Fits(r, users, cred)
    PROVE  Inv'
<1>1. UNCHANGED <<tenants, users, cred, audit, edited, rivals>>
  BY DEF tables, history
<1>2. Tables'
  BY <1>1 DEF Inv, Tables
<1>3. Evolves(users, cred, users', cred') /\ Fits(r, users', cred')
  BY <1>1, EvolvesRefl
<1>. QED
  BY <1>2, <1>3, Stepped

\* A step that writes accounts as Evolves allows.
LEMMA UserStep ==
    ASSUME Inv, NEW h \in Handler, NEW r \in Request, Step(h, r),
           UNCHANGED <<tenants, audit, rivals>>,
           users' \in [User -> UserRow \cup {None}], cred' \subseteq User,
           edited' \subseteq User,
           Evolves(users, cred, users', cred'), Fits(r, users', cred')
    PROVE  Inv'
<1>1. audit # None => Sound(audit, users', cred')
  BY SoundStays DEF Inv, Tables
<1>2. Tables'
  BY <1>1 DEF Inv, Tables
<1>. QED
  BY <1>2, Stepped

\* A step that writes tenants.
LEMMA TenantStep ==
    ASSUME Inv, NEW h \in Handler, NEW r \in Request, Step(h, r),
           UNCHANGED <<users, cred, audit, history>>, Fits(r, users, cred),
           tenants' \in [Tenant -> TenantRow \cup {None}]
    PROVE  Inv'
<1>1. Tables'
  BY DEF Inv, Tables, history
<1>2. Evolves(users, cred, users', cred') /\ Fits(r, users', cred')
  BY EvolvesRefl
<1>. QED
  BY <1>1, <1>2, Stepped

LEMMA BlankFits ==
    ASSUME NEW uu, NEW cc PROVE Blank \in Request /\ Fits(Blank, uu, cc)
BY DEF Blank, Request, Phase, Fits, DomainValue, Creating

LEMMA Fields ==
    ASSUME NEW r \in Request
    PROVE  /\ r.missed \subseteq User /\ r.gone \subseteq Tenant /\ r.pc \in Phase
           /\ r.pw \in BOOLEAN
BY DEF Request

\* One field at a time.
LEMMA FieldChange ==
    ASSUME NEW r \in Request
    PROVE  /\ \A x \in Phase : [r EXCEPT !.pc = x] \in Request
           /\ \A x \in Operation : [r EXCEPT !.op = x] \in Request
           /\ \A x \in Tenant : [r EXCEPT !.tenant = x] \in Request
           /\ \A x \in User : [r EXCEPT !.user = x] \in Request
           /\ \A x \in Email \cup {None} : [r EXCEPT !.email = x] \in Request
           /\ \A x \in Username : [r EXCEPT !.name = x] \in Request
           /\ \A x \in UserStatus \cup TenantStatus \cup {None} :
                [r EXCEPT !.status = x] \in Request
           /\ \A x \in BOOLEAN : [r EXCEPT !.pw = x] \in Request
           /\ \A x \in Code : [r EXCEPT !.code = x] \in Request
           /\ \A x \in DomainValue : [r EXCEPT !.domain = x] \in Request
           /\ \A x \in Actor \cup {None, Zero} : [r EXCEPT !.actor = x] \in Request
           /\ \A x \in UserRow \cup TenantRow : [r EXCEPT !.row = x] \in Request
           /\ \A x \in AuditRow : [r EXCEPT !.log = x] \in Request
           /\ \A x \in SUBSET Tenant : [r EXCEPT !.gone = x] \in Request
           /\ \A x \in SUBSET User : [r EXCEPT !.missed = x] \in Request
<1>1. \A x \in Phase : [r EXCEPT !.pc = x] \in Request
  BY DEF Request
<1>2. \A x \in Operation : [r EXCEPT !.op = x] \in Request
  BY DEF Request
<1>3. \A x \in Tenant : [r EXCEPT !.tenant = x] \in Request
  BY DEF Request
<1>4. \A x \in User : [r EXCEPT !.user = x] \in Request
  BY DEF Request
<1>5. \A x \in Email \cup {None} : [r EXCEPT !.email = x] \in Request
  BY DEF Request
<1>6. \A x \in Username : [r EXCEPT !.name = x] \in Request
  BY DEF Request
<1>7. \A x \in UserStatus \cup TenantStatus \cup {None} : [r EXCEPT !.status = x] \in Request
  BY DEF Request
<1>8. \A x \in BOOLEAN : [r EXCEPT !.pw = x] \in Request
  BY DEF Request
<1>9. \A x \in Code : [r EXCEPT !.code = x] \in Request
  BY DEF Request
<1>10. \A x \in DomainValue : [r EXCEPT !.domain = x] \in Request
  BY DEF Request
<1>11. \A x \in Actor \cup {None, Zero} : [r EXCEPT !.actor = x] \in Request
  BY DEF Request
<1>12. \A x \in UserRow \cup TenantRow : [r EXCEPT !.row = x] \in Request
  BY DEF Request
<1>13. \A x \in AuditRow : [r EXCEPT !.log = x] \in Request
  BY DEF Request
<1>14. \A x \in SUBSET Tenant : [r EXCEPT !.gone = x] \in Request
  BY DEF Request
<1>15. \A x \in SUBSET User : [r EXCEPT !.missed = x] \in Request
  BY DEF Request
<1>. QED
  BY <1>1, <1>2, <1>3, <1>4, <1>5, <1>6, <1>7, <1>8,
     <1>9, <1>10, <1>11, <1>12, <1>13, <1>14, <1>15

LEMMA LoggingFits ==
    ASSUME NEW action \in AuditAction, NEW u \in User \cup Actor \cup {None, Zero},
           NEW t \in Tenant, NEW uu, NEW cc,
           Sound([action |-> action, user |-> u, tenant |-> t], uu, cc)
    PROVE  /\ Logging(action, u, t) \in Request
           /\ Fits(Logging(action, u, t), uu, cc)
           /\ Logging(action, u, t).pc = "audit"
<1> DEFINE e == [action |-> action, user |-> u, tenant |-> t]
           l == [Blank EXCEPT !.pc = "audit", !.log = e]
<1>1. e \in AuditRow
  BY DEF AuditRow
<1> HIDE DEF e
<1>2. l \in Request
  BY <1>1, BlankFits, FieldChange DEF Phase
<1>3. l.pc = "audit" /\ l.log = e
  BY DEF Blank
<1> HIDE DEF l
<1>4. Fits(l, uu, cc)
  <2>1. Sound(e, uu, cc)
    BY DEF e
  <2>. QED
    BY <1>1, <1>3, <2>1 DEF Fits, Creating
<1>. QED
  BY <1>2, <1>3, <1>4 DEF l, e, Logging

-----------------------------------------------------------------------------
(* Arrivals *)

LEMMA Begins ==
    ASSUME Inv, NEW h \in Handler, NEW r \in Request, Begin(h, r), Fits(r, users, cred)
    PROVE  Inv'
<1> DEFINE g == {t \in Tenant : tenants[t] # None /\ tenants[t].deleted}
           n == [r EXCEPT !.gone = g]
<1>1. n \in Request
  BY FieldChange
<1>2. /\ n.pc = r.pc /\ n.op = r.op /\ n.tenant = r.tenant /\ n.user = r.user
      /\ n.email = r.email /\ n.name = r.name /\ n.status = r.status
      /\ n.code = r.code /\ n.domain = r.domain /\ n.actor = r.actor
      /\ n.row = r.row /\ n.log = r.log
  BY DEF Request
<1>3. Step(h, n) /\ UNCHANGED <<tables, history>>
  BY DEF Begin
<1> HIDE DEF n
<1>4. Fits(n, users, cred)
  BY <1>2 DEF Fits
<1>. QED
  BY <1>1, <1>3, <1>4, ReadStep

LEMMA RegisterStep ==
    ASSUME Inv, NEW h \in Handler, NEW t \in Tenant, NEW e \in NewEmail, NEW n \in Username,
           Register(h, t, e, n)
    PROVE  Inv'
<1> DEFINE r == [Blank EXCEPT !.op = "Register", !.pc = "tenant", !.tenant = t,
                   !.email = e, !.name = n, !.status = "pending", !.pw = TRUE]
<1>0. e \in Email /\ "pending" \in UserStatus
  BY ModeAssumption DEF UserStatus
<1>1. r \in Request
  BY <1>0, BlankFits, FieldChange DEF Phase, Operation
<1>2. /\ r.op = "Register" /\ r.pc = "tenant" /\ r.tenant = t /\ r.email = e /\ r.name = n
      /\ r.status = "pending"
  BY DEF Blank
<1>3. Begin(h, r)
  BY DEF Register
<1> HIDE DEF r
<1>4. Fits(r, users, cred)
  BY <1>0, <1>2 DEF Fits
<1>. QED
  BY <1>1, <1>3, <1>4, Begins

LEMMA CreateUserStep ==
    ASSUME Inv, NEW h \in Handler, NEW t \in Tenant, NEW e \in NewEmail, NEW n \in Username,
           NEW st \in UserStatus, NEW pw \in BOOLEAN, CreateUser(h, t, e, n, st, pw)
    PROVE  Inv'
<1> DEFINE s == IF st = "blocked" THEN "active" ELSE st
           r == [Blank EXCEPT !.op = "CreateUser", !.pc = "tenant", !.tenant = t,
                   !.email = e, !.name = n, !.pw = pw, !.status = s]
<1>0. e \in Email /\ s \in UserStatus
  BY ModeAssumption DEF UserStatus
<1>1. Begin(h, r)
  BY DEF CreateUser
<1> HIDE DEF s
<1>2. r \in Request
  BY <1>0, BlankFits, FieldChange DEF Phase, Operation
<1>3. /\ r.op = "CreateUser" /\ r.pc = "tenant" /\ r.tenant = t /\ r.email = e /\ r.name = n
      /\ r.status = s
  BY DEF Blank
<1> HIDE DEF r
<1>4. Fits(r, users, cred)
  BY <1>0, <1>3 DEF Fits
<1>. QED
  BY <1>1, <1>2, <1>4, Begins

LEMMA UpdateUserStep ==
    ASSUME Inv, NEW h \in Handler, NEW u \in User, NEW e \in OtherEmail \cup {None},
           NEW st \in UserStatus \cup {None}, UpdateUser(h, u, e, st)
    PROVE  Inv'
<1> DEFINE r == [Blank EXCEPT !.op = "UpdateUser", !.pc = "user_read", !.user = u,
                              !.email = e, !.status = st]
<1>0. e \in Email \cup {None}
  BY ModeAssumption
<1>1. r \in Request
  BY <1>0, BlankFits, FieldChange DEF Phase, Operation
<1>2. r.op = "UpdateUser" /\ r.pc = "user_read" /\ r.user = u /\ r.email = e /\ r.status = st
  BY DEF Blank
<1>3. Begin(h, r)
  BY DEF UpdateUser
<1> HIDE DEF r
<1>4. Fits(r, users, cred)
  BY <1>0, <1>2 DEF Fits, Creating
<1>. QED
  BY <1>1, <1>3, <1>4, Begins

LEMMA DeleteUserStep ==
    ASSUME Inv, NEW h \in Handler, NEW u \in User, DeleteUser(h, u)
    PROVE  Inv'
<1> DEFINE r == [Blank EXCEPT !.op = "DeleteUser", !.pc = "user_read", !.user = u]
<1>1. r \in Request
  BY BlankFits, FieldChange DEF Phase, Operation
<1>2. r.op = "DeleteUser" /\ r.pc = "user_read" /\ r.user = u /\ r.email = None /\ r.status = None
  BY DEF Blank
<1>3. Begin(h, r)
  BY DEF DeleteUser
<1> HIDE DEF r
<1>4. Fits(r, users, cred)
  BY <1>2 DEF Fits, Creating
<1>. QED
  BY <1>1, <1>3, <1>4, Begins

LEMMA CreateTenantStep ==
    ASSUME Inv, NEW h \in Handler, NEW c \in Code, NEW d \in DomainValue, NEW by \in Actor,
           CreateTenant(h, c, d, by)
    PROVE  Inv'
<1> DEFINE r == [Blank EXCEPT !.op = "CreateTenant", !.pc = "code", !.code = c,
                              !.domain = d, !.actor = by]
<1>1. r \in Request
  BY BlankFits, FieldChange DEF Phase, Operation
<1>2. r.pc = "code" /\ r.code = c /\ r.domain = d /\ r.actor = by
  BY DEF Blank
<1>3. Begin(h, r)
  BY DEF CreateTenant
<1> HIDE DEF r
<1>4. Fits(r, users, cred)
  BY <1>2 DEF Fits, Creating
<1>. QED
  BY <1>1, <1>3, <1>4, Begins

LEMMA UpdateTenantStep ==
    ASSUME Inv, NEW h \in Handler, NEW t \in Tenant, NEW d \in DomainValue, NEW by \in Actor,
           NEW st \in TenantStatus \cup {None}, UpdateTenant(h, t, d, st, by)
    PROVE  Inv'
<1> DEFINE r == [Blank EXCEPT !.op = "UpdateTenant", !.pc = "tenant_read",
                              !.tenant = t, !.domain = d, !.status = st, !.actor = by]
<1>1. r \in Request
  BY BlankFits, FieldChange DEF Phase, Operation
<1>2. /\ r.op = "UpdateTenant" /\ r.pc = "tenant_read" /\ r.tenant = t /\ r.domain = d
      /\ r.status = st /\ r.actor = by
  BY DEF Blank
<1>3. Begin(h, r)
  BY DEF UpdateTenant
<1> HIDE DEF r
<1>4. Fits(r, users, cred)
  BY <1>2 DEF Fits, Creating
<1>. QED
  BY <1>1, <1>3, <1>4, Begins

LEMMA DeleteTenantStep ==
    ASSUME Inv, NEW h \in Handler, NEW t \in Tenant, DeleteTenant(h, t)
    PROVE  Inv'
<1> DEFINE r == [Blank EXCEPT !.op = "DeleteTenant", !.pc = "tenant_read",
                              !.tenant = t, !.actor = Zero]
<1>1. r \in Request
  BY BlankFits, FieldChange DEF Phase, Operation
<1>2. /\ r.op = "DeleteTenant" /\ r.pc = "tenant_read" /\ r.tenant = t /\ r.domain = None
      /\ r.status = None /\ r.actor = Zero
  BY DEF Blank
<1>3. Begin(h, r)
  BY DEF DeleteTenant
<1> HIDE DEF r
<1>4. Fits(r, users, cred)
  BY <1>2 DEF Fits, Creating, DomainValue
<1>. QED
  BY <1>1, <1>3, <1>4, Begins

LEMMA ArriveStep ==
    ASSUME Inv, NEW h \in Handler, Arrive(h)
    PROVE  Inv'
<1>1. ASSUME NEW t \in Tenant, NEW e \in NewEmail, NEW n \in Username,
             \/ Register(h, t, e, n)
             \/ \E st \in StatusGiven \cap UserStatus, pw \in BOOLEAN :
                  CreateUser(h, t, e, n, st, pw)
      PROVE  Inv'
  BY <1>1, RegisterStep, CreateUserStep
<1>2. ASSUME NEW u \in User,
             \/ DeleteUser(h, u)
             \/ \E e \in OtherEmail \cup {None},
                st \in (StatusGiven \cap UserStatus) \cup {None} :
                  UpdateUser(h, u, e, st)
      PROVE  Inv'
  BY <1>2, DeleteUserStep, UpdateUserStep
<1>3. ASSUME NEW c \in Code, NEW d \in DomainValue, NEW by \in Actor, CreateTenant(h, c, d, by)
      PROVE  Inv'
  BY <1>3, CreateTenantStep
<1>4. ASSUME NEW t \in Tenant,
             \/ DeleteTenant(h, t)
             \/ \E d \in DomainValue, by \in Actor,
                st \in (StatusGiven \cap TenantStatus) \cup {None} :
                  UpdateTenant(h, t, d, st, by)
      PROVE  Inv'
  BY <1>4, DeleteTenantStep, UpdateTenantStep
<1>. QED
  BY <1>1, <1>2, <1>3, <1>4, Zenon DEF Arrive
-----------------------------------------------------------------------------
(* Steps that read *)

\* On with the same locals.
LEMMA GoOn ==
    ASSUME Inv, NEW h \in Handler, NEW p \in Phase, Goto(h, p),
           UNCHANGED <<tables, history>>,
           \/ At(h, "tenant") /\ p = "email"
           \/ At(h, "email") /\ p = "name"
           \/ At(h, "name") /\ p = "insert_user"
           \/ At(h, "code") /\ p \in {"domain", "insert_tenant"}
           \/ At(h, "domain") /\ p = "insert_tenant"
    PROVE  Inv'
<1> DEFINE r == req[h]
           n == [r EXCEPT !.pc = p]
<1>1. r \in Request /\ Fits(r, users, cred) /\ Step(h, n)
  BY DEF Inv, Goto
<1>2. n \in Request
  BY <1>1, FieldChange
<1>3. /\ n.pc = p /\ n.op = r.op /\ n.tenant = r.tenant /\ n.email = r.email
      /\ n.name = r.name /\ n.status = r.status /\ n.code = r.code
      /\ n.domain = r.domain /\ n.actor = r.actor
  BY <1>1 DEF Request
<1>4. \/ r.pc \in Creating /\ p \in Creating
      \/ /\ r.pc \in {"code", "domain", "insert_tenant"}
         /\ p \in {"code", "domain", "insert_tenant"}
  BY DEF At, Creating
<1>5. p \notin {"credential", "user_write", "user_delete", "user_read", "tenant_read",
                "tenant_write", "tenant_delete", "audit"}
  BY <1>4 DEF Creating
<1> HIDE DEF n, r
<1>6. Fits(n, users, cred)
  BY <1>1, <1>3, <1>4, <1>5 DEF Fits, Creating
<1>. QED
  BY <1>1, <1>2, <1>6, ReadStep

LEMMA AnswerStep ==
    ASSUME Inv, NEW h \in Handler, NEW a, Answer(h, a), UNCHANGED <<tables, history>>
    PROVE  Inv'
BY BlankFits, ReadStep DEF Answer

LEMMA UnlessStep ==
    ASSUME Inv, NEW h \in Handler, NEW found, NEW p \in Phase, Unless(h, found, p),
           \/ At(h, "email") /\ p = "name"
           \/ At(h, "name") /\ p = "insert_user"
           \/ At(h, "code") /\ p \in {"domain", "insert_tenant"}
           \/ At(h, "domain") /\ p = "insert_tenant"
    PROVE  Inv'
BY GoOn, AnswerStep DEF Unless

LEMMA CheckSteps ==
    ASSUME Inv, NEW h \in Handler,
           \/ CheckTenant(h) \/ CheckEmail(h) \/ CheckUsername(h)
           \/ CheckCode(h) \/ CheckDomain(h)
    PROVE  Inv'
<1>1. CASE CheckTenant(h)
  <2>1. "email" \in Phase /\ UNCHANGED <<tables, history>> /\ At(h, "tenant")
    BY <1>1 DEF CheckTenant, Phase
  <2>2. \/ Goto(h, "email")
        \/ \E a : Answer(h, a)
    BY <1>1 DEF CheckTenant
  <2>. QED
    BY <2>1, <2>2, GoOn, AnswerStep
<1>2. CASE CheckEmail(h)
  BY <1>2, UnlessStep DEF CheckEmail, Phase
<1>3. CASE CheckUsername(h)
  BY <1>3, UnlessStep DEF CheckUsername, Phase
<1>4. CASE CheckCode(h)
  <2> DEFINE p == IF req[h].domain \in {None, ""} THEN "insert_tenant" ELSE "domain"
  <2>1. p \in {"insert_tenant", "domain"} /\ p \in Phase
    BY DEF Phase
  <2>2. Unless(h, GetByCode(req[h].code), p) /\ At(h, "code")
    BY <1>4 DEF CheckCode
  <2> HIDE DEF p
  <2>. QED
    BY <2>1, <2>2, UnlessStep
<1>5. CASE CheckDomain(h)
  BY <1>5, UnlessStep DEF CheckDomain, Phase
<1>. QED
  BY <1>1, <1>2, <1>3, <1>4, <1>5

LEMMA ReadUserStep ==
    ASSUME Inv, NEW h \in Handler, ReadUser(h)
    PROVE  Inv'
<1> DEFINE r == req[h]
           u == r.user
           e == Given(r.email, users[u].email)
           st == Given(r.status, users[u].status)
           row == [[users[u] EXCEPT !.email = e] EXCEPT !.status = st]
           next == [Blank EXCEPT !.op = r.op, !.user = u, !.tenant = users[u].tenant]
<1>1. /\ u \in User /\ r.op \in {"UpdateUser", "DeleteUser"}
      /\ r.email \in Email \cup {None} /\ r.status \in UserStatus \cup {None}
  BY DEF ReadUser, At, Inv, Fits
<1>2. CASE \E a : Answer(h, a)
  BY <1>2, AnswerStep DEF ReadUser
<1>3. CASE LiveUser(u) /\ \/ Step(h, [next EXCEPT !.pc = "user_write", !.row = row])
                          \/ Step(h, [next EXCEPT !.pc = "user_delete"])
  <2>1. users[u] \in UserRow /\ users[u] # None
    BY <1>1, <1>3 DEF LiveUser, Inv, Tables
  <2>2. e \in Email /\ st \in UserStatus
    BY <1>1, <2>1 DEF Given, UserRow
  <2> HIDE DEF e, st
  <2>3. row \in UserRow /\ row.name = users[u].name
    BY <2>1, <2>2 DEF UserRow
  <2>4. users[u].tenant \in Tenant
    BY <2>1 DEF UserRow
  <2> HIDE DEF row
  <2>5. next \in Request
    BY <1>1, <2>4, BlankFits, FieldChange DEF Operation
  <2>6. next.user = u /\ next.tenant = users[u].tenant
    BY DEF Blank
  <2> DEFINE a == [[next EXCEPT !.pc = "user_write"] EXCEPT !.row = row]
             d == [next EXCEPT !.pc = "user_delete"]
  <2>7. a \in Request /\ d \in Request
    <3>1. d \in Request /\ [next EXCEPT !.pc = "user_write"] \in Request
      BY <2>5, FieldChange DEF Phase
    <3>. QED
      BY <2>3, <3>1, FieldChange
  <2>8. /\ a.pc = "user_write" /\ a.row = row /\ a.user = u /\ a.tenant = users[u].tenant
        /\ d.pc = "user_delete" /\ d.user = u /\ d.tenant = users[u].tenant
    BY <2>5, <2>6 DEF Request
  <2>9. Step(h, a) \/ Step(h, d)
    BY <1>3
  <2>10. UNCHANGED <<tables, history>>
    BY DEF ReadUser
  <2> HIDE DEF a, d, next
  <2>11. Fits(a, users, cred) /\ Fits(d, users, cred)
    BY <1>1, <2>1, <2>3, <2>4, <2>8 DEF Fits, Creating
  <2>. QED
    BY <2>7, <2>9, <2>10, <2>11, ReadStep
<1>. QED
  BY <1>2, <1>3 DEF ReadUser, e, st

LEMMA ReadTenantStep ==
    ASSUME Inv, NEW h \in Handler, ReadTenant(h)
    PROVE  Inv'
<1> DEFINE r == req[h]
           t == r.tenant
           dom == Given(r.domain, tenants[t].domain)
           st == Given(r.status, tenants[t].status)
           row == [[tenants[t] EXCEPT !.domain = dom] EXCEPT !.status = st]
           next == [Blank EXCEPT !.op = r.op, !.tenant = t, !.actor = r.actor]
<1>1. /\ t \in Tenant /\ r.op \in {"UpdateTenant", "DeleteTenant"}
      /\ r.domain \in DomainValue /\ r.status \in TenantStatus \cup {None}
      /\ r.actor \in Actor \cup {Zero} /\ (r.op = "DeleteTenant" => r.actor = Zero)
  BY DEF ReadTenant, At, Inv, Fits
<1>2. CASE \E a : Answer(h, a)
  BY <1>2, AnswerStep DEF ReadTenant
<1>3. CASE /\ LiveTenant(t)
           /\ \/ Step(h, [next EXCEPT !.pc = "tenant_write", !.row = row])
              \/ /\ r.op = "DeleteTenant"
                 /\ Step(h, [next EXCEPT !.pc = "tenant_delete"])
  <2>1. tenants[t] \in TenantRow
    BY <1>1, <1>3 DEF LiveTenant, Inv, Tables
  <2>2. dom \in DomainValue /\ st \in TenantStatus
    BY <1>1, <2>1 DEF Given, TenantRow
  <2> HIDE DEF dom, st
  <2>3. row \in TenantRow
    BY <2>1, <2>2 DEF TenantRow
  <2> HIDE DEF row
  <2>5. next \in Request
    BY <1>1, BlankFits, FieldChange DEF Operation
  <2>6. next.tenant = t /\ next.actor = r.actor
    BY DEF Blank
  <2> DEFINE a == [[next EXCEPT !.pc = "tenant_write"] EXCEPT !.row = row]
             d == [next EXCEPT !.pc = "tenant_delete"]
  <2>7. a \in Request /\ d \in Request
    <3>1. d \in Request /\ [next EXCEPT !.pc = "tenant_write"] \in Request
      BY <2>5, FieldChange DEF Phase
    <3>. QED
      BY <2>3, <3>1, FieldChange
  <2>8. /\ a.pc = "tenant_write" /\ a.row = row /\ a.tenant = t /\ a.actor = r.actor
        /\ d.pc = "tenant_delete" /\ d.tenant = t /\ d.actor = r.actor
    BY <2>5, <2>6 DEF Request
  <2>9. Step(h, a) \/ (r.op = "DeleteTenant" /\ Step(h, d))
    BY <1>3
  <2>10. UNCHANGED <<tables, history>>
    BY DEF ReadTenant
  <2> HIDE DEF a, d, next
  <2>11. Fits(a, users, cred) /\ (r.op = "DeleteTenant" => Fits(d, users, cred))
    BY <1>1, <2>3, <2>8 DEF Fits, Creating
  <2>. QED
    BY <2>7, <2>9, <2>10, <2>11, ReadStep
<1>. QED
  BY <1>2, <1>3 DEF ReadTenant, dom, st
-----------------------------------------------------------------------------
(* Steps that write *)

\* The other requests past their check only note that they miss u.
LEMMA MissingFits ==
    ASSUME Inv, NEW h \in Handler, NEW r \in Request, NEW u \in User,
           req' = Missing(r, h, u), Evolves(users, cred, users', cred'),
           Fits(r, users', cred'), Tables'
    PROVE  Inv'
<1>1. ASSUME NEW g \in Handler
      PROVE  req'[g] \in Request /\ Fits(req[g], users, cred)'
  <2>1. req[g] \in Request /\ Fits(req[g], users', cred')
    BY FitsStays DEF Inv
  <2>2. CASE g = h
    BY <2>2 DEF Missing
  <2>3. CASE g # h /\ ~PastCheck(g)
    <3>1. req'[g] = req[g]
      BY <2>3 DEF Missing
    <3>. QED
      BY <2>1, <3>1
  <2>4. CASE g # h /\ PastCheck(g)
    <3> DEFINE m == req[g].missed \cup {u}
               n == [req[g] EXCEPT !.missed = m]
    <3>1. req'[g] = n
      BY <2>4 DEF Missing
    <3>2. m \in SUBSET User
      BY <2>1, Fields
    <3> HIDE DEF m
    <3>3. n \in Request
      BY <2>1, <3>2, FieldChange
    <3>4. /\ n.pc = req[g].pc /\ n.tenant = req[g].tenant /\ n.email = req[g].email
          /\ n.name = req[g].name /\ n.status = req[g].status /\ n.op = req[g].op
          /\ n.pc \in {"name", "insert_user"}
      BY <2>1, <2>4 DEF Request, PastCheck
    <3> HIDE DEF n
    <3>5. Fits(n, users', cred')
      BY <2>1, <3>4 DEF Fits, Creating
    <3>. QED
      BY <3>1, <3>3, <3>5
  <2>. QED
    BY <2>2, <2>3, <2>4
<1>2. req' \in [Handler -> Request]
  <2>1. DOMAIN req' = Handler /\ req' = [g \in Handler |-> req'[g]]
    BY DEF Missing
  <2>. QED
    BY <1>1, <2>1
<1>. QED
  BY <1>1, <1>2 DEF Inv

LEMMA InsertUserStep ==
    ASSUME Inv, NEW h \in Handler, InsertUser(h)
    PROVE  Inv'
<1> DEFINE r == req[h]
           row == [tenant |-> r.tenant, email |-> r.email, name |-> r.name,
                   status |-> r.status, deleted |-> FALSE]
           inserted(u) ==
               IF r.pw THEN [Blank EXCEPT !.op = r.op, !.pc = "credential",
                                          !.user = u, !.tenant = r.tenant]
                       ELSE Logging("USER_CREATE", u, r.tenant)
<1>1. /\ r \in Request /\ r.tenant \in Tenant /\ r.email \in Email /\ r.name \in Username
      /\ r.status \in UserStatus /\ r.op \in {"Register", "CreateUser"}
      /\ r.missed \subseteq User
  BY Fields DEF InsertUser, At, Inv, Fits, Creating
<1>2. row \in UserRow /\ row.tenant = r.tenant
  BY <1>1 DEF UserRow
<1>3. UNCHANGED <<tenants, cred, audit, edited>>
  BY DEF InsertUser
<1>4. ASSUME Answer(h, "Internal"), UNCHANGED <<users, rivals>> PROVE Inv'
  BY <1>3, <1>4, AnswerStep DEF tables, history
<1>5. ASSUME NEW u \in FreshUser, NEW o \in DbOutcome, users' = [users EXCEPT ![u] = row],
             rivals' = rivals \cup (r.missed \X {u}),
             req' = Missing(IF Fails(o) THEN Blank ELSE inserted(u), h, u)
      PROVE  Inv'
  <2> HIDE DEF row
  <2>1. u \in User /\ users[u] = None /\ users \in [User -> UserRow \cup {None}]
    BY DEF FreshUser, Inv, Tables
  <2>2. /\ users' \in [User -> UserRow \cup {None}]
        /\ users'[u] = row /\ \A v \in User \ {u} : users'[v] = users[v]
    BY <1>2, <1>5, <2>1
  <2>3. Evolves(users, cred, users', cred')
    BY <1>3, <2>1, <2>2 DEF Evolves
  <2>4. users'[u] # None /\ users'[u].tenant = r.tenant
    BY <1>2, <2>2, NoneAssumption
  <2>5. Tables'
    <3>1. audit # None => Sound(audit, users', cred')
      BY <2>3, SoundStays DEF Inv, Tables
    <3>2. rivals' \subseteq User \X User
      BY <1>1, <1>5, <2>1 DEF Inv, Tables
    <3>. QED
      BY <1>3, <2>2, <3>1, <3>2 DEF Inv, Tables
  <2> DEFINE c == [Blank EXCEPT !.op = r.op, !.pc = "credential",
                                !.user = u, !.tenant = r.tenant]
  <2>6. c \in Request /\ Fits(c, users', cred')
    <3>1. c \in Request
      BY <1>1, <2>1, BlankFits, FieldChange DEF Phase, Operation
    <3>2. c.pc = "credential" /\ c.user = u /\ c.tenant = r.tenant
      BY DEF Blank
    <3> HIDE DEF c
    <3>3. Fits(c, users', cred')
      BY <1>1, <2>1, <2>4, <3>2 DEF Fits, Creating
    <3>. QED
      BY <3>1, <3>3
  <2>7. /\ Logging("USER_CREATE", u, r.tenant) \in Request
        /\ Fits(Logging("USER_CREATE", u, r.tenant), users', cred')
    <3>1. Sound([action |-> "USER_CREATE", user |-> u, tenant |-> r.tenant], users', cred')
      BY <2>1, <2>4 DEF Sound
    <3>. QED
      BY <1>1, <2>1, <3>1, LoggingFits DEF AuditAction
  <2> DEFINE n == IF Fails(o) THEN Blank ELSE inserted(u)
  <2>8. n \in Request /\ Fits(n, users', cred')
    BY <2>6, <2>7, BlankFits
  <2>9. req' = Missing(n, h, u)
    BY <1>5
  <2> HIDE DEF n
  <2>. QED
    BY <2>1, <2>3, <2>5, <2>8, <2>9, MissingFits
<1>. QED
  BY <1>4, <1>5 DEF InsertUser

LEMMA OkApplies ==
    ASSUME NEW o \in DbOutcome, ~Fails(o)
    PROVE  Applied(o)
BY ModeAssumption DEF Fails, Applied

LEMMA InsertCredentialStep ==
    ASSUME Inv, NEW h \in Handler, InsertCredential(h)
    PROVE  Inv'
<1> DEFINE r == req[h]
           action == IF r.op = "Register" THEN "REGISTER" ELSE "USER_CREATE"
<1>1. /\ r.user \in User /\ r.tenant \in Tenant
      /\ users[r.user] # None /\ users[r.user].tenant = r.tenant
  BY DEF InsertCredential, At, Inv, Fits
<1>2. PICK o \in DbOutcome :
        /\ cred' = IF Applied(o) THEN cred \cup {r.user} ELSE cred
        /\ \/ Fails(o) /\ Answer(h, "Internal")
           \/ ~Fails(o) /\ Log(h, action, r.user, r.tenant)
  BY DEF InsertCredential
<1>3. UNCHANGED <<tenants, users, audit, history>>
  BY DEF InsertCredential
<1>4. /\ cred' \subseteq User /\ Evolves(users, cred, users', cred')
      /\ users' \in [User -> UserRow \cup {None}] /\ edited' \subseteq User
      /\ UNCHANGED <<tenants, audit, rivals>>
  BY <1>1, <1>2, <1>3 DEF Inv, Tables, Evolves, history
<1>5. CASE Answer(h, "Internal")
  <2>1. Step(h, Blank)
    BY <1>5 DEF Answer
  <2>. QED
    BY <1>4, <2>1, BlankFits, UserStep
<1>6. CASE ~Fails(o) /\ Log(h, action, r.user, r.tenant)
  <2>1. r.user \in cred'
    BY <1>2, <1>6, OkApplies
  <2>2. action \in AuditAction /\ action \in {"REGISTER", "USER_CREATE"}
    BY DEF AuditAction
  <2>3. Step(h, Logging(action, r.user, r.tenant))
    BY <1>6 DEF Log
  <2> HIDE DEF action
  <2>4. Sound([action |-> action, user |-> r.user, tenant |-> r.tenant], users', cred')
    BY <1>1, <1>3, <2>1, <2>2 DEF Sound
  <2>5. /\ Logging(action, r.user, r.tenant) \in Request
        /\ Fits(Logging(action, r.user, r.tenant), users', cred')
    BY <1>1, <2>2, <2>4, LoggingFits
  <2>. QED
    BY <1>4, <2>3, <2>5, UserStep
<1>. QED
  BY <1>2, <1>5, <1>6

\* What both writes of an account do to it.
LEMMA Rewrite ==
    ASSUME Inv, NEW u \in User, NEW row \in UserRow, LiveUser(u),
           row.tenant = users[u].tenant, row.name = users[u].name,
           users' = [users EXCEPT ![u] = row], cred' = cred
    PROVE  /\ users' \in [User -> UserRow \cup {None}]
           /\ Evolves(users, cred, users', cred')
           /\ users'[u] = row /\ row # None
<1>1. users'[u] = row /\ \A v \in User \ {u} : users'[v] = users[v]
  BY DEF Inv, Tables
<1>2. users' \in [User -> UserRow \cup {None}] /\ row # None
  BY NoneAssumption DEF Inv, Tables
<1>. QED
  BY <1>1, <1>2 DEF Evolves, LiveUser

\* The row that UpdateUser writes, as WriteUser takes it.
LEMMA WriteUserRow ==
    ASSUME Inv, NEW u \in User, NEW row \in UserRow, row.name = users[u].name,
           users' = WriteUser(u, row), cred' = cred
    PROVE  /\ users' \in [User -> UserRow \cup {None}]
           /\ Evolves(users, cred, users', cred')
<1> DEFINE n == [[row EXCEPT !.tenant = users[u].tenant] EXCEPT !.deleted = users[u].deleted]
<1>1. CASE LiveUser(u)
  <2>1. users[u] \in UserRow
    BY <1>1 DEF LiveUser, Inv, Tables
  <2>2. users[u].tenant \in Tenant /\ users[u].deleted \in BOOLEAN
    BY <2>1 DEF UserRow
  <2>3. n \in UserRow /\ n.tenant = users[u].tenant /\ n.name = row.name
    BY <2>2 DEF UserRow
  <2>4. users' = [users EXCEPT ![u] = n]
    BY <1>1 DEF WriteUser
  <2> HIDE DEF n
  <2>. QED
    BY <1>1, <2>3, <2>4, Rewrite
<1>2. CASE ~LiveUser(u)
  BY <1>2, EvolvesRefl DEF WriteUser, Inv, Tables
<1>. QED
  BY <1>1, <1>2

\* What a write leaves behind when it succeeds, or fails.
LEMMA WroteUser ==
    ASSUME Inv, NEW h \in Handler, NEW o \in DbOutcome,
           NEW action \in {"USER_UPDATE", "USER_DELETE"},
           NEW u \in User, NEW t \in Tenant,
           users[u] # None /\ users[u].tenant = t,
           \/ Fails(o) /\ Answer(h, "Internal")
           \/ ~Fails(o) /\ Log(h, action, u, t),
           action = "USER_DELETE" /\ ~Fails(o) => users'[u].deleted,
           users' \in [User -> UserRow \cup {None}], edited' \subseteq User,
           UNCHANGED <<tenants, cred, audit, rivals>>,
           Evolves(users, cred, users', cred')
    PROVE  Inv'
<1>1. cred' \subseteq User
  BY DEF Inv, Tables
<1>2. CASE Answer(h, "Internal")
  <2>1. Step(h, Blank)
    BY <1>2 DEF Answer
  <2>. QED
    BY <1>1, <2>1, BlankFits, UserStep
<1>3. CASE ~Fails(o) /\ Log(h, action, u, t)
  <2>1. Sound([action |-> action, user |-> u, tenant |-> t], users', cred')
    BY <1>3 DEF Sound, Evolves
  <2>2. /\ Logging(action, u, t) \in Request
        /\ Fits(Logging(action, u, t), users', cred')
    BY <2>1, LoggingFits DEF AuditAction
  <2>3. Step(h, Logging(action, u, t))
    BY <1>3 DEF Log
  <2>. QED
    BY <1>1, <2>2, <2>3, UserStep
<1>. QED
  BY <1>2, <1>3

LEMMA UpdateUserWriteStep ==
    ASSUME Inv, NEW h \in Handler, UpdateUserWrite(h)
    PROVE  Inv'
<1> DEFINE r == req[h]
<1>1. /\ r.user \in User /\ r.tenant \in Tenant /\ r.row \in UserRow
      /\ users[r.user] # None /\ users[r.user].tenant = r.tenant
      /\ r.row.name = users[r.user].name
  BY DEF UpdateUserWrite, At, Inv, Fits
<1>2. PICK o \in DbOutcome :
        /\ users' = IF Applied(o) THEN WriteUser(r.user, r.row) ELSE users
        /\ edited' = IF Applied(o) THEN edited \cup {r.user} ELSE edited
        /\ \/ Fails(o) /\ Answer(h, "Internal")
           \/ ~Fails(o) /\ Log(h, "USER_UPDATE", r.user, r.tenant)
  BY DEF UpdateUserWrite
<1>3. UNCHANGED <<tenants, cred, audit, rivals>>
  BY DEF UpdateUserWrite
<1>4. users' \in [User -> UserRow \cup {None}] /\ Evolves(users, cred, users', cred')
  <2>1. CASE Applied(o)
    BY <1>1, <1>2, <1>3, <2>1, WriteUserRow
  <2>2. CASE ~Applied(o)
    BY <1>2, <1>3, <2>2, EvolvesRefl DEF Inv, Tables
  <2>. QED
    BY <2>1, <2>2
<1>5. edited' \subseteq User
  BY <1>1, <1>2 DEF Inv, Tables
<1> HIDE DEF r
<1>. QED
  BY <1>1, <1>2, <1>3, <1>4, <1>5, WroteUser

LEMMA DeleteUserWriteStep ==
    ASSUME Inv, NEW h \in Handler, DeleteUserWrite(h)
    PROVE  Inv'
<1> DEFINE r == req[h]
           u == r.user
           row == [[users[u] EXCEPT !.deleted = TRUE] EXCEPT !.status = "blocked"]
<1>1. /\ u \in User /\ r.tenant \in Tenant
      /\ users[u] # None /\ users[u].tenant = r.tenant
  BY DEF DeleteUserWrite, At, Inv, Fits
<1>2. PICK o \in DbOutcome :
        /\ users' = IF Applied(o) /\ LiveUser(u)
                    THEN [users EXCEPT ![u].deleted = TRUE, ![u].status = "blocked"]
                    ELSE users
        /\ \/ Fails(o) /\ Answer(h, "Internal")
           \/ ~Fails(o) /\ Log(h, "USER_DELETE", u, r.tenant)
  BY DEF DeleteUserWrite
<1>3. UNCHANGED <<tenants, cred, audit, rivals>> /\ edited' \subseteq User
  BY DEF DeleteUserWrite, history, Inv, Tables
<1>4. users \in [User -> UserRow \cup {None}] /\ users[u] \in UserRow
  BY <1>1 DEF Inv, Tables
<1>5. row \in UserRow /\ row.tenant = users[u].tenant /\ row.name = users[u].name /\ row.deleted
  BY <1>4 DEF UserRow, UserStatus
<1>6. CASE Applied(o) /\ LiveUser(u)
  <2>1. users' = [users EXCEPT ![u] = row]
    BY <1>1, <1>2, <1>4, <1>6
  <2> HIDE DEF row
  <2>2. /\ users' \in [User -> UserRow \cup {None}] /\ Evolves(users, cred, users', cred')
        /\ users'[u].deleted
    BY <1>1, <1>3, <1>5, <1>6, <2>1, Rewrite
  <2> HIDE DEF u
  <2>. QED
    BY <1>1, <1>2, <1>3, <2>2, WroteUser
<1>7. CASE ~(Applied(o) /\ LiveUser(u))
  <2>1. users' = users
    BY <1>2, <1>7
  <2>2. ~Fails(o) => users'[u].deleted
    BY <1>1, <1>7, <2>1, OkApplies DEF LiveUser
  <2>3. Evolves(users, cred, users', cred')
    BY <1>3, <2>1, EvolvesRefl
  <2> HIDE DEF u
  <2>. QED
    BY <1>1, <1>2, <1>3, <1>4, <2>1, <2>2, <2>3, WroteUser
<1>. QED
  BY <1>6, <1>7
LEMMA TenantLogged ==
    ASSUME Inv, NEW h \in Handler, NEW t \in Tenant, NEW by \in Actor \cup {None, Zero},
           NEW action \in {"TENANT_CREATE", "TENANT_UPDATE", "TENANT_DELETE"},
           Answer(h, "Internal") \/ Log(h, action, by, t),
           UNCHANGED <<users, cred, audit, history>>,
           tenants' \in [Tenant -> TenantRow \cup {None}]
    PROVE  Inv'
<1>1. CASE Answer(h, "Internal")
  <2>1. Step(h, Blank)
    BY <1>1 DEF Answer
  <2>. QED
    BY <2>1, BlankFits, TenantStep
<1>2. CASE Log(h, action, by, t)
  <2>1. Sound([action |-> action, user |-> by, tenant |-> t], users, cred)
    BY DEF Sound
  <2>2. /\ Logging(action, by, t) \in Request
        /\ Fits(Logging(action, by, t), users, cred)
    BY <2>1, LoggingFits DEF AuditAction
  <2>3. Step(h, Logging(action, by, t))
    BY <1>2 DEF Log
  <2>. QED
    BY <2>2, <2>3, TenantStep
<1>. QED
  BY <1>1, <1>2

LEMMA InsertTenantStep ==
    ASSUME Inv, NEW h \in Handler, InsertTenant(h)
    PROVE  Inv'
<1> DEFINE r == req[h]
           row == [code |-> r.code, domain |-> r.domain, status |-> "active",
                   deleted |-> FALSE]
<1>1. r.code \in Code /\ r.domain \in DomainValue /\ r.actor \in Actor
  BY DEF InsertTenant, At, Inv, Fits
<1>2. row \in TenantRow
  BY <1>1 DEF TenantRow, TenantStatus
<1> HIDE DEF row
<1>3. PICK t \in FreshTenant : \E o \in DbOutcome :
        /\ \/ tenants' = [tenants EXCEPT ![t] = row]
           \/ tenants' = tenants
        /\ Answer(h, "Internal") \/ Log(h, "TENANT_CREATE", r.actor, t)
  BY DEF InsertTenant, row
<1>4. t \in Tenant /\ tenants' \in [Tenant -> TenantRow \cup {None}]
  BY <1>2, <1>3 DEF FreshTenant, Inv, Tables
<1>5. UNCHANGED <<users, cred, audit, history>>
  BY DEF InsertTenant
<1>. QED
  BY <1>1, <1>3, <1>4, <1>5, TenantLogged

LEMMA UpdateTenantWriteStep ==
    ASSUME Inv, NEW h \in Handler, UpdateTenantWrite(h)
    PROVE  Inv'
<1> DEFINE r == req[h]
           t == r.tenant
<1>1. t \in Tenant /\ r.actor \in Actor \cup {Zero} /\ r.row \in TenantRow
  BY DEF UpdateTenantWrite, At, Inv, Fits
<1>2. /\ tenants' = WriteTenant(t, r.row) \/ tenants' = tenants
      /\ Answer(h, "Internal") \/ Log(h, "TENANT_UPDATE", r.actor, t)
      /\ UNCHANGED <<users, cred, audit, history>>
  BY DEF UpdateTenantWrite
<1>3. tenants \in [Tenant -> TenantRow \cup {None}]
  BY DEF Inv, Tables
<1>4. WriteTenant(t, r.row) \in [Tenant -> TenantRow \cup {None}]
  <2> DEFINE row == [r.row EXCEPT !.deleted = tenants[t].deleted]
  <2>1. CASE LiveTenant(t)
    <3>1. tenants[t] \in TenantRow
      BY <1>1, <1>3, <2>1 DEF LiveTenant
    <3>2. tenants[t].deleted \in BOOLEAN
      BY <3>1 DEF TenantRow
    <3>3. row \in TenantRow
      BY <1>1, <3>2 DEF TenantRow
    <3> HIDE DEF row
    <3>4. [tenants EXCEPT ![t] = row] \in [Tenant -> TenantRow \cup {None}]
      BY <1>3, <3>3
    <3>. QED
      BY <2>1, <3>4 DEF WriteTenant, row
  <2>2. CASE ~LiveTenant(t)
    BY <1>3, <2>2 DEF WriteTenant
  <2>. QED
    BY <2>1, <2>2
<1> HIDE DEF t
<1>. QED
  BY <1>1, <1>2, <1>3, <1>4, TenantLogged

LEMMA DeleteTenantWriteStep ==
    ASSUME Inv, NEW h \in Handler, DeleteTenantWrite(h)
    PROVE  Inv'
<1> DEFINE r == req[h]
           t == r.tenant
           row == [[tenants[t] EXCEPT !.deleted = TRUE] EXCEPT !.status = "inactive"]
<1>1. t \in Tenant /\ r.actor = Zero
  BY DEF DeleteTenantWrite, At, Inv, Fits
<1>2. tenants \in [Tenant -> TenantRow \cup {None}]
  BY DEF Inv, Tables
<1>3. PICK o \in DbOutcome :
        /\ tenants' = IF Applied(o) /\ LiveTenant(t)
                      THEN [tenants EXCEPT ![t].deleted = TRUE, ![t].status = "inactive"]
                      ELSE tenants
        /\ \/ Fails(o) /\ Answer(h, "Internal")
           \/ ~Fails(o) /\ Log(h, "TENANT_DELETE", r.actor, t)
  BY DEF DeleteTenantWrite
<1>4. UNCHANGED <<users, cred, audit, history>>
  BY DEF DeleteTenantWrite
<1>5. tenants' \in [Tenant -> TenantRow \cup {None}]
  <2>1. CASE LiveTenant(t)
    <3>1. tenants[t] \in TenantRow
      BY <1>1, <1>2, <2>1 DEF LiveTenant
    <3>2. row \in TenantRow
      BY <3>1 DEF TenantRow, TenantStatus
    <3>3. tenants' = [tenants EXCEPT ![t] = row] \/ tenants' = tenants
      BY <1>1, <1>2, <1>3
    <3> HIDE DEF row
    <3>. QED
      BY <1>2, <3>2, <3>3
  <2>2. CASE ~LiveTenant(t)
    BY <1>2, <1>3, <2>2
  <2>. QED
    BY <2>1, <2>2
<1> HIDE DEF t
<1>. QED
  BY <1>1, <1>3, <1>4, <1>5, TenantLogged

LEMMA AuditStep ==
    ASSUME Inv, NEW h \in Handler, Audit(h)
    PROVE  Inv'
<1> DEFINE e == req[h].log
<1>1. e \in AuditRow /\ Sound(e, users, cred)
  BY DEF Audit, At, Inv, Fits
<1>2. /\ audit' = audit \/ (audit' = e /\ AuditKeys(e))
      /\ Step(h, Blank) /\ UNCHANGED <<tenants, users, cred, history>>
  BY DEF Audit, Answer
<1> HIDE DEF e
<1>3. audit' # None => Sound(audit', users, cred)
  BY <1>1, <1>2 DEF Inv, Tables
<1>4. Tables'
  BY <1>1, <1>2, <1>3 DEF Inv, Tables, history
<1>. QED
  BY <1>2, <1>4, BlankFits, EvolvesRefl, Stepped

LEMMA CrashStep ==
    ASSUME Inv, Crash
    PROVE  Inv'
<1>1. UNCHANGED <<tenants, users, cred, audit, edited, rivals>>
  BY DEF Crash, tables, history
<1>2. req' = [h \in Handler |-> Blank]
  BY DEF Crash
<1>3. Tables'
  BY <1>1 DEF Inv, Tables
<1>4. req' \in [Handler -> Request] /\ \A h \in Handler : req'[h] = Blank
  BY <1>2, BlankFits
<1>. QED
  BY <1>3, <1>4, BlankFits DEF Inv

-----------------------------------------------------------------------------
(* Theorems *)

\* Inv holds always, however requests interleave, statements fail and the
\* process dies.
THEOREM Invariance == Spec => []Inv
<1>1. Init => Inv
  <2> SUFFICES ASSUME Init PROVE Inv
    OBVIOUS
  <2>1. tenants \in [Tenant -> TenantRow \cup {None}]
    BY ModeAssumption DEF Init, TenantRow, TenantStatus, DomainValue
  <2>2. Tables
    BY <2>1 DEF Init, Tables
  <2>. QED
    BY <2>2, BlankFits DEF Init, Inv
<1>2. Inv /\ UNCHANGED vars => Inv'
  <2> SUFFICES ASSUME Inv, UNCHANGED vars PROVE Inv'
    OBVIOUS
  <2>1. UNCHANGED <<tenants, users, cred, audit, edited, rivals, req>>
    BY DEF vars, tables, history
  <2>. QED
    BY <2>1 DEF Inv, Tables
<1>3. ASSUME Inv, NEW h \in Handler, Advance(h) PROVE Inv'
  BY <1>3, CheckSteps, InsertUserStep, InsertCredentialStep, ReadUserStep,
     UpdateUserWriteStep, DeleteUserWriteStep, InsertTenantStep, ReadTenantStep,
     UpdateTenantWriteStep, DeleteTenantWriteStep, AuditStep, Zenon DEF Advance
<1>4. Inv /\ [Next]_vars => Inv'
  BY <1>2, <1>3, ArriveStep, CrashStep, Zenon DEF Next
<1>. QED
  BY <1>1, <1>4, PTL DEF Spec

\* The tables and requests keep their types, for any rows and requests.
THEOREM TypeCorrect == Spec => []TypeOK
<1>1. Inv => TypeOK
  BY DEF Inv, Tables, TypeOK
<1>. QED
  BY <1>1, Invariance, PTL

\* What the audit trail says of accounts is so and stays so, and of a deleted
\* tenant it never says anything.
THEOREM AuditTrailSound == Spec => []AuditSound
<1>1. Inv => AuditSound
  BY DEF Inv, Tables, Sound, AuditSound
<1>. QED
  BY <1>1, Invariance, PTL

-----------------------------------------------------------------------------
(* What steps do to the tables *)

\* One account at a time is inserted, where none was, or written, if not deleted.
LEMMA UserChange ==
    ASSUME Inv, [Next]_vars
    PROVE  \/ users' = users
           \/ \E u \in User, row \in UserRow :
                /\ users' = [users EXCEPT ![u] = row] /\ UNCHANGED <<tenants, cred>>
                /\ \/ users[u] = None /\ ~row.deleted /\ ~UserConflict(row)
                   \/ LiveUser(u) /\ row.name = users[u].name
<1>1. CASE UNCHANGED vars
  BY <1>1 DEF vars, tables
<1>2. CASE Crash
  BY <1>2 DEF Crash, tables
<1>3. ASSUME NEW h \in Handler, Arrive(h) PROVE users' = users
  BY <1>3, Zenon DEF Arrive, Register, CreateUser, DeleteUser, UpdateUser, CreateTenant,
                     DeleteTenant, UpdateTenant, Begin, tables
<1>4. ASSUME NEW h \in Handler, Advance(h),
             ~InsertUser(h), ~UpdateUserWrite(h), ~DeleteUserWrite(h)
      PROVE  users' = users
  BY <1>4, Zenon DEF Advance, CheckTenant, CheckEmail, CheckUsername, InsertCredential,
       ReadUser, CheckCode, CheckDomain, InsertTenant, ReadTenant, UpdateTenantWrite,
       DeleteTenantWrite, Audit, Unless, tables
<1>5. ASSUME NEW h \in Handler, InsertUser(h)
      PROVE  \/ users' = users
             \/ \E u \in User, row \in UserRow :
                  /\ users' = [users EXCEPT ![u] = row] /\ UNCHANGED <<tenants, cred>>
                  /\ users[u] = None /\ ~row.deleted /\ ~UserConflict(row)
  <2> DEFINE r == req[h]
             row == [tenant |-> r.tenant, email |-> r.email, name |-> r.name,
                     status |-> r.status, deleted |-> FALSE]
  <2>1. row \in UserRow /\ ~row.deleted
    BY <1>5 DEF InsertUser, At, Inv, Fits, Creating, UserRow
  <2>2. UNCHANGED <<tenants, cred>>
    BY <1>5 DEF InsertUser
  <2>3. \/ users' = users
        \/ \E u \in FreshUser : ~UserConflict(row) /\ users' = [users EXCEPT ![u] = row]
    BY <1>5 DEF InsertUser
  <2> HIDE DEF row
  <2>. QED
    BY <2>1, <2>2, <2>3 DEF FreshUser
<1>6. ASSUME NEW h \in Handler, UpdateUserWrite(h)
      PROVE  \/ users' = users
             \/ \E u \in User, row \in UserRow :
                  /\ users' = [users EXCEPT ![u] = row] /\ UNCHANGED <<tenants, cred>>
                  /\ LiveUser(u) /\ row.name = users[u].name
  <2> DEFINE r == req[h]
             u == r.user
             row == [[r.row EXCEPT !.tenant = users[u].tenant] EXCEPT !.deleted = users[u].deleted]
  <2>1. u \in User /\ r.row \in UserRow /\ r.row.name = users[u].name
    BY <1>6 DEF UpdateUserWrite, At, Inv, Fits
  <2>2. UNCHANGED <<tenants, cred>>
    BY <1>6 DEF UpdateUserWrite
  <2>3. users' = users \/ (LiveUser(u) /\ users' = [users EXCEPT ![u] = row])
    BY <1>6 DEF UpdateUserWrite, WriteUser
  <2>4. LiveUser(u) => row \in UserRow /\ row.name = users[u].name
    <3>1. LiveUser(u) => users[u] \in UserRow
      BY <2>1 DEF LiveUser, Inv, Tables
    <3>2. LiveUser(u) => users[u].tenant \in Tenant /\ users[u].deleted \in BOOLEAN
      BY <3>1 DEF UserRow
    <3>. QED
      BY <2>1, <3>2 DEF UserRow
  <2> HIDE DEF row, u
  <2>. QED
    BY <2>1, <2>2, <2>3, <2>4
<1>7. ASSUME NEW h \in Handler, DeleteUserWrite(h)
      PROVE  \/ users' = users
             \/ \E u \in User, row \in UserRow :
                  /\ users' = [users EXCEPT ![u] = row] /\ UNCHANGED <<tenants, cred>>
                  /\ LiveUser(u) /\ row.name = users[u].name
  <2> DEFINE u == req[h].user
             row == [[users[u] EXCEPT !.deleted = TRUE] EXCEPT !.status = "blocked"]
  <2>1. u \in User /\ users \in [User -> UserRow \cup {None}]
    BY <1>7 DEF DeleteUserWrite, At, Inv, Fits, Tables
  <2>2. UNCHANGED <<tenants, cred>>
    BY <1>7 DEF DeleteUserWrite
  <2>3. \/ users' = users
        \/ LiveUser(u) /\ users' = [users EXCEPT ![u].deleted = TRUE, ![u].status = "blocked"]
    BY <1>7 DEF DeleteUserWrite
  <2>4. LiveUser(u) => users[u] \in UserRow
    BY <2>1 DEF LiveUser
  <2>5. LiveUser(u) => row \in UserRow /\ row.name = users[u].name
    BY <2>4 DEF UserRow, UserStatus
  <2>6. users' = users \/ (LiveUser(u) /\ users' = [users EXCEPT ![u] = row])
    BY <2>1, <2>3, <2>4
  <2> HIDE DEF row, u
  <2>. QED
    BY <2>1, <2>2, <2>5, <2>6
<1>8. ASSUME NEW h \in Handler, Advance(h)
      PROVE  users' = users \/ InsertUser(h) \/ UpdateUserWrite(h) \/ DeleteUserWrite(h)
  BY <1>4, <1>8
<1>. QED
  BY <1>1, <1>2, <1>3, <1>5, <1>6, <1>7, <1>8 DEF Next

\* So with tenants; their unique columns are checked, or stay.
LEMMA TenantChange ==
    ASSUME Inv, [Next]_vars
    PROVE  \/ tenants' = tenants
           \/ \E t \in Tenant, row \in TenantRow :
                /\ tenants' = [tenants EXCEPT ![t] = row] /\ UNCHANGED <<users, cred>>
                /\ tenants[t] = None \/ LiveTenant(t)
                /\ \/ ~TenantConflict(t, row)
                   \/ /\ LiveTenant(t)
                      /\ row.code = tenants[t].code /\ row.domain = tenants[t].domain
<1>1. CASE UNCHANGED vars \/ Crash
  BY <1>1 DEF vars, Crash, tables
<1>3. ASSUME NEW h \in Handler, Arrive(h) PROVE tenants' = tenants
  BY <1>3, Zenon DEF Arrive, Register, CreateUser, DeleteUser, UpdateUser, CreateTenant,
                     DeleteTenant, UpdateTenant, Begin, tables
<1>4. ASSUME NEW h \in Handler, Advance(h),
             ~InsertTenant(h), ~UpdateTenantWrite(h), ~DeleteTenantWrite(h)
      PROVE  tenants' = tenants
  BY <1>4, Zenon DEF Advance, CheckTenant, CheckEmail, CheckUsername, InsertCredential,
       InsertUser, UpdateUserWrite, DeleteUserWrite,
       ReadUser, CheckCode, CheckDomain, ReadTenant, Audit, Unless, tables
<1>5. ASSUME NEW h \in Handler, InsertTenant(h)
      PROVE  \/ tenants' = tenants
             \/ \E t \in Tenant, row \in TenantRow :
                  /\ tenants' = [tenants EXCEPT ![t] = row] /\ UNCHANGED <<users, cred>>
                  /\ tenants[t] = None /\ ~TenantConflict(t, row)
  <2> DEFINE r == req[h]
             row == [code |-> r.code, domain |-> r.domain, status |-> "active",
                     deleted |-> FALSE]
  <2>1. row \in TenantRow
    BY <1>5 DEF InsertTenant, At, Inv, Fits, TenantRow, TenantStatus
  <2>2. \/ tenants' = tenants
        \/ \E t \in FreshTenant : ~TenantConflict(t, row) /\ tenants' = [tenants EXCEPT ![t] = row]
    BY <1>5 DEF InsertTenant
  <2>3. UNCHANGED <<users, cred>>
    BY <1>5 DEF InsertTenant
  <2> HIDE DEF row
  <2>. QED
    BY <2>1, <2>2, <2>3 DEF FreshTenant
<1>6. ASSUME NEW h \in Handler, UpdateTenantWrite(h)
      PROVE  \/ tenants' = tenants
             \/ \E t \in Tenant, row \in TenantRow :
                  /\ tenants' = [tenants EXCEPT ![t] = row] /\ UNCHANGED <<users, cred>>
                  /\ LiveTenant(t) /\ ~TenantConflict(t, row)
  <2> DEFINE r == req[h]
             t == r.tenant
             row == [r.row EXCEPT !.deleted = tenants[t].deleted]
  <2>1. t \in Tenant /\ r.row \in TenantRow
    BY <1>6 DEF UpdateTenantWrite, At, Inv, Fits
  <2>2. UNCHANGED <<users, cred>>
    BY <1>6 DEF UpdateTenantWrite
  <2>3. \/ tenants' = tenants
        \/ LiveTenant(t) /\ ~TenantConflict(t, r.row) /\ tenants' = [tenants EXCEPT ![t] = row]
    BY <1>6 DEF UpdateTenantWrite, WriteTenant
  <2>4. LiveTenant(t) => tenants[t].deleted \in BOOLEAN
    <3>1. LiveTenant(t) => tenants[t] \in TenantRow
      BY <2>1 DEF LiveTenant, Inv, Tables
    <3>. QED
      BY <3>1 DEF TenantRow
  <2>5. /\ LiveTenant(t) => row \in TenantRow
        /\ row.code = r.row.code /\ row.domain = r.row.domain
    BY <2>1, <2>4 DEF TenantRow
  <2> HIDE DEF row
  <2>6. TenantConflict(t, row) => TenantConflict(t, r.row)
    BY <2>5 DEF TenantConflict
  <2> HIDE DEF t, r
  <2>. QED
    BY <2>1, <2>2, <2>3, <2>5, <2>6 DEF r
<1>7. ASSUME NEW h \in Handler, DeleteTenantWrite(h)
      PROVE  \/ tenants' = tenants
             \/ \E t \in Tenant, row \in TenantRow :
                  /\ tenants' = [tenants EXCEPT ![t] = row] /\ UNCHANGED <<users, cred>>
                  /\ LiveTenant(t)
                  /\ row.code = tenants[t].code /\ row.domain = tenants[t].domain
  <2> DEFINE t == req[h].tenant
             row == [[tenants[t] EXCEPT !.deleted = TRUE] EXCEPT !.status = "inactive"]
  <2>1. t \in Tenant /\ tenants \in [Tenant -> TenantRow \cup {None}]
    BY <1>7 DEF DeleteTenantWrite, At, Inv, Fits, Tables
  <2>2. UNCHANGED <<users, cred>>
    BY <1>7 DEF DeleteTenantWrite
  <2>3. \/ tenants' = tenants
        \/ /\ LiveTenant(t)
           /\ tenants' = [tenants EXCEPT ![t].deleted = TRUE, ![t].status = "inactive"]
    BY <1>7 DEF DeleteTenantWrite
  <2>4. LiveTenant(t) => tenants[t] \in TenantRow
    BY <2>1 DEF LiveTenant
  <2>5. LiveTenant(t) => /\ row \in TenantRow
                         /\ row.code = tenants[t].code /\ row.domain = tenants[t].domain
    BY <2>4 DEF TenantRow, TenantStatus
  <2>6. tenants' = tenants \/ (LiveTenant(t) /\ tenants' = [tenants EXCEPT ![t] = row])
    BY <2>1, <2>3, <2>4
  <2> HIDE DEF row, t
  <2>. QED
    BY <2>1, <2>2, <2>5, <2>6
<1>8. ASSUME NEW h \in Handler, Advance(h)
      PROVE  tenants' = tenants \/ InsertTenant(h) \/ UpdateTenantWrite(h) \/ DeleteTenantWrite(h)
  BY <1>4, <1>8
<1>. QED
  BY <1>1, <1>3, <1>5, <1>6, <1>7, <1>8 DEF Next

-----------------------------------------------------------------------------
(* Names *)

\* No two accounts share a username, no two tenants, the deleted ones
\* included, a code or a domain, whatever races the checks lose.
THEOREM NamesStayDistinct == Spec => []NamesDistinct
<1>1. Init => NamesDistinct
  BY DEF Init, NamesDistinct, LiveUser
<1> DEFINE Users == \A u, v \in User :
              u # v /\ LiveUser(u) /\ LiveUser(v) => users[u].name # users[v].name
           Tenants == \A s, t \in Tenant :
              s # t /\ tenants[s] # None /\ tenants[t] # None =>
                /\ tenants[s].code # tenants[t].code
                /\ tenants[s].domain = tenants[t].domain => tenants[s].domain = None
<1>2. ASSUME Inv, Users, [Next]_vars PROVE Users'
  <2>1. CASE users' = users
    BY <1>2, <2>1 DEF LiveUser
  <2>2. ASSUME NEW u \in User, NEW row \in UserRow, users' = [users EXCEPT ![u] = row],
               \/ users[u] = None /\ ~UserConflict(row)
               \/ LiveUser(u) /\ row.name = users[u].name
        PROVE  Users'
    <3>1. users'[u] = row /\ \A v \in User \ {u} : users'[v] = users[v]
      BY <1>2, <2>2 DEF Inv, Tables
    <3>2. ASSUME NEW v \in User \ {u}, LiveUser(v) PROVE users[v].name # row.name
      BY <1>2, <2>2, <3>2 DEF UserConflict, GetByUsername
    <3>. QED
      BY <1>2, <3>1, <3>2 DEF LiveUser
  <2>. QED
    BY <1>2, <2>1, <2>2, UserChange
<1>3. ASSUME Inv, Tenants, [Next]_vars PROVE Tenants'
  <2>1. CASE tenants' = tenants
    BY <1>3, <2>1
  <2>2. ASSUME NEW t \in Tenant, NEW row \in TenantRow, tenants' = [tenants EXCEPT ![t] = row],
               \/ ~TenantConflict(t, row)
               \/ /\ LiveTenant(t)
                  /\ row.code = tenants[t].code /\ row.domain = tenants[t].domain
        PROVE  Tenants'
    <3>1. tenants'[t] = row /\ \A s \in Tenant \ {t} : tenants'[s] = tenants[s]
      BY <1>3, <2>2 DEF Inv, Tables
    <3>2. ASSUME NEW s \in Tenant \ {t}, tenants[s] # None
          PROVE  /\ tenants[s].code # row.code
                 /\ tenants[s].domain = row.domain => row.domain = None
      BY <1>3, <2>2, <3>2 DEF TenantConflict, LiveTenant
    <3>. QED
      BY <1>3, <3>1, <3>2
  <2>. QED
    BY <1>3, <2>1, <2>2, TenantChange
<1>4. NamesDistinct <=> Users /\ Tenants
  BY DEF NamesDistinct
<1> HIDE DEF Users, Tenants
<1>5. Inv /\ NamesDistinct /\ [Next]_vars => NamesDistinct'
  <2>1. NamesDistinct' <=> Users' /\ Tenants'
    BY DEF NamesDistinct, Users, Tenants
  <2>. QED
    BY <1>2, <1>3, <1>4, <2>1
<1>. QED
  BY <1>1, <1>5, Invariance, PTL DEF Spec
-----------------------------------------------------------------------------
(* The life of accounts *)

\* What AccountLife is given as state, and its part of one account.
StateOf(u) ==
    IF users[u] = None THEN "absent"
    ELSE IF users[u].deleted THEN "deleted"
    ELSE IF users[u].status = "active" THEN "active"
    ELSE "inactive"

States == [u \in User |-> StateOf(u)]

LEMMA CredChange ==
    ASSUME Inv, [Next]_vars
    PROVE  \/ cred' = cred
           \/ /\ UNCHANGED users
              /\ \E u \in User : users[u] # None /\ cred' = cred \cup {u}
<1>1. CASE UNCHANGED vars \/ Crash
  BY <1>1 DEF vars, Crash, tables
<1>2. ASSUME NEW h \in Handler, Arrive(h) PROVE cred' = cred
  BY <1>2, Zenon DEF Arrive, Register, CreateUser, DeleteUser, UpdateUser, CreateTenant,
                     DeleteTenant, UpdateTenant, Begin, tables
<1>3. ASSUME NEW h \in Handler, Advance(h), ~InsertCredential(h) PROVE cred' = cred
  BY <1>3, Zenon DEF Advance, CheckTenant, CheckEmail, CheckUsername,
       InsertUser, UpdateUserWrite, DeleteUserWrite, InsertTenant, UpdateTenantWrite,
       DeleteTenantWrite, ReadUser, CheckCode, CheckDomain, ReadTenant, Audit, Unless, tables
<1>4. ASSUME NEW h \in Handler, InsertCredential(h)
      PROVE  \/ cred' = cred
             \/ /\ UNCHANGED users
                /\ \E u \in User : users[u] # None /\ cred' = cred \cup {u}
  <2>1. req[h].user \in User /\ users[req[h].user] # None
    BY <1>4 DEF InsertCredential, At, Inv, Fits
  <2>2. UNCHANGED users /\ (cred' = cred \/ cred' = cred \cup {req[h].user})
    BY <1>4 DEF InsertCredential
  <2>. QED
    BY <2>1, <2>2
<1>. QED
  BY <1>1, <1>2, <1>3, <1>4 DEF Next

\* However requests interleave, accounts live as AccountLife says: what
\* UpdateUser writes back never undoes a deletion, and no password is lost.
THEOREM LivesAsPromised == Spec => LifeKept
<1>1. Init => Life!Init
  <2> SUFFICES ASSUME Init PROVE Life!Init
    OBVIOUS
  <2>1. States \in [User -> Life!State]
    BY DEF States, StateOf, Life!State
  <2>2. cred \subseteq User
    BY DEF Init
  <2>. QED
    BY <2>1, <2>2 DEF Life!Init, States, StateOf
<1>2. ASSUME Inv, [Next]_vars PROVE [Life!Next]_Life!vars
  <2>1. CASE users' = users /\ cred' = cred
    <3>1. States' = States
      BY <2>1 DEF States, StateOf
    <3>. QED
      BY <2>1, <3>1 DEF Life!vars, States, StateOf
  <2>2. ASSUME UNCHANGED users, NEW u \in User, users[u] # None, cred' = cred \cup {u}
        PROVE  Life!Enrol(u)
    <3>1. States' = States /\ States[u] # "absent"
      BY <2>2 DEF States, StateOf
    <3>. QED
      BY <2>2, <3>1 DEF Life!Enrol, States, StateOf
  <2>3. ASSUME NEW u \in User, NEW row \in UserRow, users' = [users EXCEPT ![u] = row],
               UNCHANGED cred, (users[u] = None /\ ~row.deleted) \/ LiveUser(u)
        PROVE  Life!Appear(u) \/ Life!Change(u)
    <3>1. /\ users \in [User -> UserRow \cup {None}] /\ row # None
          /\ users'[u] = row /\ \A v \in User \ {u} : users'[v] = users[v]
      BY <1>2, <2>3, NoneAssumption DEF Inv, Tables
    <3>2. PICK s \in {"active", "inactive", "deleted"} :
             StateOf(u)' = s /\ (s = "deleted" <=> row.deleted)
      BY <3>1 DEF StateOf
    <3>3. \A v \in User \ {u} : StateOf(v)' = StateOf(v)
      BY <3>1 DEF StateOf
    <3>4. States' = [States EXCEPT ![u] = s]
      BY <3>2, <3>3 DEF States
    <3>5. CASE users[u] = None /\ ~row.deleted
      <4>1. States[u] = "absent" /\ s \in {"active", "inactive"}
        BY <3>2, <3>5 DEF States, StateOf
      <4>. QED
        BY <2>3, <3>4, <4>1 DEF Life!Appear, States, StateOf
    <3>6. CASE LiveUser(u)
      <4>1. States[u] \in {"active", "inactive"}
        BY <3>6 DEF States, StateOf, LiveUser
      <4>. QED
        BY <2>3, <3>4, <4>1 DEF Life!Change, States, StateOf
    <3>. QED
      BY <2>3, <3>5, <3>6
  <2>4. CASE users' = users
    BY <1>2, <2>1, <2>2, <2>4, CredChange DEF Life!Next
  <2>. QED
    BY <1>2, <2>3, <2>4, UserChange DEF Life!Next
<1>. QED
  BY <1>1, <1>2, Invariance, PTL DEF Spec, LifeKept, Life!Spec
-----------------------------------------------------------------------------
(* What steps do to the locals of creations *)

Deleted == {t \in Tenant : tenants[t] # None /\ tenants[t].deleted}

\* The creations that have found their tenant active.
Checked == {"email", "name", "insert_user"}

\* A request begins, or does something else than pass a check of a creation.
Turns(h) == \E r : Step(h, r) /\ r.pc \notin Checked /\ r.gone \subseteq Deleted \cup req[h].gone

Passes(h) ==
    /\ UNCHANGED users
    /\ \/ At(h, "tenant") /\ LiveTenant(req[h].tenant) /\ Goto(h, "email")
       \/ /\ At(h, "email") /\ Goto(h, "name")
          /\ GetByEmailAndTenant(req[h].email, req[h].tenant) = {}
       \/ At(h, "name") /\ Goto(h, "insert_user")

Moves ==
    \/ UNCHANGED req
    \/ req' = [h \in Handler |-> Blank]
    \/ \E h \in Handler : Turns(h) \/ Passes(h)

Rewrites ==
    /\ UNCHANGED rivals /\ edited \subseteq edited'
    /\ \/ UNCHANGED users
       \/ \E u \in User : \E row :
            /\ LiveUser(u) /\ users' = [users EXCEPT ![u] = row]
            /\ u \in edited' \/ row.deleted

Inserts ==
    \E h \in Handler, u \in User : \E r, row :
        /\ At(h, "insert_user") /\ users[u] = None
        /\ row.tenant = req[h].tenant /\ row.email = req[h].email
        /\ users' = [users EXCEPT ![u] = row]
        /\ rivals' = rivals \cup (req[h].missed \X {u})
        /\ r.pc \notin Checked /\ r.gone = {}
        /\ req' = Missing(r, h, u)
        /\ UNCHANGED <<tenants, edited>>

LEMMA BlankFacts ==
    /\ Blank.pc \notin Checked /\ Blank.gone = {}
    /\ \A a, u, t : Logging(a, u, t).pc \notin Checked /\ Logging(a, u, t).gone = {}
BY DEF Blank, Logging, Checked

LEMMA AnswerTurns ==
    ASSUME NEW h \in Handler, \/ \E a : Answer(h, a)
                              \/ \E a, u, t : Log(h, a, u, t)
    PROVE  Turns(h)
BY BlankFacts, Zenon DEF Answer, Log, Turns

LEMMA ArriveTurns ==
    ASSUME Inv, NEW h \in Handler, Arrive(h)
    PROVE  Turns(h) /\ UNCHANGED <<users, history>>
<1>1. UNCHANGED <<users, history>>
  BY Zenon DEF Arrive, Register, CreateUser, DeleteUser, UpdateUser, CreateTenant,
               DeleteTenant, UpdateTenant, Begin, tables
<1>2. ASSUME NEW r, Begin(h, r), {"pc", "gone"} \subseteq DOMAIN r, r.pc \notin Checked
      PROVE  Turns(h)
  <2> DEFINE n == [r EXCEPT !.gone = Deleted]
  <2>1. Step(h, n)
    BY <1>2 DEF Begin, Deleted
  <2>2. n.pc \notin Checked /\ n.gone \subseteq Deleted
    BY <1>2
  <2>. QED
    BY <2>1, <2>2 DEF Turns
<1>3. ASSUME NEW t, NEW e, NEW n, Register(h, t, e, n) PROVE Turns(h)
  <2> DEFINE r == [Blank EXCEPT !.op = "Register", !.pc = "tenant", !.tenant = t, !.email = e,
                              !.name = n, !.status = "pending", !.pw = TRUE]
  <2>1. {"pc", "gone"} \subseteq DOMAIN r /\ r.pc = "tenant"
    BY DEF Blank
  <2>2. Begin(h, r)
    BY <1>3 DEF Register
  <2> HIDE DEF r
  <2>. QED
    BY <1>2, <2>1, <2>2 DEF Checked
<1>4. ASSUME NEW t, NEW e, NEW n, NEW st, NEW pw, CreateUser(h, t, e, n, st, pw) PROVE Turns(h)
  <2> DEFINE r == [Blank EXCEPT !.op = "CreateUser", !.pc = "tenant", !.tenant = t,
                   !.email = e, !.name = n, !.pw = pw,
                   !.status = IF st = "blocked" THEN "active" ELSE st]
  <2>1. {"pc", "gone"} \subseteq DOMAIN r /\ r.pc = "tenant"
    BY DEF Blank
  <2>2. Begin(h, r)
    BY <1>4 DEF CreateUser
  <2> HIDE DEF r
  <2>. QED
    BY <1>2, <2>1, <2>2 DEF Checked
<1>5. ASSUME NEW u, NEW e, NEW st, UpdateUser(h, u, e, st) PROVE Turns(h)
  <2> DEFINE r == [Blank EXCEPT !.op = "UpdateUser", !.pc = "user_read", !.user = u,
                              !.email = e, !.status = st]
  <2>1. {"pc", "gone"} \subseteq DOMAIN r /\ r.pc = "user_read"
    BY DEF Blank
  <2>2. Begin(h, r)
    BY <1>5 DEF UpdateUser
  <2> HIDE DEF r
  <2>. QED
    BY <1>2, <2>1, <2>2 DEF Checked
<1>6. ASSUME NEW u, DeleteUser(h, u) PROVE Turns(h)
  <2> DEFINE r == [Blank EXCEPT !.op = "DeleteUser", !.pc = "user_read", !.user = u]
  <2>1. {"pc", "gone"} \subseteq DOMAIN r /\ r.pc = "user_read"
    BY DEF Blank
  <2>2. Begin(h, r)
    BY <1>6 DEF DeleteUser
  <2> HIDE DEF r
  <2>. QED
    BY <1>2, <2>1, <2>2 DEF Checked
<1>7. ASSUME NEW c, NEW d, NEW by, CreateTenant(h, c, d, by) PROVE Turns(h)
  <2> DEFINE r == [Blank EXCEPT !.op = "CreateTenant", !.pc = "code", !.code = c,
                              !.domain = d, !.actor = by]
  <2>1. {"pc", "gone"} \subseteq DOMAIN r /\ r.pc = "code"
    BY DEF Blank
  <2>2. Begin(h, r)
    BY <1>7 DEF CreateTenant
  <2> HIDE DEF r
  <2>. QED
    BY <1>2, <2>1, <2>2 DEF Checked
<1>8. ASSUME NEW t, NEW d, NEW st, NEW by, UpdateTenant(h, t, d, st, by) PROVE Turns(h)
  <2> DEFINE r == [Blank EXCEPT !.op = "UpdateTenant", !.pc = "tenant_read",
                              !.tenant = t, !.domain = d, !.status = st, !.actor = by]
  <2>1. {"pc", "gone"} \subseteq DOMAIN r /\ r.pc = "tenant_read"
    BY DEF Blank
  <2>2. Begin(h, r)
    BY <1>8 DEF UpdateTenant
  <2> HIDE DEF r
  <2>. QED
    BY <1>2, <2>1, <2>2 DEF Checked
<1>9. ASSUME NEW t, DeleteTenant(h, t) PROVE Turns(h)
  <2> DEFINE r == [Blank EXCEPT !.op = "DeleteTenant", !.pc = "tenant_read", !.tenant = t,
                              !.actor = Zero]
  <2>1. {"pc", "gone"} \subseteq DOMAIN r /\ r.pc = "tenant_read"
    BY DEF Blank
  <2>2. Begin(h, r)
    BY <1>9 DEF DeleteTenant
  <2> HIDE DEF r
  <2>. QED
    BY <1>2, <2>1, <2>2 DEF Checked
<1>. QED
  BY <1>1, <1>3, <1>4, <1>5, <1>6, <1>7, <1>8, <1>9, Zenon DEF Arrive
LEMMA UnlessTurns ==
    ASSUME NEW h \in Handler, NEW found, NEW p, Unless(h, found, p)
    PROVE  Turns(h) \/ (found = {} /\ Goto(h, p))
BY AnswerTurns, Zenon DEF Unless

LEMMA CheckMoves ==
    ASSUME Inv, NEW h \in Handler,
           CheckTenant(h) \/ CheckEmail(h) \/ CheckUsername(h) \/ CheckCode(h) \/ CheckDomain(h)
    PROVE  Rewrites /\ Moves
<1>1. UNCHANGED <<tenants, users, edited, rivals>>
  BY Zenon DEF CheckTenant, CheckEmail, CheckUsername, CheckCode, CheckDomain, Unless,
               tables, history
<1>2. Rewrites
  BY <1>1 DEF Rewrites
<1>3. Turns(h) \/ Passes(h)
  <2>1. CASE CheckTenant(h)
    <3>1. \/ \E a : Answer(h, a)
          \/ At(h, "tenant") /\ LiveTenant(req[h].tenant) /\ Goto(h, "email")
      BY <2>1, Zenon DEF CheckTenant
    <3>. QED
      BY <1>1, <3>1, AnswerTurns DEF Passes
  <2>2. CASE CheckEmail(h)
    BY <1>1, <2>2, UnlessTurns DEF CheckEmail, Passes
  <2>3. CASE CheckUsername(h)
    BY <1>1, <2>3, UnlessTurns DEF CheckUsername, Passes
  <2>4. CASE CheckCode(h) \/ CheckDomain(h)
    <3>1. PICK found, p : Unless(h, found, p) /\ p \in {"domain", "insert_tenant"}
      BY <2>4 DEF CheckCode, CheckDomain
    <3>2. CASE Goto(h, p)
      <4> DEFINE n == [req[h] EXCEPT !.pc = p]
      <4>1. Step(h, n)
        BY <3>2 DEF Goto
      <4>2. n.pc = p /\ n.gone = req[h].gone
        BY DEF Inv, Request
      <4>. QED
        BY <3>1, <4>1, <4>2 DEF Turns, Checked
    <3>. QED
      BY <3>1, <3>2, UnlessTurns
  <2>. QED
    BY <2>1, <2>2, <2>3, <2>4
<1>. QED
  BY <1>2, <1>3 DEF Moves

LEMMA ReadMoves ==
    ASSUME NEW h \in Handler, ReadUser(h) \/ ReadTenant(h)
    PROVE  Rewrites /\ Moves
<1>1. UNCHANGED <<users, edited, rivals>>
  BY Zenon DEF ReadUser, ReadTenant, tables, history
<1>2. ASSUME ReadUser(h) PROVE Turns(h)
  <2> DEFINE u == req[h].user
             row == [users[u] EXCEPT !.email = Given(req[h].email, @),
                                     !.status = Given(req[h].status, @)]
             next == [Blank EXCEPT !.op = req[h].op, !.user = u, !.tenant = users[u].tenant]
             a == [next EXCEPT !.pc = "user_write", !.row = row]
             d == [next EXCEPT !.pc = "user_delete"]
  <2>1. (\E x : Answer(h, x)) \/ Step(h, a) \/ Step(h, d)
    BY <1>2, Zenon DEF ReadUser
  <2> HIDE DEF row
  <2>2. a.pc = "user_write" /\ d.pc = "user_delete" /\ a.gone = {} /\ d.gone = {}
    BY DEF Blank
  <2> HIDE DEF a, d
  <2>. QED
    BY <2>1, <2>2, AnswerTurns DEF Turns, Checked
<1>3. ASSUME ReadTenant(h) PROVE Turns(h)
  <2> DEFINE t == req[h].tenant
             row == [tenants[t] EXCEPT !.domain = Given(req[h].domain, @),
                                       !.status = Given(req[h].status, @)]
             next == [Blank EXCEPT !.op = req[h].op, !.tenant = t, !.actor = req[h].actor]
             a == [next EXCEPT !.pc = "tenant_write", !.row = row]
             d == [next EXCEPT !.pc = "tenant_delete"]
  <2>1. (\E x : Answer(h, x)) \/ Step(h, a) \/ Step(h, d)
    BY <1>3, Zenon DEF ReadTenant
  <2> HIDE DEF row
  <2>2. a.pc = "tenant_write" /\ d.pc = "tenant_delete" /\ a.gone = {} /\ d.gone = {}
    BY DEF Blank
  <2> HIDE DEF a, d
  <2>. QED
    BY <2>1, <2>2, AnswerTurns DEF Turns, Checked
<1>. QED
  BY <1>1, <1>2, <1>3 DEF Rewrites, Moves

LEMMA InsertUserMoves ==
    ASSUME Inv, NEW h \in Handler, InsertUser(h)
    PROVE  Inserts \/ (Rewrites /\ Moves)
<1> DEFINE r == req[h]
           row == [tenant |-> r.tenant, email |-> r.email, name |-> r.name,
                   status |-> r.status, deleted |-> FALSE]
           c(u) == [Blank EXCEPT !.op = r.op, !.pc = "credential",
                                 !.user = u, !.tenant = r.tenant]
           l(u) == Logging("USER_CREATE", u, r.tenant)
<1>1. At(h, "insert_user") /\ UNCHANGED <<tenants, cred, audit, edited>>
  BY DEF InsertUser
<1>2. \/ (\E a : Answer(h, a)) /\ UNCHANGED <<users, rivals>>
      \/ \E u \in FreshUser :
           /\ users' = [users EXCEPT ![u] = row]
           /\ rivals' = rivals \cup (r.missed \X {u})
           /\ \/ req' = Missing(Blank, h, u)
              \/ req' = Missing(c(u), h, u)
              \/ req' = Missing(l(u), h, u)
  BY DEF InsertUser
<1>3. CASE (\E a : Answer(h, a)) /\ UNCHANGED <<users, rivals>>
  BY <1>1, <1>3, AnswerTurns DEF Rewrites, Moves
<1>4. ASSUME NEW u \in FreshUser, users' = [users EXCEPT ![u] = row],
             rivals' = rivals \cup (r.missed \X {u}),
             \/ req' = Missing(Blank, h, u)
             \/ req' = Missing(c(u), h, u)
             \/ req' = Missing(l(u), h, u)
      PROVE  Inserts
  <2>1. u \in User /\ users[u] = None /\ row.tenant = r.tenant /\ row.email = r.email
    BY DEF FreshUser
  <2>2. c(u).pc \notin Checked /\ c(u).gone = {}
    BY DEF Blank, Checked
  <2>3. PICK n : n.pc \notin Checked /\ n.gone = {} /\ req' = Missing(n, h, u)
    <3> HIDE DEF c
    <3>. QED
      BY <1>4, <2>2, BlankFacts
  <2> HIDE DEF row, c, l
  <2>. QED
    BY <1>1, <1>4, <2>1, <2>3 DEF Inserts
<1> HIDE DEF row, c, l
<1>. QED
  BY <1>2, <1>3, <1>4

LEMMA WriteMoves ==
    ASSUME Inv, NEW h \in Handler,
           UpdateUserWrite(h) \/ DeleteUserWrite(h) \/ InsertCredential(h) \/ InsertTenant(h)
             \/ UpdateTenantWrite(h) \/ DeleteTenantWrite(h) \/ Audit(h)
    PROVE  Rewrites /\ Moves
<1>1. Turns(h)
  <2>1. (\E a : Answer(h, a)) \/ (\E a, u, t : Log(h, a, u, t))
    BY Zenon DEF UpdateUserWrite, DeleteUserWrite, InsertCredential, InsertTenant,
                 UpdateTenantWrite, DeleteTenantWrite, Audit
  <2>. QED
    BY <2>1, AnswerTurns
<1>2. CASE UpdateUserWrite(h)
  <2> DEFINE u == req[h].user
             row == [req[h].row EXCEPT !.tenant = users[u].tenant, !.deleted = users[u].deleted]
  <2>1. u \in User /\ UNCHANGED rivals /\ edited \subseteq edited'
    BY <1>2 DEF UpdateUserWrite, At, Inv, Fits
  <2>2. \/ UNCHANGED users
        \/ LiveUser(u) /\ users' = [users EXCEPT ![u] = row] /\ u \in edited'
    BY <1>2 DEF UpdateUserWrite, WriteUser
  <2> HIDE DEF row, u
  <2>. QED
    BY <1>1, <2>1, <2>2 DEF Rewrites, Moves
<1>3. CASE DeleteUserWrite(h)
  <2> DEFINE u == req[h].user
             row == [[users[u] EXCEPT !.deleted = TRUE] EXCEPT !.status = "blocked"]
  <2>1. u \in User /\ UNCHANGED rivals /\ edited \subseteq edited'
    BY <1>3 DEF DeleteUserWrite, At, Inv, Fits, history
  <2>2. users \in [User -> UserRow \cup {None}]
    BY DEF Inv, Tables
  <2>3. \/ UNCHANGED users
        \/ LiveUser(u) /\ users' = [users EXCEPT ![u].deleted = TRUE, ![u].status = "blocked"]
    BY <1>3 DEF DeleteUserWrite
  <2>4. LiveUser(u) => users[u] \in UserRow
    BY <2>1, <2>2 DEF LiveUser
  <2>5. LiveUser(u) => row.deleted
    BY <2>4 DEF UserRow
  <2>6. UNCHANGED users \/ (LiveUser(u) /\ users' = [users EXCEPT ![u] = row])
    BY <2>1, <2>2, <2>3, <2>4
  <2> HIDE DEF row, u
  <2>. QED
    BY <1>1, <2>1, <2>5, <2>6 DEF Rewrites, Moves
<1>4. CASE InsertCredential(h) \/ InsertTenant(h) \/ UpdateTenantWrite(h)
             \/ DeleteTenantWrite(h) \/ Audit(h)
  <2>1. UNCHANGED <<users, edited, rivals>>
    BY <1>4, Zenon DEF InsertCredential, InsertTenant, UpdateTenantWrite, DeleteTenantWrite,
                       Audit, history
  <2>. QED
    BY <1>1, <2>1 DEF Rewrites, Moves
<1>. QED
  BY <1>2, <1>3, <1>4

LEMMA NextMoves ==
    ASSUME Inv, [Next]_vars
    PROVE  Inserts \/ (Rewrites /\ Moves)
<1>1. CASE UNCHANGED vars \/ Crash
  BY <1>1 DEF vars, Crash, tables, history, Rewrites, Moves
<1>2. ASSUME NEW h \in Handler, Arrive(h) PROVE Rewrites /\ Moves
  BY <1>2, ArriveTurns DEF Rewrites, Moves, history
<1>3. ASSUME NEW h \in Handler, Advance(h) PROVE Inserts \/ (Rewrites /\ Moves)
  BY <1>3, CheckMoves, ReadMoves, InsertUserMoves, WriteMoves, Zenon DEF Advance
<1>. QED
  BY <1>1, <1>2, <1>3 DEF Next
-----------------------------------------------------------------------------
(* Deleted tenants *)

\* The tenant of a creation past its check was not deleted when it began.
Open(h) == req[h].pc \in Checked => req[h].tenant \notin req[h].gone

Gone == \A h \in Handler : req[h].gone \subseteq Deleted /\ Open(h)

LEMMA DeletedForGood ==
    ASSUME Inv, [Next]_vars
    PROVE  Deleted \subseteq Deleted'
<1>1. CASE tenants' = tenants
  BY <1>1 DEF Deleted
<1>2. ASSUME NEW t \in Tenant, NEW row, tenants' = [tenants EXCEPT ![t] = row],
             tenants[t] = None \/ LiveTenant(t)
      PROVE  Deleted \subseteq Deleted'
  <2>1. \A s \in Deleted : tenants'[s] = tenants[s]
    BY <1>2 DEF Deleted, LiveTenant, Inv, Tables
  <2>. QED
    BY <2>1 DEF Deleted
<1>. QED
  BY <1>1, <1>2, TenantChange

\* The step of one request: from its old and new locals, Gone of it.
LEMMA MovedGone ==
    ASSUME Inv, Inv', Gone, [Next]_vars, NEW g \in Handler,
           Moves \/ Inserts
    PROVE  (req[g].gone \subseteq Deleted /\ Open(g))'
<1>0. /\ req \in [Handler -> Request] /\ Deleted \subseteq Deleted'
      /\ req[g] \in Request /\ req[g].gone \subseteq Deleted /\ Open(g)
  BY DeletedForGood DEF Inv, Gone
<1>1. ASSUME req'[g].gone = req[g].gone, req'[g].tenant = req[g].tenant,
             req'[g].pc \in Checked => req[g].pc \in Checked
      PROVE  (req[g].gone \subseteq Deleted /\ Open(g))'
  BY <1>0, <1>1 DEF Open
<1>2. ASSUME req'[g].gone \subseteq Deleted \cup req[g].gone, req'[g].pc \notin Checked
      PROVE  (req[g].gone \subseteq Deleted /\ Open(g))'
  BY <1>0, <1>2 DEF Open
<1>3. ASSUME req'[g] = Blank PROVE (req[g].gone \subseteq Deleted /\ Open(g))'
  BY <1>2, <1>3, BlankFacts
<1>4. ASSUME NEW h \in Handler, Turns(h)
      PROVE  (req[g].gone \subseteq Deleted /\ Open(g))'
  <2>1. g = h => req'[g].gone \subseteq Deleted \cup req[g].gone /\ req'[g].pc \notin Checked
    BY <1>0, <1>4 DEF Turns, Step
  <2>2. g # h => req'[g] = req[g]
    BY <1>0, <1>4 DEF Turns, Step
  <2>. QED
    BY <1>1, <1>2, <2>1, <2>2
<1>5. ASSUME NEW h \in Handler, Passes(h)
      PROVE  (req[g].gone \subseteq Deleted /\ Open(g))'
  <2>1. CASE g # h
    <3>1. req'[g] = req[g]
      BY <1>0, <1>5, <2>1 DEF Passes, Goto, Step
    <3>. QED
      BY <1>1, <3>1
  <2>2. CASE g = h
    <3>1. req'[g].gone = req[g].gone /\ req'[g].tenant = req[g].tenant
      BY <1>0, <1>5, <2>2 DEF Passes, Goto, Step, Request
    <3>2. CASE At(h, "tenant") /\ LiveTenant(req[h].tenant)
      <4>1. req[g].tenant \notin Deleted
        BY <2>2, <3>2 DEF LiveTenant, Deleted
      <4>. QED
        BY <1>0, <3>1, <4>1 DEF Open
    <3>3. CASE At(h, "email") \/ At(h, "name")
      BY <1>1, <2>2, <3>1, <3>3 DEF At, Checked
    <3>. QED
      BY <1>5, <3>2, <3>3 DEF Passes
  <2>. QED
    BY <2>1, <2>2
<1>6. CASE Inserts
  <2>1. PICK h \in Handler, u \in User : \E r :
          r.pc \notin Checked /\ r.gone = {} /\ req' = Missing(r, h, u)
    BY <1>6, Zenon DEF Inserts
  <2>2. CASE g = h
    <3>1. req'[g].gone = {} /\ req'[g].pc \notin Checked
      BY <2>1, <2>2 DEF Missing
    <3>. QED
      BY <1>2, <3>1
  <2>3. CASE g # h
    <3>1. req'[g] = req[g] \/ req'[g] = [req[g] EXCEPT !.missed = req[g].missed \cup {u}]
      BY <2>1, <2>3 DEF Missing
    <3>2. /\ req'[g].gone = req[g].gone /\ req'[g].tenant = req[g].tenant
          /\ req'[g].pc = req[g].pc
      BY <1>0, <3>1 DEF Request
    <3>. QED
      BY <1>1, <3>2
  <2>. QED
    BY <2>2, <2>3
<1>7. CASE req' = req
  BY <1>1, <1>7
<1>8. CASE req' = [h \in Handler |-> Blank]
  BY <1>3, <1>8
<1>. QED
  BY <1>4, <1>5, <1>6, <1>7, <1>8 DEF Moves

\* Whatever stale rows UpdateTenant writes back, a tenant that is deleted gets
\* no account from a request that begins later.
THEOREM DeletedTenantsStayEmpty == Spec => NoUserInDeletedTenant
<1>1. Init => Gone
  <2> SUFFICES ASSUME Init, NEW h \in Handler PROVE req[h].gone \subseteq Deleted /\ Open(h)
    BY DEF Gone
  <2>1. req[h] = Blank
    BY DEF Init
  <2>. QED
    BY <2>1, BlankFacts DEF Open
<1>2. ASSUME Inv, Inv', Gone, [Next]_vars PROVE Gone'
  <2>1. ASSUME NEW g \in Handler PROVE (req[g].gone \subseteq Deleted /\ Open(g))'
    BY <1>2, NextMoves, MovedGone
  <2>. QED
    BY <2>1 DEF Gone
<1>3. ASSUME Inv, Gone, [Next]_vars, NEW u \in User, users[u] = None, users'[u] # None
      PROVE  \E h \in Handler : At(h, "insert_user") /\ users'[u].tenant \notin req[h].gone
  <2>0. users \in [User -> UserRow \cup {None}]
    BY <1>3 DEF Inv, Tables
  <2>1. CASE Inserts
    <3>1. PICK h \in Handler, v \in User : \E row :
            /\ At(h, "insert_user") /\ row.tenant = req[h].tenant
            /\ users' = [users EXCEPT ![v] = row]
      BY <2>1, Zenon DEF Inserts
    <3>2. users'[u].tenant = req[h].tenant
      BY <1>3, <2>0, <3>1
    <3>. QED
      BY <1>3, <3>1, <3>2 DEF Gone, Open, At, Checked
  <2>2. CASE Rewrites
    BY <1>3, <2>0, <2>2 DEF Rewrites, LiveUser
  <2>. QED
    BY <1>3, <2>1, <2>2, NextMoves
<1>4. Inv /\ Gone /\ [Next]_vars =>
        [\A u \in User : users[u] = None /\ users'[u] # None =>
            \E h \in Handler : /\ At(h, "insert_user")
                               /\ users'[u].tenant \notin req[h].gone]_vars
  BY <1>3
<1>. QED
  BY <1>1, <1>2, <1>4, Invariance, PTL DEF Spec, NoUserInDeletedTenant
-----------------------------------------------------------------------------
(* E-mail addresses *)

\* A creation past its check knows of the accounts it would have found.
Known(h) ==
    PastCheck(h) =>
        \A u \in User : /\ LiveUser(u)
                        /\ users[u].email = req[h].email /\ users[u].tenant = req[h].tenant
                        => u \in edited \/ u \in req[h].missed

KnownAll == \A h \in Handler : Known(h)

LEMMA InsertKnown ==
    ASSUME Inv, KnownAll, EmailSharedOnlyByRace, Inserts
    PROVE  KnownAll' /\ EmailSharedOnlyByRace'
<1>0. PICK h \in Handler, u \in User : \E r, row :
        /\ At(h, "insert_user") /\ users[u] = None
        /\ row.tenant = req[h].tenant /\ row.email = req[h].email
        /\ users' = [users EXCEPT ![u] = row]
        /\ rivals' = rivals \cup (req[h].missed \X {u})
        /\ r.pc \notin Checked
        /\ req' = Missing(r, h, u)
        /\ UNCHANGED edited
  BY Zenon DEF Inserts
<1>1. PICK r, row :
        /\ At(h, "insert_user") /\ users[u] = None
        /\ row.tenant = req[h].tenant /\ row.email = req[h].email
        /\ users' = [users EXCEPT ![u] = row]
        /\ rivals' = rivals \cup (req[h].missed \X {u})
        /\ r.pc \notin Checked
        /\ req' = Missing(r, h, u)
        /\ UNCHANGED edited
  BY <1>0
<1>2. /\ users'[u] = row /\ \A v \in User \ {u} : users'[v] = users[v]
      /\ req \in [Handler -> Request]
  BY <1>1 DEF Inv, Tables
<1>3. \A v \in User \ {u} : LiveUser(v)' = LiveUser(v)
  BY <1>2 DEF LiveUser
<1>4. ASSUME NEW g \in Handler, PastCheck(g)'
      PROVE  /\ PastCheck(g) /\ req'[g].email = req[g].email
             /\ req'[g].tenant = req[g].tenant /\ req'[g].missed = req[g].missed \cup {u}
  <2>1. g # h
    BY <1>1, <1>4 DEF Missing, PastCheck, Checked
  <2>2. PastCheck(g)
    BY <1>1, <1>4, <2>1 DEF Missing, PastCheck
  <2>3. req'[g] = [req[g] EXCEPT !.missed = req[g].missed \cup {u}]
    BY <1>1, <2>1, <2>2 DEF Missing
  <2>. QED
    BY <1>2, <2>2, <2>3 DEF Request
<1>5. KnownAll'
  <2> SUFFICES ASSUME NEW g \in Handler, PastCheck(g)', NEW v \in User, LiveUser(v)',
                      users'[v].email = req'[g].email, users'[v].tenant = req'[g].tenant
               PROVE  v \in edited' \/ v \in req'[g].missed
    BY Zenon DEF KnownAll, Known
  <2>1. CASE v = u
    BY <1>4, <2>1
  <2>2. CASE v # u
    BY <1>1, <1>2, <1>3, <1>4, <2>2 DEF KnownAll, Known
  <2>. QED
    BY <2>1, <2>2
<1>6. \A v \in User \ {u} : LiveUser(v) /\ users[v].email = row.email
                            /\ users[v].tenant = row.tenant
                            => v \in edited \/ <<v, u>> \in rivals'
  BY <1>1 DEF KnownAll, Known, PastCheck, At
<1>7. EmailSharedOnlyByRace'
  <2> SUFFICES ASSUME NEW v \in User, NEW w \in User, v # w, LiveUser(v)', LiveUser(w)',
                      users'[v].tenant = users'[w].tenant, users'[v].email = users'[w].email
               PROVE  \/ v \in edited' \/ w \in edited'
                      \/ <<v, w>> \in rivals' \/ <<w, v>> \in rivals'
    BY DEF EmailSharedOnlyByRace
  <2>1. CASE v = u
    BY <1>1, <1>2, <1>3, <1>6, <2>1
  <2>2. CASE w = u
    BY <1>1, <1>2, <1>3, <1>6, <2>2
  <2>3. CASE v # u /\ w # u
    BY <1>1, <1>2, <1>3, <2>3 DEF EmailSharedOnlyByRace
  <2>. QED
    BY <2>1, <2>2, <2>3
<1>. QED
  BY <1>5, <1>7

LEMMA RewriteKnown ==
    ASSUME Inv, KnownAll, EmailSharedOnlyByRace, Rewrites, Moves
    PROVE  KnownAll' /\ EmailSharedOnlyByRace'
<1>1. /\ req \in [Handler -> Request] /\ users \in [User -> UserRow \cup {None}]
      /\ rivals' = rivals /\ edited \subseteq edited'
  BY DEF Inv, Tables, Rewrites
\* What is new of an account is its own doing.
<1>2. ASSUME NEW v \in User, LiveUser(v)', v \notin edited'
      PROVE  users'[v] = users[v] /\ LiveUser(v)
  <2>1. CASE users' = users
    BY <1>2, <2>1 DEF LiveUser
  <2>2. ASSUME NEW u \in User, NEW row, users' = [users EXCEPT ![u] = row],
               u \in edited' \/ row.deleted
        PROVE  users'[v] = users[v]
    BY <1>1, <1>2, <2>2 DEF LiveUser
  <2>3. users'[v] = users[v]
    BY <2>1, <2>2 DEF Rewrites
  <2>. QED
    BY <1>2, <2>3 DEF LiveUser
<1>3. EmailSharedOnlyByRace'
  <2> SUFFICES ASSUME NEW v \in User, NEW w \in User, v # w, LiveUser(v)', LiveUser(w)',
                      users'[v].tenant = users'[w].tenant, users'[v].email = users'[w].email,
                      v \notin edited', w \notin edited'
               PROVE  <<v, w>> \in rivals' \/ <<w, v>> \in rivals'
    BY DEF EmailSharedOnlyByRace
  <2>1. /\ LiveUser(v) /\ LiveUser(w) /\ v \notin edited /\ w \notin edited
        /\ users[v].tenant = users[w].tenant /\ users[v].email = users[w].email
    BY <1>1, <1>2
  <2>. QED
    BY <1>1, <2>1 DEF EmailSharedOnlyByRace
<1>4. ASSUME NEW g \in Handler, req'[g] = req[g] PROVE Known(g)'
  <2> SUFFICES ASSUME PastCheck(g)', NEW v \in User, LiveUser(v)', v \notin edited',
                      users'[v].email = req'[g].email, users'[v].tenant = req'[g].tenant
               PROVE  v \in req'[g].missed
    BY Zenon DEF Known
  <2>1. PastCheck(g) /\ LiveUser(v) /\ users'[v] = users[v] /\ v \notin edited
    BY <1>1, <1>2, <1>4 DEF PastCheck
  <2>. QED
    BY <1>4, <2>1 DEF KnownAll, Known
<1>5. ASSUME NEW g \in Handler, req'[g].pc \notin Checked PROVE Known(g)'
  BY <1>5 DEF Known, PastCheck, Checked
<1>6. ASSUME NEW h \in Handler, Passes(h) PROVE Known(h)'
  <2>1. PICK p : req'[h] = [req[h] EXCEPT !.pc = p]
             /\ \/ p = "email"
                \/ p = "name" /\ GetByEmailAndTenant(req[h].email, req[h].tenant) = {}
                \/ p = "insert_user" /\ At(h, "name")
    BY <1>1, <1>6 DEF Passes, Goto, Step
  <2>2. /\ req'[h].pc = p /\ req'[h].email = req[h].email
        /\ req'[h].tenant = req[h].tenant /\ req'[h].missed = req[h].missed
    BY <1>1, <2>1 DEF Request
  <2>3. users' = users
    BY <1>6 DEF Passes
  <2>4. CASE p = "email"
    BY <2>2, <2>4 DEF Known, PastCheck
  <2>5. CASE GetByEmailAndTenant(req[h].email, req[h].tenant) = {}
    <3>1. \A v \in User : LiveUser(v)' = LiveUser(v)
      BY <2>3 DEF LiveUser
    <3>. QED
      BY <2>2, <2>3, <2>5, <3>1 DEF Known, GetByEmailAndTenant
  <2>6. CASE p = "insert_user" /\ At(h, "name")
    <3>1. PastCheck(h) /\ \A v \in User : LiveUser(v)' = LiveUser(v)
      BY <2>3, <2>6 DEF LiveUser, PastCheck, At
    <3>. QED
      BY <1>1, <2>2, <2>3, <3>1 DEF Known, KnownAll
  <2>. QED
    BY <2>1, <2>4, <2>5, <2>6
<1>7. ASSUME NEW g \in Handler PROVE Known(g)'
  <2>1. CASE req' = req
    BY <1>4, <2>1
  <2>2. CASE req' = [h \in Handler |-> Blank]
    BY <1>5, <2>2, BlankFacts
  <2>3. ASSUME NEW h \in Handler, Turns(h) PROVE Known(g)'
    <3>1. req'[g] = req[g] \/ req'[g].pc \notin Checked
      BY <1>1, <2>3 DEF Turns, Step
    <3>. QED
      BY <1>4, <1>5, <3>1
  <2>4. ASSUME NEW h \in Handler, Passes(h) PROVE Known(g)'
    <3>1. g # h => req'[g] = req[g]
      BY <1>1, <2>4 DEF Passes, Goto, Step
    <3>. QED
      BY <1>4, <1>6, <2>4, <3>1
  <2>. QED
    BY <2>1, <2>2, <2>3, <2>4 DEF Moves
<1>. QED
  BY <1>3, <1>7 DEF KnownAll

\* Two accounts of a tenant share an address only by an update of one of them
\* or by the race between check and INSERT, however many creations there are.
THEOREM EmailsSharedByRace == Spec => []EmailSharedOnlyByRace
<1>1. Init => KnownAll /\ EmailSharedOnlyByRace
  BY DEF Init, KnownAll, Known, PastCheck, EmailSharedOnlyByRace, LiveUser, Blank
<1>2. Inv /\ KnownAll /\ EmailSharedOnlyByRace /\ [Next]_vars
        => KnownAll' /\ EmailSharedOnlyByRace'
  BY NextMoves, InsertKnown, RewriteKnown
<1>. QED
  BY <1>1, <1>2, Invariance, PTL DEF Spec
-----------------------------------------------------------------------------
(* What it takes for the check of an address to be enough *)

\* No two creations with one address in one tenant are between the check and
\* the INSERT at a time, as a lock or a unique index would have it.
CreationsApart ==
    \A g, h \in Handler :
        g # h /\ PastCheck(g) /\ PastCheck(h) =>
            req[g].email # req[h].email \/ req[g].tenant # req[h].tenant

\* No update writes an address other than the one that is there.
UpdatesKeepEmail ==
    \A h \in Handler :
        At(h, "user_write") /\ LiveUser(req[h].user) =>
            req[h].row.email = users[req[h].user].email

Holders(e, t) == {u \in User : LiveUser(u) /\ users[u].email = e /\ users[u].tenant = t}

\* An address that a creation has checked is still nobody's.
Vacant(h) == PastCheck(h) => Holders(req[h].email, req[h].tenant) = {}

AllVacant == \A h \in Handler : Vacant(h)

EmailsDistinct ==
    \A u, v \in User :
        u # v /\ LiveUser(u) /\ LiveUser(v) =>
            users[u].email # users[v].email \/ users[u].tenant # users[v].tenant

\* An account keeps its address while it is not deleted, and its tenant.
LEMMA EmailKept ==
    ASSUME Inv, UpdatesKeepEmail, [Next]_vars, NEW v \in User, LiveUser(v), LiveUser(v)'
    PROVE  users'[v].email = users[v].email /\ users'[v].tenant = users[v].tenant
<1>0. users \in [User -> UserRow \cup {None}] /\ users[v] \in UserRow
  BY DEF Inv, Tables, LiveUser
<1>1. ASSUME users' = users PROVE users'[v] = users[v]
  BY <1>1
<1>2. ASSUME NEW h \in Handler, Arrive(h) PROVE users' = users
  BY <1>2, ArriveTurns
<1>3. ASSUME NEW h \in Handler, Advance(h),
             ~InsertUser(h), ~UpdateUserWrite(h), ~DeleteUserWrite(h)
      PROVE  users' = users
  BY <1>3, Zenon DEF Advance, CheckTenant, CheckEmail, CheckUsername, InsertCredential,
       ReadUser, CheckCode, CheckDomain, InsertTenant, ReadTenant, UpdateTenantWrite,
       DeleteTenantWrite, Audit, Unless, tables
<1>4. ASSUME NEW h \in Handler, InsertUser(h) PROVE users'[v] = users[v]
  <2>1. users' = users \/ \E u \in FreshUser : \E row : users' = [users EXCEPT ![u] = row]
    BY <1>4, Zenon DEF InsertUser
  <2>. QED
    BY <1>0, <2>1 DEF FreshUser, LiveUser
<1>5. ASSUME NEW h \in Handler, UpdateUserWrite(h)
      PROVE  users'[v].email = users[v].email /\ users'[v].tenant = users[v].tenant
  <2> DEFINE u == req[h].user
             row == [[req[h].row EXCEPT !.tenant = users[u].tenant]
                       EXCEPT !.deleted = users[u].deleted]
  <2>1. u \in User /\ req[h].row \in UserRow /\ At(h, "user_write")
    BY <1>5 DEF UpdateUserWrite, At, Inv, Fits
  <2>2. users' = users \/ (LiveUser(u) /\ users' = [users EXCEPT ![u] = row])
    BY <1>5 DEF UpdateUserWrite, WriteUser
  <2>3. LiveUser(u) => row.email = users[u].email /\ row.tenant = users[u].tenant
    BY <2>1 DEF UpdatesKeepEmail, UserRow
  <2> HIDE DEF row, u
  <2>. QED
    BY <1>0, <2>1, <2>2, <2>3
<1>6. ASSUME NEW h \in Handler, DeleteUserWrite(h)
      PROVE  users'[v].email = users[v].email /\ users'[v].tenant = users[v].tenant
  <2> DEFINE u == req[h].user
             row == [[users[u] EXCEPT !.deleted = TRUE] EXCEPT !.status = "blocked"]
  <2>1. u \in User
    BY <1>6 DEF DeleteUserWrite, At, Inv, Fits
  <2>2. \/ users' = users
        \/ LiveUser(u) /\ users' = [users EXCEPT ![u].deleted = TRUE, ![u].status = "blocked"]
    BY <1>6 DEF DeleteUserWrite
  <2>3. LiveUser(u) => users[u] \in UserRow
    BY <1>0, <2>1 DEF LiveUser
  <2>4. LiveUser(u) => row.email = users[u].email /\ row.tenant = users[u].tenant
    BY <2>3 DEF UserRow
  <2>5. users' = users \/ (LiveUser(u) /\ users' = [users EXCEPT ![u] = row])
    BY <1>0, <2>1, <2>2
  <2> HIDE DEF row, u
  <2>. QED
    BY <1>0, <2>1, <2>4, <2>5
<1>7. CASE UNCHANGED vars \/ Crash
  BY <1>1, <1>7 DEF vars, tables, Crash
<1>. QED
  BY <1>1, <1>2, <1>3, <1>4, <1>5, <1>6, <1>7 DEF Next

LEMMA RewriteVacant ==
    ASSUME Inv, UpdatesKeepEmail, [Next]_vars, AllVacant, EmailsDistinct, Rewrites, Moves
    PROVE  AllVacant' /\ EmailsDistinct'
<1>1. /\ req \in [Handler -> Request] /\ users \in [User -> UserRow \cup {None}]
  BY DEF Inv, Tables
<1>2. ASSUME NEW v \in User, LiveUser(v)'
      PROVE  /\ LiveUser(v) /\ users'[v].email = users[v].email
             /\ users'[v].tenant = users[v].tenant
  <2>1. LiveUser(v)
    BY <1>1, <1>2 DEF Rewrites, LiveUser
  <2>. QED
    BY <1>2, <2>1, EmailKept
<1>3. EmailsDistinct'
  BY <1>2 DEF EmailsDistinct
<1>4. \A v \in User : LiveUser(v)' =>
        /\ LiveUser(v) /\ users'[v].email = users[v].email
        /\ users'[v].tenant = users[v].tenant
  BY <1>2
<1>5. ASSUME NEW g \in Handler, req'[g] = req[g] PROVE Vacant(g)'
  <2>1. Vacant(g)
    BY DEF AllVacant
  <2>2. Holders(req[g].email, req[g].tenant)' \subseteq Holders(req[g].email, req[g].tenant)
    BY <1>4, <1>5 DEF Holders
  <2>. QED
    BY <1>5, <2>1, <2>2 DEF Vacant, PastCheck
<1>6. ASSUME NEW h \in Handler, Passes(h) PROVE Vacant(h)'
  <2>1. PICK p : req'[h] = [req[h] EXCEPT !.pc = p]
             /\ \/ p = "email"
                \/ p = "name" /\ GetByEmailAndTenant(req[h].email, req[h].tenant) = {}
                \/ p = "insert_user" /\ At(h, "name")
    BY <1>1, <1>6 DEF Passes, Goto, Step
  <2>2. /\ req'[h].pc = p /\ req'[h].email = req[h].email /\ req'[h].tenant = req[h].tenant
    BY <1>1, <2>1 DEF Request
  <2>3. Vacant(h)
    BY DEF AllVacant
  <2>4. p # "email" => Holders(req[h].email, req[h].tenant) = {}
    BY <2>1, <2>3 DEF PastCheck, Holders, GetByEmailAndTenant, Vacant, At
  <2>5. Holders(req[h].email, req[h].tenant)' \subseteq Holders(req[h].email, req[h].tenant)
    BY <1>4, <2>2 DEF Holders
  <2>. QED
    BY <2>2, <2>4, <2>5 DEF Vacant, PastCheck
<1>7. ASSUME NEW g \in Handler, req'[g].pc \notin Checked PROVE Vacant(g)'
  BY <1>7 DEF Vacant, PastCheck, Checked
<1>8. ASSUME NEW g \in Handler PROVE Vacant(g)'
  <2>1. CASE req' = req
    BY <1>5, <2>1
  <2>2. CASE req' = [h \in Handler |-> Blank]
    BY <1>7, <2>2, BlankFacts
  <2>3. ASSUME NEW h \in Handler, Turns(h) PROVE Vacant(g)'
    <3>1. req'[g] = req[g] \/ req'[g].pc \notin Checked
      BY <1>1, <2>3 DEF Turns, Step
    <3>. QED
      BY <1>5, <1>7, <3>1
  <2>4. ASSUME NEW h \in Handler, Passes(h) PROVE Vacant(g)'
    <3>1. g # h => req'[g] = req[g]
      BY <1>1, <2>4 DEF Passes, Goto, Step
    <3>. QED
      BY <1>5, <1>6, <2>4, <3>1
  <2>. QED
    BY <2>1, <2>2, <2>3, <2>4 DEF Moves
<1>. QED
  BY <1>3, <1>8 DEF AllVacant

LEMMA InsertVacant ==
    ASSUME Inv, CreationsApart, AllVacant, EmailsDistinct, Inserts
    PROVE  AllVacant' /\ EmailsDistinct'
<1>0. PICK h \in Handler, u \in User : \E r, row :
        /\ At(h, "insert_user") /\ users[u] = None
        /\ row.tenant = req[h].tenant /\ row.email = req[h].email
        /\ users' = [users EXCEPT ![u] = row]
        /\ r.pc \notin Checked /\ req' = Missing(r, h, u)
  BY Zenon DEF Inserts
<1>1. PICK r, row :
        /\ At(h, "insert_user") /\ users[u] = None
        /\ row.tenant = req[h].tenant /\ row.email = req[h].email
        /\ users' = [users EXCEPT ![u] = row]
        /\ r.pc \notin Checked /\ req' = Missing(r, h, u)
  BY <1>0
<1>2. /\ users'[u] = row /\ \A v \in User \ {u} : users'[v] = users[v]
      /\ req \in [Handler -> Request]
  BY <1>1 DEF Inv, Tables
<1>3. \A v \in User \ {u} : LiveUser(v)' = LiveUser(v)
  BY <1>2 DEF LiveUser
<1>4. ASSUME NEW g \in Handler, PastCheck(g)'
      PROVE  /\ g # h /\ PastCheck(g) /\ req'[g].email = req[g].email
             /\ req'[g].tenant = req[g].tenant
  <2>1. g # h
    BY <1>1, <1>4 DEF Missing, PastCheck, Checked
  <2>2. PastCheck(g)
    BY <1>1, <1>4, <2>1 DEF Missing, PastCheck
  <2>3. req'[g] = [req[g] EXCEPT !.missed = req[g].missed \cup {u}]
    BY <1>1, <2>1, <2>2 DEF Missing
  <2>. QED
    BY <1>2, <2>1, <2>2, <2>3 DEF Request
<1>5. PastCheck(h)
  BY <1>1 DEF PastCheck, At
<1>6. ASSUME NEW g \in Handler, PastCheck(g)', NEW v \in User, LiveUser(v)'
      PROVE  users'[v].email # req'[g].email \/ users'[v].tenant # req'[g].tenant
  <2>1. CASE v = u
    BY <1>1, <1>2, <1>4, <1>5, <1>6, <2>1 DEF CreationsApart
  <2>2. CASE v # u
    BY <1>2, <1>3, <1>4, <1>6, <2>2 DEF AllVacant, Vacant, Holders
  <2>. QED
    BY <2>1, <2>2
<1>7. \A v \in User \ {u} : LiveUser(v) => users[v].email # row.email \/ users[v].tenant # row.tenant
  BY <1>1, <1>5 DEF AllVacant, Vacant, Holders
<1>8. EmailsDistinct'
  <2> SUFFICES ASSUME NEW v \in User, NEW w \in User, v # w, LiveUser(v)', LiveUser(w)'
               PROVE  users'[v].email # users'[w].email \/ users'[v].tenant # users'[w].tenant
    BY DEF EmailsDistinct
  <2>1. CASE v = u
    BY <1>2, <1>3, <1>7, <2>1
  <2>2. CASE w = u
    BY <1>2, <1>3, <1>7, <2>2
  <2>3. CASE v # u /\ w # u
    BY <1>2, <1>3, <2>3 DEF EmailsDistinct
  <2>. QED
    BY <2>1, <2>2, <2>3
<1>. QED
  BY <1>6, <1>8 DEF AllVacant, Vacant, Holders

\* The gap between the check and the INSERT (user_usecase.go:50,
\* auth_usecase.go:153) and UpdateUser, which checks nothing, are the only
\* reasons why two accounts of a tenant share an address: without the two none
\* do, whatever fails, and whoever is deleted and created again.
THEOREM EmailsKeptApart ==
    Spec /\ []CreationsApart /\ []UpdatesKeepEmail => []EmailsDistinct
<1>1. Init => AllVacant /\ EmailsDistinct
  BY DEF Init, AllVacant, Vacant, PastCheck, EmailsDistinct, LiveUser, Blank
<1>2. /\ Inv /\ CreationsApart /\ UpdatesKeepEmail /\ AllVacant /\ EmailsDistinct
      /\ [Next]_vars
      => AllVacant' /\ EmailsDistinct'
  BY NextMoves, InsertVacant, RewriteVacant
<1>. QED
  BY <1>1, <1>2, Invariance, PTL DEF Spec
-----------------------------------------------------------------------------
(* Requests end *)

\* How many statements a request has to run at most, this one included.
StatementsLeft(p) ==
    IF p = "done" THEN 0
    ELSE IF p = "audit" THEN 1
    ELSE IF p \in {"credential", "user_write", "user_delete", "insert_tenant",
                   "tenant_write", "tenant_delete"} THEN 2
    ELSE IF p \in {"insert_user", "domain", "user_read", "tenant_read"} THEN 3
    ELSE IF p \in {"name", "code"} THEN 4
    ELSE IF p = "email" THEN 5 ELSE 6

Left(h) == StatementsLeft(req[h].pc)

\* Request h is the one that moves, to a phase of P.
Becomes(h, P) ==
    /\ req'[h].pc \in P
    /\ \A g \in Handler \ {h} : req'[g].pc = req[g].pc

LEMMA Phases ==
    ASSUME Inv, NEW h \in Handler
    PROVE  /\ \A r : Step(h, r) => Becomes(h, {r.pc})
           /\ \A a : Answer(h, a) => Becomes(h, {"done"})
           /\ \A a, u, t : Log(h, a, u, t) => Becomes(h, {"audit"})
           /\ \A p : Goto(h, p) => Becomes(h, {p})
           /\ \A found, p : Unless(h, found, p) => Becomes(h, {"done", p})
<1>0. req \in [Handler -> Request] /\ req[h] \in Request
  BY DEF Inv
<1>1. \A r : Step(h, r) => Becomes(h, {r.pc})
  BY <1>0 DEF Step, Becomes
<1>2. Blank.pc = "done" /\ \A a, u, t : Logging(a, u, t).pc = "audit"
  BY DEF Blank, Logging
<1>3. \A p : [req[h] EXCEPT !.pc = p].pc = p
  BY <1>0 DEF Request
<1>4. \A a : Answer(h, a) => Becomes(h, {"done"})
  BY <1>1, <1>2 DEF Answer
<1>5. \A a, u, t : Log(h, a, u, t) => Becomes(h, {"audit"})
  BY <1>1, <1>2 DEF Log
<1>6. \A p : Goto(h, p) => Becomes(h, {p})
  BY <1>1, <1>3 DEF Goto
<1>7. \A found, p : Unless(h, found, p) => Becomes(h, {"done", p})
  <2>1. \A found, p : Unless(h, found, p) => Goto(h, p) \/ \E a : Answer(h, a)
    BY Zenon DEF Unless
  <2>. QED
    BY <1>4, <1>6, <2>1 DEF Becomes
<1>. QED
  BY <1>1, <1>4, <1>5, <1>6, <1>7

\* Where each statement leads: on, or out.
LEMMA AdvanceBecomes ==
    ASSUME Inv, NEW h \in Handler
    PROVE  /\ CheckTenant(h) => At(h, "tenant") /\ Becomes(h, {"done", "email"})
           /\ CheckEmail(h) => At(h, "email") /\ Becomes(h, {"done", "name"})
           /\ CheckUsername(h) => At(h, "name") /\ Becomes(h, {"done", "insert_user"})
           /\ InsertUser(h) => At(h, "insert_user") /\ Becomes(h, {"done", "credential", "audit"})
           /\ InsertCredential(h) => At(h, "credential") /\ Becomes(h, {"done", "audit"})
           /\ ReadUser(h) => At(h, "user_read") /\ Becomes(h, {"done", "user_write", "user_delete"})
           /\ UpdateUserWrite(h) => At(h, "user_write") /\ Becomes(h, {"done", "audit"})
           /\ DeleteUserWrite(h) => At(h, "user_delete") /\ Becomes(h, {"done", "audit"})
           /\ CheckCode(h) => At(h, "code") /\ Becomes(h, {"done", "domain", "insert_tenant"})
           /\ CheckDomain(h) => At(h, "domain") /\ Becomes(h, {"done", "insert_tenant"})
           /\ InsertTenant(h) => At(h, "insert_tenant") /\ Becomes(h, {"done", "audit"})
           /\ ReadTenant(h) => At(h, "tenant_read")
                               /\ Becomes(h, {"done", "tenant_write", "tenant_delete"})
           /\ UpdateTenantWrite(h) => At(h, "tenant_write") /\ Becomes(h, {"done", "audit"})
           /\ DeleteTenantWrite(h) => At(h, "tenant_delete") /\ Becomes(h, {"done", "audit"})
           /\ Audit(h) => At(h, "audit") /\ Becomes(h, {"done"})
<1>0. req \in [Handler -> Request]
  BY DEF Inv
<1>1. /\ CheckTenant(h) => At(h, "tenant") /\ ((\E a : Answer(h, a)) \/ Goto(h, "email"))
      /\ CheckEmail(h) => At(h, "email") /\ \E f : Unless(h, f, "name")
      /\ CheckUsername(h) => At(h, "name") /\ \E f : Unless(h, f, "insert_user")
      /\ CheckDomain(h) => At(h, "domain") /\ \E f : Unless(h, f, "insert_tenant")
      /\ Audit(h) => At(h, "audit") /\ Answer(h, "ok")
  BY Zenon DEF CheckTenant, CheckEmail, CheckUsername, CheckDomain, Audit
<1>2. CheckCode(h) => At(h, "code")
                      /\ \E f : \E p \in {"domain", "insert_tenant"} : Unless(h, f, p)
  BY DEF CheckCode
<1>3. ASSUME (\E a : Answer(h, a)) \/ (\E a, u, t : Log(h, a, u, t))
      PROVE  Becomes(h, {"done", "audit"})
  BY <1>3, Phases DEF Becomes
<1>4. /\ InsertCredential(h) => At(h, "credential")
      /\ UpdateUserWrite(h) => At(h, "user_write")
      /\ DeleteUserWrite(h) => At(h, "user_delete")
      /\ InsertTenant(h) => At(h, "insert_tenant")
      /\ UpdateTenantWrite(h) => At(h, "tenant_write")
      /\ DeleteTenantWrite(h) => At(h, "tenant_delete")
  BY Zenon DEF InsertCredential, UpdateUserWrite, DeleteUserWrite, InsertTenant,
               UpdateTenantWrite, DeleteTenantWrite
<1>5. InsertCredential(h) \/ UpdateUserWrite(h) \/ DeleteUserWrite(h) \/ InsertTenant(h)
        \/ UpdateTenantWrite(h) \/ DeleteTenantWrite(h)
      => (\E a : Answer(h, a)) \/ (\E a, u, t : Log(h, a, u, t))
  BY Zenon DEF InsertCredential, UpdateUserWrite, DeleteUserWrite, InsertTenant,
               UpdateTenantWrite, DeleteTenantWrite
<1>6. ASSUME InsertUser(h)
      PROVE  At(h, "insert_user") /\ Becomes(h, {"done", "credential", "audit"})
  <2>1. PICK u : \/ \E a : Answer(h, a)
                 \/ req' = Missing(Blank, h, u)
                 \/ req' = Missing([Blank EXCEPT !.op = req[h].op, !.pc = "credential",
                                                 !.user = u, !.tenant = req[h].tenant], h, u)
                 \/ req' = Missing(Logging("USER_CREATE", u, req[h].tenant), h, u)
    BY <1>6 DEF InsertUser
  <2>2. ASSUME NEW r, r.pc \in {"done", "credential", "audit"}, req' = Missing(r, h, u)
        PROVE  Becomes(h, {"done", "credential", "audit"})
    <3>1. req'[h] = r
      BY <2>2 DEF Missing
    <3>2. ASSUME NEW g \in Handler \ {h} PROVE req'[g].pc = req[g].pc
      <4>1. req'[g] = req[g] \/ req'[g] = [req[g] EXCEPT !.missed = req[g].missed \cup {u}]
        BY <2>2 DEF Missing
      <4>. QED
        BY <1>0, <4>1 DEF Request
    <3>. QED
      BY <2>2, <3>1, <3>2 DEF Becomes
  <2>3. /\ Blank.pc = "done" /\ Logging("USER_CREATE", u, req[h].tenant).pc = "audit"
        /\ [Blank EXCEPT !.op = req[h].op, !.pc = "credential",
                         !.user = u, !.tenant = req[h].tenant].pc = "credential"
    BY DEF Blank, Logging
  <2>4. (\E a : Answer(h, a)) => Becomes(h, {"done", "credential", "audit"})
    BY <1>3 DEF Becomes
  <2>5. At(h, "insert_user")
    BY <1>6, Zenon DEF InsertUser
  <2> DEFINE c == [Blank EXCEPT !.op = req[h].op, !.pc = "credential",
                                !.user = u, !.tenant = req[h].tenant]
  <2>6. /\ c.pc = "credential"
        /\ \/ \E a : Answer(h, a)
           \/ req' = Missing(Blank, h, u)
           \/ req' = Missing(c, h, u)
           \/ req' = Missing(Logging("USER_CREATE", u, req[h].tenant), h, u)
    BY <2>1, <2>3, Zenon
  <2> HIDE DEF c
  <2>. QED
    BY <2>2, <2>3, <2>4, <2>5, <2>6
<1>7. ASSUME ReadUser(h)
      PROVE  At(h, "user_read") /\ Becomes(h, {"done", "user_write", "user_delete"})
  <2> DEFINE u == req[h].user
             row == [users[u] EXCEPT !.email = Given(req[h].email, @),
                                     !.status = Given(req[h].status, @)]
             next == [Blank EXCEPT !.op = req[h].op, !.user = u, !.tenant = users[u].tenant]
             a == [next EXCEPT !.pc = "user_write", !.row = row]
             d == [next EXCEPT !.pc = "user_delete"]
  <2>1. At(h, "user_read") /\ ((\E x : Answer(h, x)) \/ Step(h, a) \/ Step(h, d))
    BY <1>7, Zenon DEF ReadUser
  <2> HIDE DEF row
  <2>2. a.pc = "user_write" /\ d.pc = "user_delete"
    BY DEF Blank
  <2> HIDE DEF a, d
  <2>. QED
    BY <2>1, <2>2, Phases DEF Becomes
<1>8. ASSUME ReadTenant(h)
      PROVE  At(h, "tenant_read") /\ Becomes(h, {"done", "tenant_write", "tenant_delete"})
  <2> DEFINE t == req[h].tenant
             row == [tenants[t] EXCEPT !.domain = Given(req[h].domain, @),
                                       !.status = Given(req[h].status, @)]
             next == [Blank EXCEPT !.op = req[h].op, !.tenant = t, !.actor = req[h].actor]
             a == [next EXCEPT !.pc = "tenant_write", !.row = row]
             d == [next EXCEPT !.pc = "tenant_delete"]
  <2>1. At(h, "tenant_read") /\ ((\E x : Answer(h, x)) \/ Step(h, a) \/ Step(h, d))
    BY <1>8, Zenon DEF ReadTenant
  <2> HIDE DEF row
  <2>2. a.pc = "tenant_write" /\ d.pc = "tenant_delete"
    BY DEF Blank
  <2> HIDE DEF a, d
  <2>. QED
    BY <2>1, <2>2, Phases DEF Becomes
<1>9. ASSUME CheckTenant(h) PROVE Becomes(h, {"done", "email"})
  BY <1>1, <1>9, Phases DEF Becomes
<1>10. ASSUME CheckCode(h) PROVE Becomes(h, {"done", "domain", "insert_tenant"})
  BY <1>2, <1>10, Phases DEF Becomes
<1>. QED
  BY <1>1, <1>2, <1>3, <1>4, <1>5, <1>6, <1>7, <1>8, <1>9, <1>10, Phases

\* A statement run is a statement less, whatever came of it.
LEMMA AdvanceLowers ==
    ASSUME Inv, NEW h \in Handler, Advance(h)
    PROVE  /\ \A g \in Handler \ {h} : req'[g].pc = req[g].pc
           /\ Left(h)' < Left(h)
<1>1. CASE CheckTenant(h) \/ CheckEmail(h) \/ CheckUsername(h)
  BY <1>1, AdvanceBecomes DEF At, Becomes, Left, StatementsLeft
<1>2. CASE InsertUser(h) \/ InsertCredential(h)
  BY <1>2, AdvanceBecomes DEF At, Becomes, Left, StatementsLeft
<1>3. CASE ReadUser(h) \/ UpdateUserWrite(h) \/ DeleteUserWrite(h)
  BY <1>3, AdvanceBecomes DEF At, Becomes, Left, StatementsLeft
<1>4. CASE CheckCode(h) \/ CheckDomain(h) \/ InsertTenant(h)
  BY <1>4, AdvanceBecomes DEF At, Becomes, Left, StatementsLeft
<1>5. CASE ReadTenant(h) \/ UpdateTenantWrite(h) \/ DeleteTenantWrite(h)
  BY <1>5, AdvanceBecomes DEF At, Becomes, Left, StatementsLeft
<1>6. CASE Audit(h)
  BY <1>6, AdvanceBecomes DEF At, Becomes, Left, StatementsLeft
<1>. QED
  BY <1>1, <1>2, <1>3, <1>4, <1>5, <1>6 DEF Advance

\* No other step prolongs a request: a slot is given away only when it is free,
\* and a crash empties it.
LEMMA NextLowers ==
    ASSUME Inv, [Next]_vars, NEW h \in Handler, ~At(h, "done")
    PROVE  Left(h)' = Left(h) \/ Left(h)' < Left(h)
<1>0. req \in [Handler -> Request]
  BY DEF Inv
<1>1. ASSUME NEW g \in Handler, Arrive(g) PROVE req'[h] = req[h]
  <2>1. \E r : Begin(g, r)
    BY <1>1, Zenon DEF Arrive, Register, CreateUser, DeleteUser, UpdateUser, CreateTenant,
                       DeleteTenant, UpdateTenant
  <2>. QED
    BY <1>0, <2>1 DEF Begin, Step, At
<1>2. ASSUME NEW g \in Handler, Advance(g) PROVE Left(h)' = Left(h) \/ Left(h)' < Left(h)
  BY <1>2, AdvanceLowers DEF Left
<1>3. CASE Crash
  BY <1>3 DEF Crash, Left, StatementsLeft, Blank, At
<1>. QED
  BY <1>1, <1>2, <1>3 DEF Next, vars, Left

\* A goroutine whose request is not answered yet goes on, as the scheduler and
\* the database let it: no step waits for another request.
KeepsRunning == \A h \in Handler : []<>At(h, "done") \/ []<><<Advance(h)>>_vars

\* Every request of an administrator or a new user is answered, whatever fails
\* and however many requests run, create and delete meanwhile.
THEOREM RequestsAnswered ==
    Spec /\ KeepsRunning => \A h \in Handler : ~At(h, "done") ~> At(h, "done")
<1>1. SUFFICES ASSUME NEW h \in Handler
               PROVE  Spec /\ KeepsRunning => (~At(h, "done") ~> At(h, "done"))
  OBVIOUS
<1> DEFINE L(n) == Left(h) = n
<1>2. At(h, "done") <=> L(0)
  BY DEF At, Left, StatementsLeft
<1>3. L(0) \/ L(1) \/ L(2) \/ L(3) \/ L(4) \/ L(5) \/ L(6)
  BY DEF Left, StatementsLeft
<1>4. ASSUME Inv, [Next]_vars
      PROVE  /\ L(1) => L(1)' \/ L(0)'
             /\ L(2) => L(2)' \/ L(1)' \/ L(0)'
             /\ L(3) => L(3)' \/ L(2)' \/ L(1)' \/ L(0)'
             /\ L(4) => L(4)' \/ L(3)' \/ L(2)' \/ L(1)' \/ L(0)'
             /\ L(5) => L(5)' \/ L(4)' \/ L(3)' \/ L(2)' \/ L(1)' \/ L(0)'
             /\ L(6) => L(6)' \/ L(5)' \/ L(4)' \/ L(3)' \/ L(2)' \/ L(1)' \/ L(0)'
  <2>1. At(h, "done") \/ Left(h)' = Left(h) \/ Left(h)' < Left(h)
    BY <1>4, NextLowers
  <2>2. Left(h) \in 0..6 /\ Left(h)' \in 0..6
    BY DEF Left, StatementsLeft
  <2>. QED
    BY <1>2, <2>1, <2>2
<1>5. ASSUME Inv, <<Advance(h)>>_vars
      PROVE  /\ L(1) => L(0)'
             /\ L(2) => L(1)' \/ L(0)'
             /\ L(3) => L(2)' \/ L(1)' \/ L(0)'
             /\ L(4) => L(3)' \/ L(2)' \/ L(1)' \/ L(0)'
             /\ L(5) => L(4)' \/ L(3)' \/ L(2)' \/ L(1)' \/ L(0)'
             /\ L(6) => L(5)' \/ L(4)' \/ L(3)' \/ L(2)' \/ L(1)' \/ L(0)'
  <2>1. Left(h)' < Left(h)
    BY <1>5, AdvanceLowers
  <2>2. Left(h) \in 0..6 /\ Left(h)' \in 0..6
    BY DEF Left, StatementsLeft
  <2>. QED
    BY <2>1, <2>2
<1>6. KeepsRunning => []<>At(h, "done") \/ []<><<Advance(h)>>_vars
  BY DEF KeepsRunning
<1>. HIDE DEF L
<1>. QED
  BY <1>2, <1>3, <1>4, <1>5, <1>6, Invariance, PTL DEF Spec
=============================================================================
