\* Two requests at a time on the seeded role and two more.
CONSTANTS
    Role = {r0, r1, r2}
    Permission = {p0}
    User = {u1}
    Tenant = {t1}
    Code = {ROLE_USER, c1}
    Right = {read}
    None = None
    Nobody = Nobody
    SystemRole = r0
    SystemCode = ROLE_USER
    Handler = {h1, h2}
    DbOutcome = {"ok", "unacked"}
    Operations = {"CreatePermission", "CreateRole", "UpdateRole", "DeleteRole", "AssignPermission", "RemovePermission", "AssignRole", "RemoveRole", "Register", "CreateUser"}
    StatusGiven = {FALSE}
    Actor = {None}
    MaxListed = 1
    MaxAssigned = 1
SPECIFICATION Spec
SYMMETRY Interchangeable
INVARIANTS TypeOK RegistersAsUser CodesClashOnlyByRace NothingDangles AuditSound
PROPERTIES RolesStayDeleted
CHECK_DEADLOCK FALSE
