\* One request at a time against a database that works.
CONSTANTS
    Tenant = {t1, t2}
    User = {u1}
    Email = {e1, e2}
    Username = {n1}
    Code = {SYSTEM, c1}
    Domain = {d1}
    Actor = {None}
    Handler = {h1}
    None = None
    Zero = Zero
    SeedTenant = t1
    SeedCode = SYSTEM
    DbOutcome = {"ok"}
    NewEmail = {e1}
    OtherEmail = {e2}
    StatusGiven = {"blocked", "inactive"}
    Operations = {"Register", "CreateUser", "UpdateUser", "DeleteUser",
                  "CreateTenant", "UpdateTenant", "DeleteTenant"}
SPECIFICATION MCSpec
PROPERTY OperationsAudited
CHECK_DEADLOCK FALSE
