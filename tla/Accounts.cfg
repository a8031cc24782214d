\* Two requests at a time: accounts registered, updated and deleted; accounts
\* created while their tenant is updated and deleted; tenants created and changed.
CONSTANTS
    Tenant = {t1, t2}
    User = {u1, u2}
    Email = {e1, e2}
    Username = {n1, n2}
    Code = {SYSTEM, c1}
    Domain = {d1}
    Actor = {None}
    Handler = {h1, h2}
    None = None
    Zero = Zero
    SeedTenant = t1
    SeedCode = SYSTEM
    DbOutcome = {"ok", "fails", "unacked"}
    NewEmail = {e1}
    OtherEmail = {e2}
    StatusGiven = {"blocked", "inactive"}
    Operations = {"Register", "CreateUser", "UpdateUser", "DeleteUser",
                  "CreateTenant", "UpdateTenant", "DeleteTenant"}
SPECIFICATION MCSpec
SYMMETRY Interchangeable
INVARIANTS TypeOK NamesDistinct EmailSharedOnlyByRace AuditSound
PROPERTIES LifeKept NoUserInDeletedTenant
CHECK_DEADLOCK FALSE
