\* A login writes back the credential it read, over a password change.
CONSTANTS
    User = {u1}
    Password = {p1, p2}
    Session = {s1}
    Token = {t1, t2}
    Handler = {h1, h2}
    None = None
    Boundary = {"usecase"}
    DbOutcome = {"ok"}
    UniqueJti = TRUE
    AdminMoves = {}
SPECIFICATION Spec
PROPERTIES OnlyChangeChangesPassword
CHECK_DEADLOCK FALSE
