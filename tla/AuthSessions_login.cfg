\* Two users log in one after the other.
CONSTANTS
    User = {u1, u2}
    Password = {p1}
    Session = {s1, s2}
    Token = {t1, t2}
    Handler = {h1}
    None = None
    Boundary = {"wired"}
    DbOutcome = {"ok"}
    UniqueJti = TRUE
    AdminMoves = {}
SPECIFICATION Spec
INVARIANTS LoginSucceeds
CHECK_DEADLOCK FALSE
