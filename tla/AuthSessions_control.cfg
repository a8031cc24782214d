\* One client that logs in, then refreshes and logs out, behind a middleware
\* that puts the claims of its access token in the context.
CONSTANTS
    User = {u1}
    Password = {p1}
    Session = {s1}
    Token = {t1, t2}
    Handler = {h1, h2}
    None = None
    Boundary = {"claims"}
    DbOutcome = {"ok"}
    UniqueJti = TRUE
    AdminMoves = {}
SPECIFICATION Spec
INVARIANTS RenewsOrEnds
CHECK_DEADLOCK FALSE
