\* Over HTTP, as wired and behind a middleware that puts the token's claims in
\* the context; statements may fail; fair handlers. No symmetry: RequestsEnd is
\* a liveness property.
CONSTANTS
    User = {u1}
    Password = {p1}
    Session = {s1, s2}
    Token = {t1, t2}
    Handler = {h1, h2}
    None = None
    Boundary = {"wired", "claims"}
    DbOutcome = {"ok", "fails"}
    UniqueJti = TRUE
    AdminMoves = {"tenant"}
SPECIFICATION FairSpec
INVARIANTS AtMostOneSession LogoutRevokesNothing
PROPERTIES RequestsEnd
CHECK_DEADLOCK FALSE
