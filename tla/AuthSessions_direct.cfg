\* The methods called with any arguments; replies of the database are lost;
\* the account is deleted or activated meanwhile; no UNIQUE on access_token_id,
\* so that two sessions live at once. A run may stop once the pool of session
\* ids is used and every request is answered.
CONSTANTS
    User = {u1}
    Password = {p1, p2}
    Session = {s1, s2}
    Token = {t1, t2}
    Handler = {h1, h2}
    None = None
    Boundary = {"usecase"}
    DbOutcome = {"ok", "unacked"}
    UniqueJti = FALSE
    AdminMoves = {"active", "deleted"}
SPECIFICATION Spec
SYMMETRY Interchangeable
INVARIANTS TypeOK AnswersMatchStore AuditSound NoPasswordNoSession
PROPERTIES AccountsKept RevocationIsFinal NoRotation
CHECK_DEADLOCK FALSE
