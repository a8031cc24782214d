--------------------------- MODULE MCAuthSessions ---------------------------
(* Instances of AuthSessions for TLC. *)
EXTENDS AuthSessions, TLC

\* Handlers, session ids and refresh tokens are interchangeable, and so are
\* users and passwords: Init treats all alike.
Interchangeable ==
    Permutations(Handler) \cup Permutations(Session) \cup Permutations(Token)
        \cup Permutations(User) \cup Permutations(Password)
=============================================================================
