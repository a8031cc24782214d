----------------------------- MODULE MCGateway -----------------------------
(* Instances of Gateway for TLC. *)
EXTENDS Gateway

\* As gateway.yaml, with one connection, and without its enable_auth, for which
\* there is no default.
Shipped == [endpoints |-> Endpoint, auth |-> TRUE, cors |-> TRUE, conns |-> 1]

MCFiles == {Shipped, [Shipped EXCEPT !.auth = FALSE]}
=============================================================================
