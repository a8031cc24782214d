--------------------------- MODULE MCRateLimiter ---------------------------
(* Instances of RateLimiter for TLC. *)
EXTENDS RateLimiter, TLC

\* The limits of all requests, then those of an endpoint; a window is two
\* ticks of the clock in memory and one second of Redis.
MCStages == <<[burst |-> 2, window |-> 2, seconds |-> 1],
              [burst |-> 1, window |-> 2, seconds |-> 1]>>

Interchangeable == Permutations(Handler)
=============================================================================
