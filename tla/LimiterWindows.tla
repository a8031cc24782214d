--------------------------- MODULE LimiterWindows ---------------------------
(***************************************************************************)
(* RateLimiter against the limit its documents give it: a sliding window,  *)
(* kept in Redis, and in memory while Redis is away.  A request meets      *)
(* Redis either answering each of its commands or failing from the first,  *)
(* the two clocks run together, and a history is kept of whom Redis let    *)
(* pass.                                                                   *)
(***************************************************************************)
EXTENDS RateLimiter

CONSTANT TicksPerSecond  \* of the monotonic clock, at least 1

\* counted[k]: the seconds, as read by the latest requests of k that Redis added
\* to its count and let pass, as many as one more than the largest burst.
VARIABLE counted

Latest(s) == IF Len(s) > MaxBurst + 1 THEN Tail(s) ELSE s

AddsToRedis(h) == At(h, "add") /\ req'[h].pc = "expire"

\* A request whose first command Redis has answered has all of them answered.
RedisAnswers(h) ==
    /\ At(h, "count") => req'[h].pc # "local"
    /\ AddsToRedis(h) => req[h].now \in zset'[req[h].key]

Noted(h) ==
    counted' = IF AddsToRedis(h)
               THEN [counted EXCEPT ![req[h].key] = Latest(Append(@, req[h].now))]
               ELSE counted

\* Neither clock is more than a second ahead of the other.
Together ==
    /\ TicksPerSecond * unix <= clock
    /\ clock <= TicksPerSecond * (unix + 1)

InitWindows == Init /\ counted = [k \in Key |-> <<>>]

NextWindows ==
    \/ \E h \in Handler : Serve(h) /\ RedisAnswers(h) /\ Noted(h)
    \/ (\E k \in Key : ExpireKey(k)) /\ UNCHANGED counted
    \/ (Tick \/ Second) /\ Together' /\ UNCHANGED counted

SpecWindows == InitWindows /\ [][NextWindows]_<<vars, counted>>

-----------------------------------------------------------------------------
(* What the repository says and the code does not do *)

\* Of the requests of one key that Redis lets pass, one more than a burst never
\* lie within the seconds of the shortest window.
SlidesInRedis ==
    \A k \in Key :
        Len(counted[k]) > MaxBurst =>
            \E i \in DOMAIN Stages :
                counted[k][MaxBurst + 1] >= counted[k][1] + Stages[i].seconds

\* The same of the requests that pass in memory.
SlidesInMemory ==
    \A k \in Key : \A i \in DOMAIN log[k] :
        i + MaxBurst \in DOMAIN log[k] =>
            log[k][i + MaxBurst] > log[k][i] + MinWindow

\* ratelimit.go:17 "rate limiting using sliding window algorithm", ratelimit.go:99
\* "uses Redis for distributed rate limiting", api-gateway/README.md:129 "Sliding
\* window rate limiter (Redis-backed)": both counts are said to keep to a burst
\* in any span of one window; what is left of that if one of them does.
SlidingWindow == SlidesInRedis \/ SlidesInMemory
=============================================================================
