---------------------------- MODULE RateLimiter ----------------------------
(***************************************************************************)
(* The gateway's rate limiter (api-gateway/internal/middleware/            *)
(* ratelimit.go): a count per key in Redis, shared by all replicas, and a  *)
(* map in memory that stands in when Redis fails.                          *)
(*                                                                         *)
(* A request passes the limiter once per stage: globally, then, for an     *)
(* endpoint with limits of its own, again.  Both stages count under the    *)
(* same key, which names the client, the method and the path and nothing   *)
(* of the stage.                                                           *)
(*                                                                         *)
(* Redis scores are wall-clock seconds, the windows in memory run on the   *)
(* process's monotonic clock; the two clocks advance independently here.   *)
(* Each Redis command is a step: the pipeline is no transaction.           *)
(* Left out: headers and retry-after, the default values of a stage's      *)
(* limits, the limiter switched off.                                       *)
(***************************************************************************)
EXTENDS FiniteSets, Integers, Sequences

CONSTANTS
    Key,         \* what generateKey can return
    Handler,     \* slots for requests in progress
    None,        \* no counter, no expiry
    Stages,      \* the limits a request meets, in their order
    MaxBurst, MinWindow,  \* of the stages
    CleanupAge,  \* age at which cleanupLoop drops a counter
    MaxClock, MaxUnix     \* bounds of the clocks

\* burst, the window on the monotonic clock, and int64(window.Seconds()).
Stage == [burst : Nat \ {0}, window : Nat, seconds : Nat]

ASSUME StagesAssumption ==
    /\ Stages \in Seq(Stage) /\ Stages # <<>>
    /\ MaxBurst \in Nat \ {0} /\ MinWindow \in Nat
    /\ \A i \in DOMAIN Stages : /\ Stages[i].burst <= MaxBurst
                                /\ Stages[i].window >= MinWindow

\* As with the minute-long windows of gateway.yaml and the two minutes of
\* cleanupLoop: a counter is dropped only after its window.
ASSUME CleanupAssumption == CleanupAge \in Nat /\ CleanupAge >= MinWindow

ASSUME BoundsAssumption == MaxClock \in Nat /\ MaxUnix \in Nat

Counter == [count : 1..MaxBurst, window : Nat]

ASSUME NoneAssumption == None \notin Counter /\ None \notin Int

VARIABLES
    clock,  \* the monotonic clock of the process
    unix,   \* the wall clock, in seconds
    local,  \* localCache
    zset,   \* the scores of each Redis key; its members are "<score>:<key>",
            \* so there is one member per second
    ttl,    \* when each Redis key expires, or None
    log,    \* history: when each key passed in memory, since the process began
    slow,   \* history: the longest a request took from reading the clock to
            \* a ZCARD or ZADD
    req     \* the requests in progress

vars == <<clock, unix, local, zset, ttl, log, slow, req>>

Request == [pc : {"idle", "start", "trim", "count", "add", "expire", "local"},
            key : Key,
            stage : DOMAIN Stages,
            now : Nat,     \* time.Now().Unix() as read in isAllowedRedis
            reply : {"none", "passed", "redis_full", "local_full"}]

At(h, p) == req[h].pc = p
Limits(h) == Stages[req[h].stage]
Step(h, r) == req' = [req EXCEPT ![h] = r]
Goto(h, p) == Step(h, [req[h] EXCEPT !.pc = p])
Refuse(h, why) ==
    Step(h, [req[h] EXCEPT !.pc = "idle", !.now = 0, !.reply = why])

\* How long ago the request read the clock, and what that makes of slow.
Late(h) == unix - req[h].now
NoteDelay(h) == slow' = IF Late(h) > slow THEN Late(h) ELSE slow

\* On to the next stage, or out of the limiter's hands: the request has no
\* further stage, or another middleware rejects it before.
Pass(h) ==
    \/ /\ req[h].stage + 1 \in DOMAIN Stages
       /\ Step(h, [req[h] EXCEPT !.pc = "start", !.now = 0, !.stage = @ + 1])
    \/ Step(h, [req[h] EXCEPT !.pc = "idle", !.now = 0, !.stage = 1,
                              !.reply = "passed"])

Begin(h, k) ==
    /\ At(h, "idle")
    /\ Step(h, [pc |-> "start", key |-> k, stage |-> 1, now |-> 0,
                reply |-> "none"])
    /\ UNCHANGED <<clock, unix, local, zset, ttl, log, slow>>

-----------------------------------------------------------------------------
(* isAllowedRedis *)

ReadClock(h) ==
    /\ At(h, "start")
    /\ Step(h, [req[h] EXCEPT !.pc = "trim", !.now = unix])
    /\ UNCHANGED <<clock, unix, local, zset, ttl, log, slow>>

\* Mutant of Outdated: ZREMRANGEBYSCORE with an exclusive bound.
OutdatedExclusive(s, now, seconds) == s < now - seconds

\* What ZREMRANGEBYSCORE removes.
Outdated(s, now, seconds) == s <= now - seconds

\* ZREMRANGEBYSCORE.  An empty key is gone, with its expiry.  On an error of
\* the pipeline the count in memory decides.
TrimInRedis(h) ==
    LET k == req[h].key
        recent == {s \in zset[k] : ~Outdated(s, req[h].now, Limits(h).seconds)}
    IN
    /\ At(h, "trim")
    /\ \/ /\ zset' = [zset EXCEPT ![k] = recent]
          /\ ttl' = IF recent = {} THEN [ttl EXCEPT ![k] = None] ELSE ttl
          /\ Goto(h, "count")
       \/ UNCHANGED <<zset, ttl>> /\ Goto(h, "local")
    /\ UNCHANGED <<clock, unix, local, log, slow>>

\* ZCARD.
CountInRedis(h) ==
    LET full == Cardinality(zset[req[h].key]) >= Limits(h).burst IN
    /\ At(h, "count")
    /\ \/ full /\ Refuse(h, "redis_full")
       \/ ~full /\ Goto(h, "add")
       \/ Goto(h, "local")
    /\ NoteDelay(h)
    /\ UNCHANGED <<clock, unix, local, zset, ttl, log>>

\* ZADD; its error is ignored.
AddToRedis(h) ==
    /\ At(h, "add")
    /\ \/ UNCHANGED zset
       \/ zset' = [zset EXCEPT ![req[h].key] = @ \cup {req[h].now}]
    /\ NoteDelay(h)
    /\ Goto(h, "expire")
    /\ UNCHANGED <<clock, unix, local, ttl, log>>

\* EXPIRE, of a key that exists; its error is ignored.
ExpireInRedis(h) ==
    LET k == req[h].key IN
    /\ At(h, "expire")
    /\ \/ UNCHANGED ttl
       \/ zset[k] # {} /\ ttl' = [ttl EXCEPT ![k] = unix + Limits(h).seconds]
    /\ Pass(h)
    /\ UNCHANGED <<clock, unix, local, zset, log, slow>>

\* Redis drops a key whose time has come.
ExpireKey(k) ==
    /\ ttl[k] # None /\ unix >= ttl[k]
    /\ zset' = [zset EXCEPT ![k] = {}]
    /\ ttl' = [ttl EXCEPT ![k] = None]
    /\ UNCHANGED <<clock, unix, local, log, slow, req>>

-----------------------------------------------------------------------------
(* isAllowedLocal, under the mutex *)

Running(c, window) == c # None /\ clock - c.window <= window

\* Mutant of Full: one request too many.
FullBeyond(c, burst) == c.count > burst

Full(c, burst) == c.count >= burst

\* Mutant of Counted: each request starts the window again.
CountedRestart(c) == [c EXCEPT !.count = @ + 1, !.window = clock]

Counted(c) == [c EXCEPT !.count = @ + 1]

CountInMemory(h) ==
    LET k == req[h].key
        c == local[k]
        passes(d) == /\ local' = [local EXCEPT ![k] = d]
                     /\ log' = [log EXCEPT ![k] = Append(@, clock)]
                     /\ Pass(h)
    IN
    /\ At(h, "local")
    /\ \/ ~Running(c, Limits(h).window) /\ passes([count |-> 1, window |-> clock])
       \/ /\ Running(c, Limits(h).window) /\ ~Full(c, Limits(h).burst)
          /\ passes(Counted(c))
       \/ /\ Running(c, Limits(h).window) /\ Full(c, Limits(h).burst)
          /\ Refuse(h, "local_full")
          /\ UNCHANGED <<local, log>>
    /\ UNCHANGED <<clock, unix, zset, ttl, slow>>

\* Mutant of Stale: any counter of an earlier moment.
StaleAtOnce(c) == c # None /\ clock # c.window

Stale(c) == c # None /\ clock - c.window > CleanupAge

\* cleanupLoop, at an arbitrary moment: the ticker's phase is arbitrary.
Cleanup ==
    /\ \E k \in Key : Stale(local[k])
    /\ local' = [k \in Key |-> IF Stale(local[k]) THEN None ELSE local[k]]
    /\ UNCHANGED <<clock, unix, zset, ttl, log, slow, req>>

-----------------------------------------------------------------------------
Tick ==
    /\ clock < MaxClock
    /\ clock' = clock + 1
    /\ UNCHANGED <<unix, local, zset, ttl, log, slow, req>>

Second ==
    /\ unix < MaxUnix
    /\ unix' = unix + 1
    /\ UNCHANGED <<clock, local, zset, ttl, log, slow, req>>

Idle(k) == [pc |-> "idle", key |-> k, stage |-> 1, now |-> 0, reply |-> "none"]

\* The process starts again: Redis keeps what it has.
Restart ==
    /\ local' = [k \in Key |-> None]
    /\ log' = [k \in Key |-> <<>>]
    /\ \E k \in Key : req' = [h \in Handler |-> Idle(k)]
    /\ UNCHANGED <<clock, unix, zset, ttl, slow>>

Init ==
    /\ clock = 0 /\ unix = 0 /\ slow = 0
    /\ local = [k \in Key |-> None]
    /\ zset = [k \in Key |-> {}]
    /\ ttl = [k \in Key |-> None]
    /\ log = [k \in Key |-> <<>>]
    /\ \E k \in Key : req = [h \in Handler |-> Idle(k)]

Serve(h) ==
    \/ \E k \in Key : Begin(h, k)
    \/ ReadClock(h) \/ TrimInRedis(h) \/ CountInRedis(h) \/ AddToRedis(h)
    \/ ExpireInRedis(h) \/ CountInMemory(h)

Next ==
    \/ \E h \in Handler : Serve(h)
    \/ \E k \in Key : ExpireKey(k)
    \/ Cleanup \/ Tick \/ Second \/ Restart

Spec == Init /\ [][Next]_vars

-----------------------------------------------------------------------------
(* Properties *)

TypeOK ==
    /\ clock \in Nat /\ unix \in Nat /\ slow \in Nat
    /\ local \in [Key -> Counter \cup {None}]
    /\ zset \in [Key -> SUBSET Nat]
    /\ ttl \in [Key -> Nat \cup {None}]
    /\ log \in [Key -> Seq(Nat)]
    /\ req \in [Handler -> Request]

\* The count in memory lets at most two bursts of a key through in any span of
\* one window, whatever Redis failures, cleanups and concurrent stages do.
TwoBursts ==
    \A k \in Key : \A i \in DOMAIN log[k] :
        i + 2 * MaxBurst \in DOMAIN log[k] =>
            log[k][i + 2 * MaxBurst] > log[k][i] + MinWindow

\* The count in memory refuses a request only if, within the window up to now,
\* it let a whole burst of the key pass: no window is prolonged by the requests
\* it refuses or counts, and no count outlives its window.
RefusedOnlyWhenFull ==
    [][\A h \in Handler :
         At(h, "local") /\ req'[h].reply = "local_full" =>
             LET passed == log[req[h].key]
                 first == Len(passed) - Limits(h).burst + 1
             IN first >= 1 /\ passed[first] >= clock - Limits(h).window]_vars

\* How far Redis is from the limit that the documents give it (module
\* LimiterWindows): it refuses a request only if some request was slower, from
\* reading the clock to counting or adding itself, than the burst exceeds the
\* seconds of the window, since requests of one second count as one.  With the
\* limits of gateway.yaml, 150 a minute, some request must be 75 seconds late.
RefusedOnlyIfSlow ==
    \A h \in Handler :
        req[h].reply = "redis_full" =>
            Limits(h).burst <= (IF Limits(h).seconds > slow
                                THEN Limits(h).seconds ELSE slow + 1) + slow
=============================================================================
