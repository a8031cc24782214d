------------------------------ MODULE Gateway ------------------------------
(***************************************************************************)
(* The API gateway around one request and around its own life              *)
(* (api-gateway/cmd/gateway/main.go, internal/proxy, internal/middleware,  *)
(* internal/config): the middleware chain, Forward, the deadlines of the   *)
(* server and of the HTTP client, graceful shutdown, crash and restart.    *)
(*                                                                         *)
(* Between two points where a handler waits (Redis, the request's body, a  *)
(* connection, the backend, the write) its code is one step.  Backend and  *)
(* clients do what they like: a backend may act after the gateway gave up  *)
(* on it.  The rate limiter appears by its verdict only; RateLimiter has   *)
(* it in detail.  Left out: bodies and their truncation, redirects that    *)
(* the client follows, most headers (an Idempotency-Key, which would make  *)
(* any method replayable, is one), what is logged, and recoveryMiddleware, *)
(* since nothing that a handler calls here panics.                         *)
(***************************************************************************)
EXTENDS FiniteSets, Integers

CONSTANTS
    Handler,  \* slots for requests
    None,
    Endpoint, \* the routes of a configuration file,
    RequiresAuth, RateLimited,  \* those with requires_auth, with rate_limit,
    Replayable,   \* those whose method http.Transport may send again
    Files,    \* the configuration files there may be
    ReadTimeout, WriteTimeout, RequestTimeout, ShutdownTimeout,
    Late,     \* how long after the signal a new connection is still served
    MaxCopies \* bound: how often a request reaches the backend

\* What a file says: its routes, enable_auth, cors.enabled and
\* max_conns_per_host, where zero is no bound.
File == [endpoints : SUBSET Endpoint, auth : BOOLEAN, cors : BOOLEAN, conns : Nat]

\* "local": /health, /gateway/info.  "unknown": no such route or method.
Target == Endpoint \cup {"preflight", "local", "unknown"}

Status == {"ok", "refused", "unavailable", "limited", "unauthorized", "notfound"}

ASSUME TypeAssumption ==
    /\ RequiresAuth \cup RateLimited \cup Replayable \subseteq Endpoint
    /\ Files \subseteq File
    /\ None \notin Endpoint \cup Status \cup {"waiting", "happened", "unsure"}
    /\ {"preflight", "local", "unknown"} \cap Endpoint = {}

ASSUME TimeAssumption ==
    /\ {ReadTimeout, WriteTimeout, RequestTimeout, ShutdownTimeout}
         \subseteq Nat \ {0}
    /\ Late \in Nat
    /\ MaxCopies \in Nat \ {0}

\* main: the server writes its answers within the time it gives Shutdown, the
\* late ones too.
ASSUME ShutdownAssumption == WriteTimeout + Late <= ShutdownTimeout

VARIABLES
    conf,    \* the configuration of this process
    server,  \* "up", "draining" since a signal, "stopped", "crashed"
    drain,   \* time since the signal
    req,     \* the requests, see Request
    work     \* what the backend does of each, see Work

vars == <<conf, server, drain, req, work>>

-----------------------------------------------------------------------------
(* Configuration *)

\* LoadFromEnv: no service, and the zero value of every field it leaves out.
FromEnv == [endpoints |-> {}, auth |-> TRUE, cors |-> TRUE, conns |-> 0]

\* main: a file that cannot be read or parsed counts as none.  setDefaults has
\* no default for these four keys.
Configurations == {FromEnv} \cup Files

-----------------------------------------------------------------------------
(* Requests *)

\* The times stand still once nothing looks at how they go on.
LastDeadline == IF ReadTimeout > WriteTimeout THEN ReadTimeout ELSE WriteTimeout

Request == [pc : {"idle", "global", "limit", "body", "conn", "sent", "write", "done"},
            target : Target,
            token : BOOLEAN,          \* it carries a valid token
            age : 0..LastDeadline,    \* since the server read its headers
            fwd : 0..RequestTimeout,  \* since Client.Do
            client : BOOLEAN,         \* the client is still there
            status : Status \cup {None}]  \* of a request that is done: what
                                          \* its client received, or None

\* copies: received and not yet dealt with; changes: how often it took effect;
\* answer: on its way to the gateway.
Work == [copies : 0..MaxCopies, changes : 0..MaxCopies, answer : {"ok", "refused", "broken", None}]

NoWork == [copies |-> 0, changes |-> 0, answer |-> None]

Idle == [pc |-> "idle", target |-> "unknown", token |-> FALSE, age |-> 0, fwd |-> 0,
         client |-> FALSE, status |-> None]

At(h, p) == req[h].pc = p
InFlight(h) == req[h].pc \notin {"idle", "done"}
Running == server \in {"up", "draining"}

Step(h, r) == req' = [req EXCEPT ![h] = r]
Goto(h, p) == Step(h, [req[h] EXCEPT !.pc = p])
Reply(h, s) == Step(h, [req[h] EXCEPT !.pc = "write", !.status = s, !.fwd = 0])

NeedsToken(t) == t \in RequiresAuth /\ conf.auth

\* A connection that was accepted before the signal may still bring its first
\* request: Shutdown leaves it open for that.
Accepts == server = "up" \/ (server = "draining" /\ drain <= Late)

\* A token that nothing looks at makes no difference.
Arrive(h) ==
    /\ Accepts /\ ~InFlight(h) /\ work[h].copies = 0
    /\ \E t \in Target, token \in BOOLEAN :
         /\ token => NeedsToken(t)
         /\ Step(h, [Idle EXCEPT !.pc = "global", !.target = t, !.token = token,
                                 !.client = TRUE])
    /\ work' = [work EXCEPT ![h] = NoWork]
    /\ UNCHANGED <<conf, server, drain>>

\* CORS, if it is enabled, answers the preflights of the origins it allows; no
\* route has the method of the others.
Preflight(h) == (conf.cors /\ Reply(h, "ok")) \/ Reply(h, "notfound")

\* Auth of an endpoint that requires it lets the request pass.
Authorized(h) == NeedsToken(req[h].target) => req[h].token

\* The rest of the route: its limiter, if it has one, then Forward.
Admit(h) == Goto(h, IF req[h].target \in RateLimited THEN "limit" ELSE "body")

NoRoute(t) == t \notin conf.endpoints \cup {"preflight", "local"}

\* Mutant of Routed: Auth is left out.
RoutedUnchecked(h) ==
    LET t == req[h].target IN
    \/ t = "preflight" /\ Preflight(h)
    \/ t = "local" /\ Reply(h, "ok")
    \/ t \in conf.endpoints /\ Admit(h)
    \/ NoRoute(t) /\ Reply(h, "notfound")

\* CORS, RequestLogger, the mux, then what the route is wrapped in.
Routed(h) ==
    LET t == req[h].target IN
    \/ t = "preflight" /\ Preflight(h)
    \/ t = "local" /\ Reply(h, "ok")
    \/ t \in conf.endpoints /\ ~Authorized(h) /\ Reply(h, "unauthorized")
    \/ t \in conf.endpoints /\ Authorized(h) /\ Admit(h)
    \/ NoRoute(t) /\ Reply(h, "notfound")

GlobalLimit(h) ==
    /\ At(h, "global")
    /\ Reply(h, "limited") \/ Routed(h)
    /\ UNCHANGED <<conf, server, drain, work>>

EndpointLimit(h) ==
    /\ At(h, "limit")
    /\ Reply(h, "limited") \/ Goto(h, "body")
    /\ UNCHANGED <<conf, server, drain, work>>

-----------------------------------------------------------------------------
(* Forward *)

\* io.ReadAll(r.Body), then Client.Do begins.
BodyArrives(h) ==
    /\ At(h, "body") /\ req[h].client /\ req[h].age < ReadTimeout
    /\ Goto(h, "conn")
    /\ UNCHANGED <<conf, server, drain, work>>

\* The read deadline of the server, or the client is gone.
BodyFails(h) ==
    /\ At(h, "body") /\ (~req[h].client \/ req[h].age >= ReadTimeout)
    /\ Reply(h, "unavailable")
    /\ UNCHANGED <<conf, server, drain, work>>

Busy == {h \in Handler : At(h, "sent")}

\* A connection of the pool, at most MaxConnsPerHost if that is not zero, and
\* the request goes out on it.
Send(h) ==
    /\ At(h, "conn")
    /\ conf.conns = 0 \/ Cardinality(Busy) < conf.conns
    /\ Goto(h, "sent")
    /\ work' = [work EXCEPT ![h].copies = @ + 1]
    /\ UNCHANGED <<conf, server, drain>>

\* The backend cannot be reached.
DialFails(h) ==
    /\ At(h, "conn")
    /\ Reply(h, "unavailable")
    /\ UNCHANGED <<conf, server, drain, work>>

\* Mutant of SendsAgain: whatever the method.
SendsAnything(h) == TRUE

\* http.Transport sends a request again after its connection broke only if
\* that changes nothing.
SendsAgain(h) == req[h].target \in Replayable

\* The connection breaks, before or after the backend read the request.
ConnectionLost(h) ==
    /\ At(h, "sent")
    /\ \/ /\ SendsAgain(h) /\ work[h].copies + work[h].changes < MaxCopies
          /\ work' = [work EXCEPT ![h].copies = @ + 1, ![h].answer = None]
          /\ UNCHANGED req
       \/ /\ work' = [work EXCEPT ![h].answer = None]
          /\ Reply(h, "unavailable")
    /\ UNCHANGED <<conf, server, drain>>

\* Mutant of Told: the status of the backend as it is.
ToldAsIs(answer) == answer

\* createEndpointHandler: a status from 500 on becomes its own error.
Told(answer) == IF answer = "broken" THEN "unavailable" ELSE answer

Receive(h) ==
    /\ At(h, "sent") /\ work[h].answer # None
    /\ Reply(h, Told(work[h].answer))
    /\ work' = [work EXCEPT ![h].answer = None]
    /\ UNCHANGED <<conf, server, drain>>

\* Mutant of GiveUp: a Client without a Timeout.
GiveUpOnClient(h) ==
    /\ At(h, "conn") \/ At(h, "sent")
    /\ ~req[h].client
    /\ Reply(h, "unavailable")
    /\ work' = [work EXCEPT ![h].answer = None]
    /\ UNCHANGED <<conf, server, drain>>

\* Client.Timeout, or the context of a client that is gone.
GiveUp(h) ==
    /\ At(h, "conn") \/ At(h, "sent")
    /\ req[h].fwd >= RequestTimeout \/ ~req[h].client
    /\ Reply(h, "unavailable")
    /\ work' = [work EXCEPT ![h].answer = None]
    /\ UNCHANGED <<conf, server, drain>>

\* The answer arrives unless the client is gone or the server's write deadline,
\* counted from the headers of the request, has passed.
Deliverable(r) == r.client /\ r.age < WriteTimeout

\* A request that is over, its client having received this.
Over(h, status) == [Idle EXCEPT !.pc = "done", !.target = req[h].target, !.status = status]

Write(h) ==
    /\ At(h, "write")
    /\ Step(h, Over(h, IF Deliverable(req[h]) THEN req[h].status ELSE None))
    /\ UNCHANGED <<conf, server, drain, work>>

-----------------------------------------------------------------------------
(* The backend, the client, time *)

\* A call that may change something.
Changes(h) == req[h].target \in Endpoint \ Replayable

\* An answer goes to the gateway as long as it waits for one.
Answer(h, w, answer) ==
    work' = [work EXCEPT ![h] =
               [w EXCEPT !.answer = IF At(h, "sent") /\ Running THEN answer ELSE None]]

BackendActs(h) ==
    LET w == [work[h] EXCEPT !.copies = @ - 1,
                             !.changes = IF Changes(h) THEN @ + 1 ELSE @]
    IN
    /\ work[h].copies > 0
    /\ \E answer \in {"ok", "broken"} : Answer(h, w, answer)
    /\ UNCHANGED <<conf, server, drain, req>>

BackendDeclines(h) ==
    LET w == [work[h] EXCEPT !.copies = @ - 1] IN
    /\ work[h].copies > 0
    /\ \E answer \in {"refused", "broken"} : Answer(h, w, answer)
    /\ UNCHANGED <<conf, server, drain, req>>

ClientLeaves(h) ==
    /\ InFlight(h) /\ req[h].client
    /\ Step(h, [req[h] EXCEPT !.client = FALSE])
    /\ UNCHANGED <<conf, server, drain, work>>

Later(t, last) == IF t < last THEN t + 1 ELSE t

Aged(r) == [r EXCEPT !.age = Later(@, LastDeadline),
                     !.fwd = IF r.pc \in {"conn", "sent"} THEN Later(@, RequestTimeout) ELSE @]

Tick ==
    /\ Running
    /\ drain' = IF server = "draining" THEN Later(drain, ShutdownTimeout) ELSE drain
    /\ req' = [h \in Handler |-> IF InFlight(h) THEN Aged(req[h]) ELSE req[h]]
    /\ UNCHANGED <<conf, server, work>>

-----------------------------------------------------------------------------
(* The process *)

\* server.Shutdown begins: the listener is closed, and connections as they get
\* idle.
Signal ==
    /\ server = "up"
    /\ server' = "draining"
    /\ UNCHANGED <<conf, drain, req, work>>

\* What becomes of the requests in flight when the process ends.
Cut == [h \in Handler |-> IF InFlight(h) THEN Over(h, None) ELSE req[h]]

Ended(s) ==
    /\ server' = s
    /\ req' = Cut
    /\ drain' = 0
    /\ work' = [h \in Handler |-> [work[h] EXCEPT !.answer = None]]
    /\ UNCHANGED conf

\* Mutant of MayExit: main does not wait for Shutdown.
MayExitAtOnce == TRUE

\* Shutdown returns: no request is left, or its context is over.
MayExit == drain >= ShutdownTimeout \/ \A h \in Handler : ~InFlight(h)

Exit == server = "draining" /\ MayExit /\ Ended("stopped")

Crash == Running /\ Ended("crashed")

Start ==
    /\ ~Running
    /\ server' = "up"
    /\ conf' \in Configurations
    /\ UNCHANGED <<drain, req, work>>

-----------------------------------------------------------------------------
Init ==
    /\ conf \in Configurations
    /\ server = "up" /\ drain = 0
    /\ req = [h \in Handler |-> Idle]
    /\ work = [h \in Handler |-> NoWork]

\* What the gateway does of its own accord.
Serve(h) ==
    \/ GlobalLimit(h) \/ EndpointLimit(h) \/ BodyFails(h) \/ Send(h)
    \/ Receive(h) \/ GiveUp(h) \/ Write(h)

\* What others do to a request.
Disturb(h) ==
    \/ Arrive(h) \/ BodyArrives(h) \/ DialFails(h) \/ ConnectionLost(h)
    \/ BackendActs(h) \/ BackendDeclines(h) \/ ClientLeaves(h)

Next ==
    \/ \E h \in Handler : Serve(h) \/ Disturb(h)
    \/ Tick \/ Signal \/ Exit \/ Crash \/ Start

Spec == Init /\ [][Next]_vars

\* Time passes and the gateway's goroutines run; nothing is assumed of backend
\* and clients.
FairSpec ==
    /\ Spec
    /\ WF_vars(Tick)
    /\ \A h \in Handler : WF_vars(Serve(h))

-----------------------------------------------------------------------------
(* Properties *)

TypeOK ==
    /\ conf \in Configurations
    /\ server \in {"up", "draining", "stopped", "crashed"}
    /\ drain \in 0..ShutdownTimeout
    /\ req \in [Handler -> Request]
    /\ work \in [Handler -> Work]

\* What the client of such a call knows.
Known(h) ==
    IF ~Changes(h) THEN None
    ELSE IF InFlight(h) THEN "waiting"
    ELSE IF req[h].status \in {None, "unavailable"} THEN "unsure"
    ELSE IF req[h].status = "ok" THEN "happened"
    ELSE "refused"

Knows == [h \in Handler |-> Known(h)]

\* How often the change took effect.
Effects == [h \in Handler |-> IF Changes(h) THEN work[h].changes ELSE 0]

Promise == INSTANCE AtMostOnce WITH Call <- Handler, told <- Knows, times <- Effects

\* Whatever timeouts, lost connections, clients that leave and restarts of the
\* gateway do, a call takes effect at most once; if its client is told that it
\* succeeded it has, and if the client is told of a refusal, by the gateway or
\* the backend, it has not and never will.
ChangesAtMostOnce == Promise!Spec

\* A request that is counted by an endpoint's limiter, whose body is read, or
\* that is with the backend is for a route of this process's configuration and
\* has passed Auth if the route asks for it, before and after restarts with
\* another configuration.
CheckedFirst ==
    \A h \in Handler :
        req[h].pc \in {"limit", "body", "conn", "sent"} =>
              req[h].target \in conf.endpoints /\ Authorized(h)

\* A shutdown costs no client an answer it could still have received: those
\* that main abandons after 30 seconds have missed the write deadline.
NoAnswerLostToShutdown ==
    [][Exit => \A h \in Handler : InFlight(h) => ~Deliverable(req[h])]_vars

\* Every request that was accepted ends, however slow Redis, its client or the
\* backend, and however many requests hold the connections.
RequestsEnd == \A h \in Handler : InFlight(h) ~> ~InFlight(h)
=============================================================================
