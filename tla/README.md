# Verification of the QLXion gateway and auth-service

TLA+ models of the auth-service (`src/services/auth-service`) and of the API
gateway (`src/api-gateway`), the TLC configurations that check them on small
instances, and TLAPS proofs of their main properties for all values of their
constants. Paths below are relative to `src/`; `AS/` stands
for `services/auth-service/` and `GW/` for `api-gateway/`.

- [1. The system](#1-the-system)
- [2. The modules](#2-the-modules)
- [3. What TLC checks](#3-what-tlc-checks)
- [4. What is proved](#4-what-is-proved)
- [5. Where the code disagrees with its documents](#5-where-the-code-disagrees-with-its-documents)
- [6. What is left out, and the plan](#6-what-is-left-out-and-the-plan)

Run a check with `tlc -workers 2 -config X.cfg MCModule` and a proof with
`tlapm Module.tla`, in this directory.

## 1. The system

A request of a client reaches the gateway, which limits its rate, looks at its
token, and forwards it to a backend; the auth-service is the backend that signs
users in and administers them. All state outside a request is in PostgreSQL
(auth-service), Redis and one map in memory (gateway).

| component | state | operations | interacts with |
|---|---|---|---|
| sign-in sessions, `AS/internal/usecase/auth_usecase.go`, `session_usecase.go` | tables `sessions`, `user_credentials`, the claims of issued tokens | Login, RefreshToken, Logout, ChangePassword, RevokeSession, RevokeAllOtherSessions | reads users, tenants, roles; writes the audit trail |
| user accounts, `auth_usecase.go` (Register), `user_usecase.go` | `users`, `user_credentials` | Register, CreateUser, UpdateUser, DeleteUser | the tenant's row; assigns roles; writes the audit trail |
| tenants, `tenant_usecase.go` | `tenants` | CreateTenant, UpdateTenant, DeleteTenant | referenced by users, roles, audit rows |
| roles and permissions, `role_usecase.go`, `user_usecase.go` | `roles`, `permissions`, `role_permissions`, `user_roles` | Create/Update/DeleteRole, CreatePermission, Assign/RemovePermission, Assign/RemoveRole | referenced by claims; Register's default role |
| audit trail | `audit_logs` | an INSERT at the end of each usecase | foreign keys to users and tenants |
| rate limiter, `GW/internal/middleware/ratelimit.go` | a sorted set per key in Redis, `localCache` | Limit, the cleanup loop | a global stage and one per endpoint share the keys |
| gateway pipeline and proxy, `GW/cmd/gateway/main.go`, `proxy.go`, `middleware/` | requests in flight, connections to backends | the middleware chain, Forward, the handler of an endpoint | rate limiter (global, per endpoint), backends, the deadlines of server and client |
| aggregator and fan-out, `aggregator.go`, `proxy.go:169` | goroutines, a channel and a map per call; the body of the incoming request | AggregateWithRequest, FanOutWithRequest, ForwardMultiple | Forward, by one goroutine for each part |
| server lifecycle, both `main.go` | up, draining, down | start, graceful shutdown, crash | every request in flight |
| configuration, `GW/internal/config/config.go` | what a process was started with | Load, LoadFromEnv, setDefaults | decides the routes, the authentication, CORS and the connections |
| connection pools, response, errors, logger, cache repository, gRPC stub, OAuth repositories | none that outlives a call, or never used | | |

What makes the behaviour hard:

- **No usecase opens a transaction.** Every usecase is a chain of single SQL
  statements, each with a connection of its own, and any two requests
  interleave between any two statements. Checks before an INSERT are SELECTs of
  their own; an UPDATE writes back every column of a row read earlier.
- **Partial failure.** A statement can fail, or take effect while its reply is
  lost; some errors end the request, many are ignored or printed. The process
  can die between two statements, and nothing rolls the first one back.
- **Constraints carry the weight.** UNIQUE columns, foreign keys and ON DELETE
  CASCADE (`AS/migrations/001_init.up.sql`) decide what survives a race. They do
  not cover everything the checks cover (no UNIQUE on e-mail; NULLs are distinct).
- **Deadlines that do not match.** The server of the gateway must write within 10
  seconds of a request's headers, its client waits 30 for the backend, a shutdown
  waits 30 for everything; a backend goes on with what the gateway gave up on.
- **Goroutines that share.** The parts of a fan-out may share keys and the body
  of one request, and end in any order.
- **Two clocks and two counts.** The limiter falls back from Redis to memory
  command by command; Redis goes by wall-clock seconds, memory by a monotonic
  clock; its pipeline is no transaction.

What makes each component correct:

- *Sessions*: revoked stays revoked; what was answered or audited is true of the
  table and stays so; no session without a password; requests are answered.
- *Accounts and tenants*: usernames, codes and domains stay distinct through
  races; deleted is final; a deleted tenant takes no account.
- *Roles*: a registration gets ROLE_USER and nothing else; nothing dangles;
  deleted is final, system roles are left alone.
- *Rate limiter*: bounded passage in any window; no refusal without its cause.
- *Gateway*: a call that changes something takes effect at most once and never
  after its client was told it was refused; authentication comes before the
  forward in every configuration; shutdown costs no answer; every request ends.
- *Fan-out*: the caller gets what came of every part and waits for none in vain; a
  plain or merged answer says so if a part failed (a list leaves it out without a
  word); the order in which goroutines end and maps are visited shows only where
  names collide.

`PROJECT.json` lists the hazards at their lines, each with the properties that
would show it going wrong or the reason why none does yet.

## 2. The modules

| module | models | EXTENDS / INSTANCE |
|---|---|---|
| `AccountLife` | abstract: the life of an account (absent, active, inactive, deleted) and of its password | |
| `AuthSessions` | sign-in sessions | `Life == INSTANCE AccountLife` |
| `Accounts` | Register, CreateUser, UpdateUser, DeleteUser and the tenants | `Life == INSTANCE AccountLife` |
| `Roles` | roles, permissions and their assignments | |
| `RateLimiter` | the gateway's rate limiter | |
| `LimiterWindows` | the limiter next to what its documents say of both counts | extends `RateLimiter` |
| `AtMostOnce` | abstract: what a client that asks for a change may rely on | |
| `Gateway` | the middleware chain, Forward, deadlines, the life of the process | `Promise == INSTANCE AtMostOnce` |
| `Gather` | abstract: what ForwardMultiple promises | |
| `FanOut` | one call of the aggregator with its goroutines | `Promise == INSTANCE Gather` |
| `AuthSessionsProofs`, `AccountsProofs`, `RolesProofs`, `RateLimiterProofs`, `GatewayProofs`, `FanOutProofs` | theorems | the component, TLAPS |
| `MC...` | instances for TLC: symmetry, stages, scenarios | the component |

**Requests.** The three modules of the auth-service share one shape. `req[h]`
is the request in handler slot `h`: a record of what its goroutine keeps in
local variables, with `pc` naming the statement that it runs next. `Arrive(h)`
starts a request in a free slot; `Advance(h)` is one action per statement, which
contains the Go code up to the next one: early returns, error paths, what is
answered. Slots bound how many requests run at a time, not how many run.

**Statements.** A statement comes to an outcome of `DbOutcome`: `"ok"`, `"fails"`
(no effect, an error), `"unacked"` (takes effect, the caller sees an error). The
tables' constraints are operators (`Conflict`, `UserConflict`, `RoleConflict`,
`PermissionKeys`, `TenantKey`, ...) translated from the migration. The
migration's index on live sessions (line 207) has a predicate with NOW(), which
PostgreSQL refuses for an index; the schema is modelled as if the rest of the
migration were in place.

**Crashes.** `Crash` empties every slot and leaves the tables: a request in
progress never gets its answer, and what it wrote stays.

**History variables** (`born`, `seen`, `edited`, `rivals`, `gone`, `missed`,
`log`, `slow`) record what a property compares with; no guard reads them except
to choose the ids of new rows (`FreshRole`: ids are never used again).

`AuthSessions`. `users`, `tenantUp` and `cred` are what sign-in reads of
accounts; administrators change them by `SetUserState` and `SetTenantState`,
which `AccountsKept` checks against `AccountLife`. `sessions` keeps of a row its
user, the hash of its refresh token, `access_token_id`, whether it is revoked and
whether it has expired. `Boundary` is the set of ways in which the usecases
are called: `"wired"` is HTTP as `AS/cmd/auth/main.go` installs it (no middleware
puts claims in the context, so three handlers answer Unauthorized at once, whether
a token comes along or not), `"claims"` is HTTP behind the
middleware that the handlers' comments expect, `"usecase"` is the methods
themselves with any arguments. `UniqueJti = FALSE` drops the UNIQUE of
`access_token_id`: with it the table never holds two rows (`AtMostOneSession`), so
what revocation promises about several sessions is checked without it.

`Accounts`. Three kinds of chains: checks followed by an INSERT (with the
credential after it), a read followed by a full-row UPDATE, a soft delete. Roles
that Register and CreateUser assign in between are in `Roles`, whose errors they
ignore, so that the two modules do not constrain each other. `audit` keeps the
last entry only, as no usecase reads one.

`Roles`. `Matches` is GetByCode, which finds a tenant's own roles and the global
ones, whichever comes first; CreateRole's check and Register's lookup of ROLE_USER
both go through it. `Ours` is the WHERE of the UPDATE and the DELETE, which spares
system roles without a word, `Protected` the usecase's refusal. One seeded role
stands for all.

`RateLimiter`. One action per Redis command (`TrimInRedis`, `CountInRedis`,
`AddToRedis`, `ExpireInRedis`), each with its error path to the count in memory;
`CountInMemory` is the section under the mutex; `Cleanup`, `Restart`, `ExpireKey`
and two clocks run beside them. The member of the sorted set is
`"<second>:<key>"`, so a set of scores is all there is. `LimiterWindows` adds to a
step what TLC needs to judge the documents by: a history `counted` of the seconds in
which Redis let a key pass, two clocks that run together, and a Redis that answers
all commands of a request or none.

`Gateway`. `req[h]` is a request from its headers to its answer: `pc` names where
its handler waits next (Redis, the body, a connection, the backend, the write);
the code in between is one step. `work[h]` is what the backend has of it: copies
sent and not yet dealt with, changes made, an answer on its way. The backend acts
on a copy, or declines it, whenever it likes, also after the gateway gave up, so a
lost answer and a late effect are both there. `ConnectionLost` is http.Transport,
which sends again what is idempotent and nothing else. `Tick` advances the age of
each request (since its headers, as the deadlines of the server do) and the time
since `Client.Do`. `Exit` is main after Shutdown, `Crash` the end without it, and
`Start` takes any configuration: a file's, or the environment's when the file
cannot be read. A signal closes the listener, but Shutdown still serves the first
request of a connection that was accepted before it (`Accepts`, for `Late` units of
time; net/http gives it five seconds). A preflight of an origin that CORS does not
allow goes on to the mux, which has no route for it. The limiter is its verdict here; `RateLimiter` has its stages.

`FanOut`. One call, as calls share nothing. `go[i]` is where the goroutine of part
`i` is in Forward; `next` and `closed` are the bodies that parts share; `channel`,
`taken`, `results` are the collector. The loops over a map (`MergeKey`) take keys
in any order, the loop over the parts (`ListPart`) in theirs. What a name of an
answer has is the number of the part it comes from. A panic in a goroutine (a part
without a Request) would end the process; parts are modelled with a Request.

## 3. What TLC checks

Twelve runs. Every property of a passing run has a mutant in `PROJECT.json`: a
plausible slip in one mapped definition (its text stands before the definition)
that violates the property under the same configuration.

| run | instance | shows |
|---|---|---|
| `sessions_direct` | the usecases with any arguments; 1 user, 2 passwords, 2 sessions (no UNIQUE, so both can live), 2 tokens, 2 handlers; lost replies; deletion and activation | `AnswersMatchStore`, `AuditSound`: an answer "ok" and an audit entry are true of the table and stay so. `RevocationIsFinal`, `NoRotation`, `NoPasswordNoSession`. `AccountsKept`: refines `AccountLife`. `TypeOK` |
| `sessions_http` | over HTTP, as wired and with claims; failing statements; fair handlers, no symmetry | `AtMostOneSession`, `LogoutRevokesNothing`; `RequestsEnd`: a request is answered unless the process dies |
| `sessions_password` | violation | `OnlyChangeChangesPassword`, see section 5 |
| `sessions_control` | violation | `RenewsOrEnds`, see section 5 |
| `sessions_login` | violation | `LoginSucceeds`, see section 5 |
| `limiter` | 2 stages (bursts 2 and 1), 2 requests, clock to 5, 2 seconds of Redis | `TwoBursts`, `RefusedOnlyIfSlow`, `RefusedOnlyWhenFull`, `TypeOK` |
| `limiter_sliding` | violation | `SlidingWindow`, see section 5 |
| `accounts` | 2 tenants, 2 accounts, 2 addresses, 2 names, 2 codes, all outcomes, 2 handlers; three scenarios: Register, UpdateUser, DeleteUser in one tenant; CreateUser while that tenant is updated and deleted; the operations on both tenants | `NamesDistinct`, `EmailSharedOnlyByRace`, `NoUserInDeletedTenant`, `AuditSound`, `LifeKept` (refines `AccountLife`), `TypeOK` |
| `accounts_audit` | violation | `OperationsAudited`, see section 5 |
| `roles` | ROLE_USER and 2 more roles, 1 tenant, 2 codes, lost replies, all ten operations | `RegistersAsUser`, `CodesClashOnlyByRace`, `NothingDangles`, `AuditSound`, `RolesStayDeleted`, `TypeOK` |
| `gateway` | 2 requests, one connection; a route that changes something and needs a token, one that does neither; with a file, without its authentication, without any file; signal, crash, restart | `ChangesAtMostOnce` (refines `AtMostOnce`), `CheckedFirst`, `NoAnswerLostToShutdown`, `TypeOK`; `RequestsEnd` |
| `fanout` | calls of 0, 2 and 3 parts that share a body or a key, one of a service that is not there; bodies of 2 chunks | `GathersAll` (refines `Gather`), `FailuresReported`, `BodiesApart`, `MergeComplete`, `ListInOrder`, `TypeOK`; `CallEnds` |

**Why these bounds.** The hazards are races of two requests over one row, and
every run of the auth-service and the limiter but two that need only a sequence
has two handlers, each of which can run any number of requests one after the other. Two rows of a kind are the least
on which uniqueness, clashes and a role given to the wrong user can fail. A
second user matters where rows of different users collide (`sessions_login`; the
proofs have any number), a second password where an old one comes back. The
limiter's clock runs for two windows and a half and Redis for two, which is what a burst on either side of a
window's end takes. `Operations`, `StatusGiven`, `NewEmail`, `OtherEmail`,
`Actor`, `MaxListed` and `MaxAssigned` bound only what clients ask for;
`MaxAssigned` in `roles` keeps the two assignment tables from both growing.
`PoolHasRoom` and `Room` start a creation only while an id is free for it, as
`uuid.New` always finds one. Statements that plainly fail are left out where a
lost reply covers their answers (`sessions_direct`, `roles`). The scenarios of
`accounts` (`MCAccounts`) are the operations that touch rows of each other: accounts
among themselves, an account and its tenant, tenants among themselves. Of one
scenario any two run at a time and any number one after the other; mixtures are
left to the theorems, which have no such bound.

In `gateway` a unit of time is ten seconds: the server's deadlines are 1, the 30
seconds of a forwarded request and of a shutdown are 2, which keeps their order, and
`Late` is 1, longer than the five seconds it stands for. The proofs have any values
that `ShutdownAssumption` admits (a shutdown waits at least as long as the answer to
a late request may take). `MaxCopies` = 2 is one resend; `Arrive` gives a slot to a
new request only when the backend is done with the last one.
Two requests over one connection are the least that make one wait for the other.
In `fanout`, three parts are the least with a shared body, a shared key and two
keys (`MCLists`), and two chunks the least that two readers can divide. `Chunks`
and `MaxParts` are bounds of the instance only.

**Deadlock.** The runs of the auth-service may stop: once the pool of ids is used
and every request is answered, an instance without an operation that needs no
id has no step left. A call of `fanout` ends. `limiter` and `gateway` check deadlock.

**Fairness.** `FairSpec` assumes WF of `Advance(h)` for every handler and nothing
of arrivals, administrators, expiry or crashes. The code justifies it: a
goroutine that can run is scheduled, statements hold no lock over another
statement, and the pool answers each statement if only with an error (the
context's end is one). No strong fairness is needed, since no step of another
request disables a request's step.

In `Gateway` time passes and the goroutine of each request runs: WF of `Tick` and of
`Serve(h)`, which holds the limiter's verdict, `BodyFails`, `Send`, `Receive`,
`GiveUp` and `Write`. Redis answers or its own timeout ends the wait. Nothing is
assumed of backends, of clients, of the arrival of bodies, or that a connection
becomes free: the deadlines alone must end a request, which is what `RequestsEnd`
says. In `FanOut` each goroutine and the caller are fair; that a goroutine waiting
for the body or the backend goes on is the read deadline of the server and the
timeout of the client, which `Gateway` has in detail.

**Symmetry** is by permutations of ids that `Init` treats alike, never of seeded
ones, and never in a run with a liveness property.

## 4. What is proved

For all sets of users, rows, codes, keys and handlers, all outcomes of
statements, and any number of requests. The assumptions are those named ASSUME
in the modules, which TLC evaluates in every run: modes are among their kinds
(`ModeAssumption`), None is no value of another kind (`NoneAssumption`,
`TypeAssumption`), the
limits are positive and MaxBurst and MinWindow bound them (`StagesAssumption`),
counters are dropped only after their window (`CleanupAssumption`; it holds of
`gateway.yaml`, with minute-long windows and a two-minute cleanup), and the roles
that can ever exist are finitely many, for `Inserted` counts them
(`FiniteAssumption`).

**`AuthSessionsProofs`**: `TypeCorrect`, `SingleSession`, `PasswordBehindSession`,
`AuditTrailSound`, `AnswersStayTrue`, `LogoutIsIdle` (invariants), `RevocationFinal`,
`TokensNeverRotate` (action properties), `AccountsLive` (implements
`AccountLife!Spec`). None is inductive by itself: whether a logout about to revoke
row `s` will answer truly depends on its local `sid` still being a row of its
user. `Fits(r, ss, cc)` says, phase by phase, what the locals of a request still
tell of the tables; `Inv` adds to it the types, the invariants above and that no
issued claims name a session. The argument: every step leaves `Grows` true of the
sessions (rows stay, keep user and token, are not made live) and `SameHolders`
of the credentials; `Fits` survives any such step of another request
(`FitsStays`); each step leaves its own request fitting (one lemma per action).
`RevocationFinal` and `TokensNeverRotate` are `Grows` again, and `AccountsLive` is
`SameHolders` with the guard of `SetUserState`.

Five more say what follows from this. `BoundedWork`: a request has at most seven
statements to run, each step of its own lowers their number (`Left`), and nothing
that others do raises it; `RequestsAnswered` draws `RequestsEnd` from it, see below.
`PasswordsKeptApart` and `LoginsSucceed` are about causes, see section 5: their
invariants are that the hash a login holds is the credential's (`HashCurrent`), and
that only the UNIQUE column refuses a row. `DeletedStaySignedOut`: once a deleted
account has no login past its check of the user (`Gone`), it gets no session, and
the ones it has are left to it.

**`RolesProofs`**: `TypeCorrect`, `DefaultRoleSafe`, `NoDanglingAssignment`,
`AuditTrailSound`, `CodesClashByRace` (invariants), `DeletedForGood` (action
property). The same shape: `Tables` is what holds between any two statements,
`Fits` what requests hold, `Evolves` how rows may change under a request (they keep their code and are not inserted twice). The point of
`DefaultRoleSafe` is that no request is ever about to insert the code of
ROLE_USER, since its lookup finds the global role whatever the tenant, and that
an update writes back the code it read. `CodesClashByRace` has an invariant of its
own, `Numbered`: a creation past its lookup has counted the roles, and one with its
code in its sight has a larger number; the count grows by one with each INSERT
(`Counted`). `BoundedWork` is as in `AuthSessions`, with one statement for each id
that a body lists.

**`AccountsProofs`**: `TypeCorrect`, `NamesStayDistinct`, `EmailsSharedByRace`,
`AuditTrailSound` (invariants), `DeletedTenantsStayEmpty` (action property),
`LivesAsPromised` (implements `AccountLife!Spec`). `Inv` has the shape of the other
two: `Fits` for the locals, with `Sound` for the audit entry about to be written,
under every change that `Evolves` allows; `AuditSound` is `Sound` of the entry that
was inserted. From it follow two lemmas on what any
step does to one row: `UserChange` (inserted where there was none, without a
conflict, or written while not deleted, the name unchanged) and `TenantChange`. The
refinement and the names need nothing else of the actions: a row written back by
UpdateUser reaches only an account that is not deleted, whatever it says. The other
two theorems need the locals of creations as well, and `NextMoves` reduces every
step to an INSERT, a check passed, or a request that turns to something else.
`Gone` (a creation past CheckTenant has no tenant in its `gone`) needs that deleted
tenants stay deleted; `KnownAll` says of a creation past CheckEmail that each
account it would find now was edited or is in `missed`, which is what puts the pair
into `rivals` when the creation inserts. `EmailsKeptApart` is the converse: if
creations with one address in one tenant are never between check and INSERT at a
time (`CreationsApart`) and no update writes another address (`UpdatesKeepEmail`), a
checked address stays nobody's (`AllVacant`) and no two accounts share one.
`RequestsAnswered` is that of `AuthSessions`, for these seven usecases.

**`RateLimiterProofs`**: `TypeCorrect`, `AtMostTwoBursts`, `RefusedSlow` (invariants),
`RefusedFull` (action property), `LongRun`. `Inv` is `TypeOK`, that each counter
agrees with the tail of its key's history and that history is spread (`Book`), that
no score lies in the future (`NoFuture`), and what each request about to count still
knows of the clock (`AllGood`). History is spread for every number of windows at
once: what lies n + 1 bursts before a pass is more than n windows older (`Spread`),
what lies n bursts before the pass that began the running count is so too, and
without a count all of it is so now (`Rested`), which is what a new count starts from. `LongRun` is that for every n; n = 1 is
`TwoBursts`, so that a window's end doubles the rate once and never again and again.
The multiples of a constant that no prover multiplies are behind `Bursts` and
`Windows`, with their few facts in `Multiples`. `RefusedOnlyIfSlow` also needs how many distinct
seconds fit between the oldest untrimmed score and now, a fact on cardinalities.

**`GatewayProofs`**: `TypeCorrect`, `AuthFirst` (invariants), `ShutdownLosesNothing`
(action property), `ChangesOnce` (implements `AtMostOnce!Spec`). `Inv` says of each
request by itself that it is `Fine`: what the backend has of it fits where the
gateway is with it, and for a call that changes something there is one copy or one
effect at most and everything said of it is true (`Fits`, `Honest`); no request is
younger than the shutdown under way, but for `Late`, unless its deadlines have
passed (`Timely`); it has a route of this process and its token was seen
(`Checked`). Since a step concerns one request, or all of them alike, each action is a lemma about one
record. For the refinement, `KnownOf` and `EffectOf` give what the client knows and
what happened as functions of the two records; most steps leave both alone, and
`Write` is where the client is told. `ShutdownAssumption` is needed for
`ShutdownLosesNothing` and holds of main's 10 and 30 seconds and net/http's 5.
`AnswersTrue` is what the refinement is worth: a client told of a success has its change, once, and one
told of a refusal never gets it; it follows from `ChangesOnce` and `AtMostOnce` alone.
`PoolBounded`: what a resend keeps is the connection it had, and a restart with fewer
connections starts with none taken. `RequestsEndInTime` draws `RequestsEnd` from
deadlines that come, see below.

**`FanOutProofs`**: `Gathers` (implements `Gather!Spec`), `Reported`, `SharedBodies`,
`Merges`, `Ordered`, `TypeCorrect`. Four invariants, each proved from those before
it: the types and that a part has an outcome once its goroutine is over (`Base`);
where the results of the parts are, counted by the cardinality of `Gone`
(`Delivered`), from which a caller that has taken as many results as there are
parts finds the channel empty and every key served (`Collection`); who has read
which chunk (`Shared`); and the loops, whose invariants speak of the keys or parts
already visited (`Merging`, `Listing`). Two theorems come close to `CallEnds`.
`NoneStuck`: a goroutine with a result finds room in the channel, a caller that still
waits has a goroutine that will put one, a loop that runs has something to visit
(`Visiting`). `BoundedWork`: chunks unread, phases to come and entries to visit are
finitely many, and every step, of a goroutine or of the caller, lowers their
number. Which index of an ordered set is the least is proved from the well-foundedness
of finite sets under inclusion (`Least`), without induction over a predicate.

**Liveness.** WF_ and ENABLED are out of TLAPS's reach, but what they come to here
is not. `KeepsRunning` is the weak fairness of `FairSpec` with its ENABLED written
out: a request whose goroutine could run for ever does run, `Advance(h)` being
enabled whenever a request is in progress. From it `RequestsAnswered` proves
`RequestsEnd` for any number of handlers and rows: the statements left are at most
seven, so that the argument is one case for each. In `Gateway`, `KeepsServing` is
the fairness of `Serve(h)`, with `CanServe(h)` for ENABLED, and `DeadlinesPass` says
that who stays with the body, waits for a connection or for the backend comes to
its deadline, which is what WF of `Tick` gives after as many ticks as the
deadline has. `RequestsEndInTime` proves `RequestsEnd` from the two, and asks nothing
of backends, clients, connections or other requests. TLC agrees on the instances of
section 3 that `Advance(h)` and `Serve(h)` are enabled exactly when these say so, and
that `FairSpec` of `Gateway` implies both hypotheses.

**Only model-checked.** `CallEnds` as a whole: its measure has no bound that does not
depend on the call, so that it takes an induction over time, which LS4 does not
have. `NoneStuck` and `BoundedWork` leave of it only that a step which is enabled is
taken. That fairness implies `KeepsRunning`, `KeepsServing` and `DeadlinesPass`, for
the same reasons. The violations of section 5, as examples; what is proved around them is
said there. Induction over data and RECURSIVE operators are beyond the
installed provers too; no module uses either. Every other property of a passing run
is a theorem.

## 5. Where the code disagrees with its documents

- **`sessions_password`.** Login reads the credential, compares the hash, and at
  the end calls UpdateCredential (`auth_usecase.go:126`) to note its use; the UPDATE
  sets `credential_hash` as well (`user_repo.go:345`). A ChangePassword in between
  is undone. The comment at line 123 says "Update credential last used". This is the
  only cause: if no ChangePassword is at its write while a login of the same user is
  between its check and its own, nothing else changes a password (`PasswordsKeptApart`).
- **`sessions_control`.** RefreshToken stores the new token with
  `sessionRepo.Create` (`auth_usecase.go:293`), an INSERT of the id it has just read;
  the primary key refuses it and every refresh is answered Internal.
  `README.md:234` promises refresh token rotation (`RefreshRotates`). And Login puts
  the session's id into the claims after it has signed them (`auth_usecase.go:453`),
  so that a logout looks for the zero UUID and is answered NotFound;
  `auth_usecase.go:308` and `AS/README.md:91` say that it revokes the session
  (`LogoutRevokes`). The run refutes `RenewsOrEnds`, that at least one of the two is
  so: in its last state neither is, and a live session has a client that can neither
  renew nor end it. `NoRotation` and `LogoutRevokesNothing` are what holds instead.
- **`sessions_login`.** Each session's `access_token_id` is `""`, as the id is set on
  a copy of the claims, and the column is UNIQUE: while one row exists no user can
  log in (`AtMostOneSession`). The migration calls the column optional. Without the
  UNIQUE no login is refused while the database answers (`LoginsSucceed`).
- **`limiter_sliding`.** The window in memory starts anew after it is over, so a
  burst before its end and one after it lie within one window (`SlidesInMemory`). In
  Redis the member of a request is `"<second>:<key>"` (`ratelimit.go:133`), so all
  requests of one second count as one and any number of them pass
  (`SlidesInRedis`). `ratelimit.go:17` and `README.md:231` say "sliding window",
  `ratelimit.go:99`, `GW/README.md:23` and `:129` that it is kept in Redis. The run
  refutes `SlidingWindow`, that at least one of the two counts slides: its last state
  has more than a burst within a window of each. `TwoBursts` is the bound that does
  hold in memory, where in the long run the excess is one burst in all (`LongRun`);
  `RefusedOnlyIfSlow` says how far Redis is from any bound.
- **`accounts_audit`.** DeleteTenant writes its audit entry with the zero UUID as the
  user (`tenant_usecase.go:152`), which the foreign key `audit_logs.user_id` refuses;
  the error is ignored. "Log audit" says the line before, and `README.md:233` that all
  important operations are audited. No other operation of `Accounts` loses its entry
  while the database answers, unless a body names an actor who is no user;
  `AuditSound` says that the entries are true.

A fact that the properties state as the code has it, and no document denies: e-mail
addresses can be shared after a race (`EmailSharedOnlyByRace`) or an update, and for
no other reason (`EmailsKeptApart`).

And of the gateway, as its models have them or leave them out:

- A process without a readable file has no route but /health and /gateway/info.
  `gateway.yaml` as shipped cannot be read: `${REDIS_PORT:-6379}` stands where an int
  is expected and nothing expands it (`config.go:129`). LoadFromEnv leaves the
  burst at 0 (`config.go:162`), so that while Redis answers every request is refused;
  `StagesAssumption` leaves this configuration out, since no limit is kept under it.
- `createEndpointHandler` sends the backend path as configured, braces included
  (`main.go:181`): `/v1/users/{id}` reaches the backend as that text.
- An answer that takes more than 10 seconds is lost (`main.go:173` waits 30): the
  client cannot tell whether its change happened. `AtMostOnce` calls it "unsure".
- A backend's status from 500 on becomes the gateway's own error, its body cut at
  ResponseBufferSize, for which there is no default (`proxy.go:145`).
- `required_roles` of an endpoint are read and never enforced; RequireRole is
  called by nothing.
- The limiter's key for a client without a user is RemoteAddr, port included.
- Parts of a call that share the incoming request divide its body between them
  (`BodiesApart`): none forwards all of it.

## 6. What is left out, and the plan

Not modelled for good: parsing of the configuration, connection pools (their
failures are the outcomes of a statement or of `DialFails`), responses and logging
(formatting), the cache repository, the gRPC stub and the OAuth repositories
(nothing that runs uses them), OptionalAuth, RequireRole and HealthCheck (called by
nothing), UpdateSessionActivity (no route; timestamps only). Abstracted: names,
phones, profiles, timestamps other than those kept as facts, bcrypt and JWT as
equality of passwords and as claims, the bodies of the gateway, headers, redirects.

Lists (ListUsers, ListSessions, ListRoles, the audit log) are reads: each is one
SELECT with LIMIT and OFFSET, and pages of one list may overlap or skip rows that
others insert meanwhile. The handlers promise nothing else, and no state depends
on it.

Not modelled because nothing the code promises depends on it: Login reads roles
and permissions of a user in two statements (`auth_usecase.go:100`), and each is
true of the tables when it runs. The two may disagree: after an assignment in
between, for a deactivated role (`role_repo.go:350` does not look at the status,
`role_repo.go:312` does not look at rows.Err()). Nothing in the code or its
documents relates the two lists, and no handler reads them back.

The plan, in its order.

1. `AuthSessions`, `RateLimiter`, `Accounts`, `Roles` with their runs and proofs. *Done.*
2. `Gateway` with `AtMostOnce`, its run and proofs; the life of the process and its
   configurations are part of it. *Done.*
3. `FanOut` with `Gather`, its run and proofs. *Done.*
4. `AccountsProofs` and `CodesClashByRace`. *Done.*
5. `RequestsEnd` from fairness written out, the causes of section 5, the long run of
   the limiter, the bounds on work. *Done.*
6. The lifecycle of the auth-service: the same Shutdown as in `Gateway`, with an HTTP
   and a gRPC server; its crash is in every module of the auth-service.
