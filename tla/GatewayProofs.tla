--------------------------- MODULE GatewayProofs ---------------------------
(***************************************************************************)
(* Theorems about Gateway, for any routes, configuration files, deadlines  *)
(* and number of requests.  The inductive invariant Inv says of each       *)
(* request, by itself, how what the backend has of it fits what the        *)
(* gateway knows of it (Fine); a step concerns one request, or all of them *)
(* when time passes or the process ends.                                   *)
(***************************************************************************)
EXTENDS Gateway, FiniteSetTheorems, TLAPS

Pc == {"idle", "global", "limit", "body", "conn", "sent", "write", "done"}

Rank == {"up", "draining", "stopped", "crashed"}

Active(r) == r.pc \notin {"idle", "done"}

Unsent == {"global", "limit", "body", "conn"}

Denials == {"refused", "limited", "unauthorized", "notfound"}

\* A call that may change something has one copy or one effect at most, and
\* what is said of it is true.
Honest(r, w) ==
    /\ w.copies + w.changes <= 1
    /\ w.answer = "ok" => w.changes = 1
    /\ w.answer = "refused" => w.copies = 0 /\ w.changes = 0
    /\ r.pc \in {"write", "done"} =>
          /\ r.status = "ok" => w.changes = 1
          /\ r.status \in Denials => w.copies = 0 /\ w.changes = 0

\* What the backend has of a request fits where the gateway is with it.
Fits(r, w) ==
    /\ r.pc \in Unsent => w.copies = 0 /\ w.changes = 0 /\ w.answer = None
    /\ r.pc = "idle" => w.copies = 0
    /\ w.answer # None => r.pc = "sent"
    /\ w.copies + w.changes <= MaxCopies
    /\ r.target \in Endpoint \ Replayable => Honest(r, w)

\* A request is in progress in a process that runs, and came in time for a
\* shutdown.
Timely(r) ==
    Active(r) => /\ server \in {"up", "draining"}
                 /\ r.age + Late >= drain \/ r.age = LastDeadline

Checked(r) ==
    r.pc \in {"limit", "body", "conn", "sent"} =>
        /\ r.target \in conf.endpoints
        /\ NeedsToken(r.target) => r.token

Fine(r, w) == Fits(r, w) /\ Timely(r) /\ Checked(r)

Process ==
    /\ conf \in Configurations
    /\ server \in Rank
    /\ drain \in 0..ShutdownTimeout
    /\ server # "draining" => drain = 0

Inv ==
    /\ Process
    /\ req \in [Handler -> Request]
    /\ work \in [Handler -> Work]
    /\ \A h \in Handler : Fine(req[h], work[h])

-----------------------------------------------------------------------------
(* Constants, records *)

LEMMA Times ==
    /\ LastDeadline \in Nat
    /\ LastDeadline >= WriteTimeout
    /\ ReadTimeout \in Nat /\ WriteTimeout \in Nat
    /\ RequestTimeout \in Nat /\ ShutdownTimeout \in Nat
    /\ Late \in Nat
    /\ MaxCopies \in Nat \ {0}
BY TimeAssumption DEF LastDeadline

LEMMA NoneApart ==
    /\ None \notin Status
    /\ None \notin Endpoint
    /\ "unknown" \notin Endpoint
    /\ None \notin {"ok", "refused", "unavailable", "limited", "unauthorized", "notfound"}
    /\ None \notin {"waiting", "happened", "unsure"}
BY TypeAssumption DEF Status

\* The fields of a request, and the request that they make.
LEMMA RequestFields ==
    ASSUME NEW r \in Request
    PROVE  /\ r.pc \in Pc /\ r.target \in Target /\ r.token \in BOOLEAN
           /\ r.age \in 0..LastDeadline /\ r.fwd \in 0..RequestTimeout
           /\ r.client \in BOOLEAN /\ r.status \in Status \cup {None}
BY DEF Request, Pc

LEMMA WorkFields ==
    ASSUME NEW w \in Work
    PROVE  /\ w.copies \in 0..MaxCopies /\ w.changes \in 0..MaxCopies
           /\ w.answer \in {"ok", "refused", "broken", None}
           /\ w.copies \in Int /\ w.changes \in Int
           /\ w.copies >= 0 /\ w.changes >= 0
BY Times DEF Work

LEMMA AnswerChanged ==
    ASSUME NEW w \in Work, NEW a \in {"ok", "refused", "broken", None}
    PROVE  /\ [w EXCEPT !.answer = a] \in Work
           /\ [w EXCEPT !.answer = a].copies = w.copies
           /\ [w EXCEPT !.answer = a].changes = w.changes
           /\ [w EXCEPT !.answer = a].answer = a
BY DEF Work

LEMMA CopiesChanged ==
    ASSUME NEW w \in Work, NEW c \in 0..MaxCopies
    PROVE  /\ [w EXCEPT !.copies = c] \in Work
           /\ [w EXCEPT !.copies = c].copies = c
           /\ [w EXCEPT !.copies = c].changes = w.changes
           /\ [w EXCEPT !.copies = c].answer = w.answer
BY DEF Work

LEMMA ChangesChanged ==
    ASSUME NEW w \in Work, NEW c \in 0..MaxCopies
    PROVE  /\ [w EXCEPT !.changes = c] \in Work
           /\ [w EXCEPT !.changes = c].copies = w.copies
           /\ [w EXCEPT !.changes = c].changes = c
           /\ [w EXCEPT !.changes = c].answer = w.answer
BY DEF Work

LEMMA PcChanged ==
    ASSUME NEW r \in Request, NEW p \in Pc
    PROVE  /\ [r EXCEPT !.pc = p] \in Request
           /\ [r EXCEPT !.pc = p].pc = p
           /\ [r EXCEPT !.pc = p].target = r.target
           /\ [r EXCEPT !.pc = p].token = r.token
           /\ [r EXCEPT !.pc = p].age = r.age
           /\ [r EXCEPT !.pc = p].client = r.client
           /\ [r EXCEPT !.pc = p].status = r.status
BY DEF Request, Pc

LEMMA StatusChanged ==
    ASSUME NEW r \in Request, NEW s \in Status \cup {None}
    PROVE  [r EXCEPT !.status = s] \in Request
BY DEF Request

LEMMA FwdChanged ==
    ASSUME NEW r \in Request, NEW f \in 0..RequestTimeout
    PROVE  [r EXCEPT !.fwd = f] \in Request
BY DEF Request

LEMMA OtherChanged ==
    ASSUME NEW r \in Request
    PROVE  /\ \A t \in Target : [r EXCEPT !.target = t] \in Request
           /\ \A b \in BOOLEAN : [r EXCEPT !.token = b] \in Request
           /\ \A b \in BOOLEAN : [r EXCEPT !.client = b] \in Request
BY DEF Request

LEMMA Replied ==
    ASSUME NEW r \in Request, NEW s \in Status
    PROVE  LET q == [r EXCEPT !.pc = "write", !.status = s, !.fwd = 0] IN
           /\ q \in Request
           /\ q.pc = "write" /\ q.target = r.target /\ q.token = r.token
           /\ q.age = r.age /\ q.client = r.client /\ q.status = s
<1> DEFINE b == [r EXCEPT !.pc = "write"]
<1> DEFINE c == [b EXCEPT !.status = s]
<1> DEFINE q == [c EXCEPT !.fwd = 0]
<1>1. b \in Request
  BY PcChanged DEF Pc
<1>2. c \in Request
  BY <1>1, StatusChanged
<1>3. 0 \in 0..RequestTimeout
  BY Times
<1>4. q \in Request
  BY <1>2, <1>3, FwdChanged
<1>5. /\ q.pc = "write" /\ q.target = r.target /\ q.token = r.token
      /\ q.age = r.age /\ q.client = r.client /\ q.status = s
  BY DEF Request
<1>6. q = [r EXCEPT !.pc = "write", !.status = s, !.fwd = 0]
  OBVIOUS
<1>. QED
  BY <1>4, <1>5, <1>6

LEMMA IdleRequest ==
    /\ Idle \in Request
    /\ Idle.pc = "idle" /\ Idle.target = "unknown"
    /\ NoWork \in Work
    /\ NoWork.copies = 0 /\ NoWork.changes = 0 /\ NoWork.answer = None
BY Times DEF Idle, Request, Target, NoWork, Work

-----------------------------------------------------------------------------
(* What a step of one request leaves behind *)

\* A step that leaves a request fine and touches nothing else keeps Inv.
LEMMA OneRequest ==
    ASSUME Inv, NEW h \in Handler, NEW r \in Request, NEW w \in Work,
           req' = [req EXCEPT ![h] = r], work' = [work EXCEPT ![h] = w],
           UNCHANGED <<conf, server, drain>>, Fine(r, w)
    PROVE  Inv'
<1>1. Process'
  BY DEF Inv, Process, Configurations, FromEnv
<1>2. req' \in [Handler -> Request] /\ work' \in [Handler -> Work]
  BY DEF Inv
<1>3. ASSUME NEW i \in Handler PROVE Fine(req[i], work[i])'
  <2>1. Fine(req'[i], work'[i])
    <3>1. CASE i = h
      BY <3>1 DEF Inv
    <3>2. CASE i # h
      BY <3>2 DEF Inv
    <3>. QED
      BY <3>1, <3>2
  <2>. QED
    BY <2>1 DEF Fine, Fits, Timely, Checked, Honest, NeedsToken, Active
<1>. QED
  BY <1>1, <1>2, <1>3 DEF Inv

\* The same where the work of the backend does not change.
LEMMA SameWork ==
    ASSUME Inv, NEW h \in Handler, UNCHANGED work
    PROVE  work' = [work EXCEPT ![h] = work[h]]
BY DEF Inv

LEMMA Current ==
    ASSUME Inv, NEW h \in Handler
    PROVE  req[h] \in Request /\ work[h] \in Work /\ Fine(req[h], work[h])
BY DEF Inv

\* Reply, once the backend's part is known.
LEMMA ReplyFine ==
    ASSUME Inv, NEW h \in Handler, NEW s \in Status, NEW w \in Work,
           Active(req[h]), Reply(h, s), work' = [work EXCEPT ![h] = w],
           UNCHANGED <<conf, server, drain>>,
           w.answer = None, w.copies + w.changes <= MaxCopies,
           req[h].target \in Endpoint \ Replayable =>
               /\ w.copies + w.changes <= 1
               /\ s = "ok" => w.changes = 1
               /\ s \in Denials => w.copies = 0 /\ w.changes = 0
    PROVE  Inv'
<1> DEFINE q == [req[h] EXCEPT !.pc = "write", !.status = s, !.fwd = 0]
<1>1. req[h] \in Request /\ Timely(req[h])
  BY Current DEF Fine
<1>2. /\ q \in Request
      /\ q.pc = "write" /\ q.target = req[h].target /\ q.age = req[h].age
      /\ q.status = s
  BY <1>1, Replied
<1>3. req' = [req EXCEPT ![h] = q]
  BY DEF Reply, Step
<1> HIDE DEF q
<1>4. Fits(q, w)
  BY <1>2, NoneApart DEF Fits, Honest, Unsent
<1>5. Timely(q) /\ Checked(q)
  BY <1>1, <1>2 DEF Timely, Checked, Active
<1>. QED
  BY <1>2, <1>3, <1>4, <1>5, OneRequest DEF Fine

\* Goto, to where only requests come that are checked.
LEMMA GotoFine ==
    ASSUME Inv, NEW h \in Handler, NEW p \in {"limit", "body", "conn", "sent"},
           NEW w \in Work, Active(req[h]),
           Goto(h, p), work' = [work EXCEPT ![h] = w],
           UNCHANGED <<conf, server, drain>>,
           req[h].target \in conf.endpoints, Authorized(h),
           p # "sent" => w = work[h] /\ req[h].pc \in Unsent,
           p = "sent" => w.copies + w.changes = 1 /\ w.answer = None
    PROVE  Inv'
<1> DEFINE q == [req[h] EXCEPT !.pc = p]
<1>1. req[h] \in Request /\ Timely(req[h]) /\ Fits(req[h], work[h]) /\ work[h] \in Work
  BY Current DEF Fine
<1>2. /\ q \in Request
      /\ q.pc = p /\ q.target = req[h].target /\ q.age = req[h].age
      /\ q.token = req[h].token
  <2>1. p \in Pc
    BY DEF Pc
  <2>. QED
    BY <1>1, <2>1, PcChanged
<1>3. req' = [req EXCEPT ![h] = q]
  BY DEF Goto, Step
<1> HIDE DEF q
<1>4. Fits(q, w)
  <2>1. CASE p = "sent"
    BY <1>2, <2>1, Times, NoneApart, WorkFields DEF Fits, Honest, Unsent
  <2>2. CASE p # "sent"
    <3>1. w.copies = 0 /\ w.changes = 0 /\ w.answer = None
      BY <1>1, <2>2 DEF Fits
    <3>2. q.pc \in Unsent
      BY <1>2, <2>2 DEF Unsent
    <3>. QED
      BY <1>2, <3>1, <3>2, Times, NoneApart DEF Fits, Honest, Unsent
  <2>. QED
    BY <2>1, <2>2
<1>5. Timely(q)
  BY <1>1, <1>2 DEF Timely, Active
<1>6. Checked(q)
  BY <1>2 DEF Checked, Authorized
<1>. QED
  BY <1>2, <1>3, <1>4, <1>5, <1>6, OneRequest DEF Fine

-----------------------------------------------------------------------------
(* The gateway's own steps *)

LEMMA ArriveFine ==
    ASSUME Inv, NEW h \in Handler, Arrive(h)
    PROVE  Inv'
<1>1. PICK t \in Target, token \in BOOLEAN :
          Step(h, [Idle EXCEPT !.pc = "global", !.target = t, !.token = token,
                               !.client = TRUE])
  BY DEF Arrive
<1> DEFINE q == [Idle EXCEPT !.pc = "global", !.target = t, !.token = token,
                             !.client = TRUE]
<1>2. /\ q \in Request
      /\ q.pc = "global" /\ q.target = t /\ q.age = 0
  <2> DEFINE b == [Idle EXCEPT !.pc = "global"]
  <2> DEFINE c == [b EXCEPT !.target = t]
  <2> DEFINE d == [c EXCEPT !.token = token]
  <2>1. b \in Request
    BY IdleRequest, PcChanged DEF Pc
  <2>2. c \in Request
    BY <2>1, OtherChanged
  <2>3. d \in Request
    BY <2>2, OtherChanged
  <2>4. [d EXCEPT !.client = TRUE] \in Request
    BY <2>3, OtherChanged
  <2>5. q = [d EXCEPT !.client = TRUE]
    OBVIOUS
  <2>6. q.pc = "global" /\ q.target = t /\ q.age = 0
    BY DEF Idle
  <2>. QED
    BY <2>4, <2>5, <2>6
<1>3. req' = [req EXCEPT ![h] = q]
  BY <1>1 DEF Step
<1> HIDE DEF q
<1>4. /\ server \in {"up", "draining"} /\ drain \in Nat /\ drain <= Late
      /\ work' = [work EXCEPT ![h] = NoWork]
      /\ UNCHANGED <<conf, server, drain>>
  BY Times DEF Arrive, Accepts, Inv, Process
<1>5. Fits(q, NoWork)
  BY <1>2, IdleRequest, Times, NoneApart DEF Fits, Honest, Unsent
<1>6. Timely(q) /\ Checked(q)
  BY <1>2, <1>4, Times DEF Timely, Checked, Active
<1>. QED
  BY <1>2, <1>3, <1>4, <1>5, <1>6, IdleRequest, OneRequest DEF Fine

\* An answer that the gateway gives before the backend has anything.
LEMMA EarlyReplyFine ==
    ASSUME Inv, NEW h \in Handler, NEW s \in Status,
           req[h].pc \in Unsent, Reply(h, s), UNCHANGED <<conf, server, drain, work>>,
           req[h].target \in Endpoint => s # "ok"
    PROVE  Inv'
<1>1. work[h] \in Work /\ Fits(req[h], work[h])
  BY Current DEF Fine
<1>2. work[h].copies = 0 /\ work[h].changes = 0 /\ work[h].answer = None
  BY <1>1 DEF Fits
<1>3. Active(req[h])
  BY DEF Active, Unsent
<1>. QED
  BY <1>1, <1>2, <1>3, SameWork, ReplyFine, Times

LEMMA RoutedFine ==
    ASSUME Inv, NEW h \in Handler, At(h, "global"), Routed(h),
           UNCHANGED <<conf, server, drain, work>>
    PROVE  Inv'
<1> DEFINE t == req[h].target
<1>1. req[h].pc \in Unsent /\ Active(req[h]) /\ work[h] \in Work
  BY Current DEF At, Unsent, Active
<1>2. t \notin Endpoint \/ t \notin {"preflight", "local"}
  BY TypeAssumption
<1>3. ASSUME NEW s \in Status, Reply(h, s), t \in Endpoint => s # "ok" PROVE Inv'
  BY <1>1, <1>3, EarlyReplyFine
<1>4. ASSUME NEW p \in {"limit", "body"}, Goto(h, p), t \in conf.endpoints, Authorized(h)
      PROVE  Inv'
  BY <1>1, <1>4, SameWork, GotoFine
<1>5. CASE t = "preflight" /\ Preflight(h)
  <2>1. Reply(h, "ok") \/ Reply(h, "notfound")
    BY <1>5 DEF Preflight
  <2>. QED
    BY <1>2, <1>3, <1>5, <2>1 DEF Status
<1>6. CASE t = "local" /\ Reply(h, "ok")
  BY <1>2, <1>3, <1>6 DEF Status
<1>7. CASE Reply(h, "unauthorized") \/ Reply(h, "notfound")
  BY <1>3, <1>7 DEF Status
<1>8. CASE t \in conf.endpoints /\ Authorized(h) /\ Admit(h)
  <2>1. \E p \in {"limit", "body"} : Goto(h, p)
    BY <1>8 DEF Admit
  <2>. QED
    BY <1>4, <1>8, <2>1
<1>. QED
  BY <1>5, <1>6, <1>7, <1>8 DEF Routed

LEMMA LimitsFine ==
    ASSUME Inv, NEW h \in Handler, GlobalLimit(h) \/ EndpointLimit(h)
    PROVE  Inv'
<1>1. req[h].pc \in Unsent /\ Active(req[h]) /\ work[h] \in Work
      /\ UNCHANGED <<conf, server, drain, work>>
  BY Current DEF GlobalLimit, EndpointLimit, At, Unsent, Active
<1>2. CASE Reply(h, "limited")
  BY <1>1, <1>2, EarlyReplyFine DEF Status
<1>3. CASE At(h, "global") /\ Routed(h)
  BY <1>1, <1>3, RoutedFine
<1>4. CASE At(h, "limit") /\ Goto(h, "body")
  <2>1. req[h].target \in conf.endpoints /\ Authorized(h)
    BY <1>4, Current DEF Fine, Checked, Authorized, At
  <2>. QED
    BY <1>1, <1>4, <2>1, SameWork, GotoFine
<1>. QED
  BY <1>2, <1>3, <1>4 DEF GlobalLimit, EndpointLimit

LEMMA BodyFine ==
    ASSUME Inv, NEW h \in Handler, BodyArrives(h) \/ BodyFails(h) \/ DialFails(h)
    PROVE  Inv'
<1>1. req[h].pc \in Unsent /\ Active(req[h]) /\ work[h] \in Work
      /\ UNCHANGED <<conf, server, drain, work>>
  BY Current DEF BodyArrives, BodyFails, DialFails, At, Unsent, Active
<1>2. CASE Reply(h, "unavailable")
  BY <1>1, <1>2, EarlyReplyFine DEF Status
<1>3. CASE At(h, "body") /\ Goto(h, "conn")
  <2>1. req[h].target \in conf.endpoints /\ Authorized(h)
    BY <1>3, Current DEF Fine, Checked, Authorized, At
  <2>. QED
    BY <1>1, <1>3, <2>1, SameWork, GotoFine
<1>. QED
  BY <1>2, <1>3 DEF BodyArrives, BodyFails, DialFails

LEMMA SendFine ==
    ASSUME Inv, NEW h \in Handler, Send(h)
    PROVE  Inv'
<1> DEFINE w == [work[h] EXCEPT !.copies = 1]
<1>1. /\ work[h] \in Work /\ Fits(req[h], work[h]) /\ Checked(req[h])
      /\ req[h].pc = "conn" /\ Goto(h, "sent") /\ UNCHANGED <<conf, server, drain>>
  BY Current DEF Send, At, Fine
<1>2. work[h].copies = 0 /\ work[h].changes = 0 /\ work[h].answer = None
  BY <1>1 DEF Fits, Unsent
<1>3. w \in Work /\ w.copies = 1 /\ w.changes = 0 /\ w.answer = None
  <2>1. 1 \in 0..MaxCopies
    BY Times
  <2>. QED
    BY <1>1, <1>2, <2>1, CopiesChanged
<1>4. work' = [work EXCEPT ![h] = w]
  <2>1. work[h].copies + 1 = 1
    BY <1>2
  <2>. QED
    BY <2>1 DEF Send
<1> HIDE DEF w
<1>5. req[h].target \in conf.endpoints /\ Authorized(h) /\ Active(req[h])
  BY <1>1 DEF Checked, Authorized, Active
<1>6. w.copies + w.changes = 1
  BY <1>3
<1>. QED
  BY <1>1, <1>3, <1>4, <1>5, <1>6, GotoFine

\* The gateway gives up on what it sent, or was about to send.
LEMMA AbandonFine ==
    ASSUME Inv, NEW h \in Handler, req[h].pc \in {"conn", "sent"},
           Reply(h, "unavailable"), work' = [work EXCEPT ![h].answer = None],
           UNCHANGED <<conf, server, drain>>
    PROVE  Inv'
<1> DEFINE w == [work[h] EXCEPT !.answer = None]
<1>1. work[h] \in Work /\ Fits(req[h], work[h])
  BY Current DEF Fine
<1>2. /\ w \in Work /\ w.answer = None
      /\ w.copies = work[h].copies /\ w.changes = work[h].changes
  BY <1>1, AnswerChanged
<1>3. work' = [work EXCEPT ![h] = w]
  OBVIOUS
<1>4. Active(req[h]) /\ "unavailable" \in Status
  BY DEF Active, Status
<1> HIDE DEF w
<1>5. /\ w.copies + w.changes <= MaxCopies
      /\ req[h].target \in Endpoint \ Replayable => w.copies + w.changes <= 1
  BY <1>1, <1>2 DEF Fits, Honest
<1>. QED
  BY <1>2, <1>3, <1>4, <1>5, ReplyFine DEF Denials

LEMMA ConnectionLostFine ==
    ASSUME Inv, NEW h \in Handler, ConnectionLost(h)
    PROVE  Inv'
<1> DEFINE b == [work[h] EXCEPT !.copies = @ + 1]
<1> DEFINE w == [b EXCEPT !.answer = None]
<1>1. /\ req[h] \in Request /\ work[h] \in Work
      /\ Fits(req[h], work[h]) /\ Timely(req[h]) /\ Checked(req[h])
      /\ req[h].pc = "sent" /\ UNCHANGED <<conf, server, drain>>
  BY Current DEF ConnectionLost, At, Fine
<1>2. CASE Reply(h, "unavailable") /\ work' = [work EXCEPT ![h].answer = None]
  BY <1>1, <1>2, AbandonFine
<1>3. CASE /\ SendsAgain(h) /\ work[h].copies + work[h].changes < MaxCopies
           /\ work' = [work EXCEPT ![h].copies = @ + 1, ![h].answer = None]
           /\ UNCHANGED req
  <2>1. work[h].copies + 1 \in 0..MaxCopies
    BY <1>1, <1>3, WorkFields, Times
  <2>2. b \in Work /\ b.copies = work[h].copies + 1 /\ b.changes = work[h].changes
    BY <1>1, <2>1, CopiesChanged
  <2>3. w \in Work /\ w.copies = work[h].copies + 1 /\ w.changes = work[h].changes
        /\ w.answer = None
    BY <2>2, AnswerChanged
  <2>4. work' = [work EXCEPT ![h] = w]
    BY <1>3
  <2>5. req' = [req EXCEPT ![h] = req[h]]
    BY <1>3 DEF Inv
  <2> HIDE DEF w
  <2>6. w.copies + w.changes <= MaxCopies
    BY <1>1, <1>3, <2>3, WorkFields, Times
  <2>7. Fits(req[h], w)
    BY <1>1, <1>3, <2>3, <2>6 DEF Fits, SendsAgain, Unsent
  <2>. QED
    BY <1>1, <2>3, <2>4, <2>5, <2>7, OneRequest DEF Fine
<1>. QED
  BY <1>2, <1>3 DEF ConnectionLost

LEMMA ReceiveFine ==
    ASSUME Inv, NEW h \in Handler, Receive(h)
    PROVE  Inv'
<1> DEFINE w == [work[h] EXCEPT !.answer = None]
<1> DEFINE s == Told(work[h].answer)
<1>1. /\ work[h] \in Work /\ Fits(req[h], work[h]) /\ req[h].pc = "sent"
      /\ work[h].answer # None /\ Reply(h, s) /\ UNCHANGED <<conf, server, drain>>
  BY Current DEF Receive, At, Fine
<1>2. /\ w \in Work /\ w.answer = None
      /\ w.copies = work[h].copies /\ w.changes = work[h].changes
  BY <1>1, AnswerChanged
<1>3. work' = [work EXCEPT ![h] = w]
  BY DEF Receive
<1>4. /\ s \in Status
      /\ s = "ok" => work[h].answer = "ok"
      /\ s \in Denials => work[h].answer = "refused"
  BY <1>1, WorkFields DEF Told, Status, Denials
<1> HIDE DEF w, s
<1>5. Active(req[h])
  BY <1>1 DEF Active
<1>6. /\ w.copies + w.changes <= MaxCopies
      /\ req[h].target \in Endpoint \ Replayable =>
            /\ w.copies + w.changes <= 1
            /\ s = "ok" => w.changes = 1
            /\ s \in Denials => w.copies = 0 /\ w.changes = 0
  BY <1>1, <1>2, <1>4 DEF Fits, Honest
<1>. QED
  BY <1>1, <1>2, <1>3, <1>4, <1>5, <1>6, ReplyFine

LEMMA GiveUpFine ==
    ASSUME Inv, NEW h \in Handler, GiveUp(h)
    PROVE  Inv'
<1>1. /\ req[h].pc \in {"conn", "sent"} /\ Reply(h, "unavailable")
      /\ work' = [work EXCEPT ![h].answer = None] /\ UNCHANGED <<conf, server, drain>>
  BY DEF GiveUp, At
<1>. QED
  BY <1>1, AbandonFine

\* A request that is over.
LEMMA OverRequest ==
    ASSUME NEW h \in Handler, req[h] \in Request, NEW s \in Status \cup {None}
    PROVE  /\ Over(h, s) \in Request
           /\ Over(h, s).pc = "done" /\ Over(h, s).status = s
           /\ Over(h, s).target = req[h].target
<1> DEFINE b == [Idle EXCEPT !.pc = "done"]
<1> DEFINE c == [b EXCEPT !.target = req[h].target]
<1>1. b \in Request
  BY IdleRequest, PcChanged DEF Pc
<1>2. c \in Request
  BY <1>1, OtherChanged, RequestFields
<1>3. [c EXCEPT !.status = s] \in Request
  BY <1>2, StatusChanged
<1>4. Over(h, s) = [c EXCEPT !.status = s]
  BY DEF Over
<1>5. /\ Over(h, s).pc = "done" /\ Over(h, s).status = s
      /\ Over(h, s).target = req[h].target
  BY DEF Over, Idle
<1>. QED
  BY <1>3, <1>4, <1>5

\* It is fine with what the backend still has of it, whose answer is lost.
LEMMA OverFine ==
    ASSUME NEW r \in Request, NEW q \in Request, NEW w \in Work,
           Fits(r, w), q.pc = "done", q.target = r.target, w.answer = None,
           q.status = None \/ (r.pc = "write" /\ q.status = r.status)
    PROVE  Fine(q, w)
<1>1. Fits(q, w)
  BY NoneApart DEF Fits, Honest, Unsent, Denials
<1>. QED
  BY <1>1 DEF Fine, Timely, Checked, Active

LEMMA WriteFine ==
    ASSUME Inv, NEW h \in Handler, Write(h)
    PROVE  Inv'
<1> DEFINE s == IF Deliverable(req[h]) THEN req[h].status ELSE None
<1> DEFINE q == Over(h, s)
<1>1. /\ req[h] \in Request /\ work[h] \in Work /\ Fits(req[h], work[h])
      /\ req[h].pc = "write" /\ UNCHANGED <<conf, server, drain, work>>
      /\ req' = [req EXCEPT ![h] = q]
  BY Current DEF Write, At, Fine, Step
<1>2. s \in Status \cup {None} /\ s \in {req[h].status, None}
  BY <1>1, RequestFields
<1> HIDE DEF s
<1>3. q \in Request /\ q.pc = "done" /\ q.status = s /\ q.target = req[h].target
  BY <1>1, <1>2, OverRequest
<1> HIDE DEF q
<1>4. work[h].answer = None
  BY <1>1 DEF Fits
<1>5. q.status = None \/ (req[h].pc = "write" /\ q.status = req[h].status)
  BY <1>1, <1>2, <1>3
<1>6. Fine(q, work[h])
  BY <1>1, <1>3, <1>4, <1>5, OverFine
<1>. QED
  BY <1>1, <1>3, <1>6, SameWork, OneRequest

-----------------------------------------------------------------------------
(* The steps of backend and client, of time and of the process *)

LEMMA BackendActsFine ==
    ASSUME Inv, NEW h \in Handler, BackendActs(h)
    PROVE  Inv'
<1> DEFINE n == IF Changes(h) THEN work[h].changes + 1 ELSE work[h].changes
<1> DEFINE b == [work[h] EXCEPT !.copies = @ - 1]
<1> DEFINE c == [b EXCEPT !.changes = n]
<1>1. PICK answer \in {"ok", "broken"} :
          Answer(h, [work[h] EXCEPT !.copies = @ - 1,
                                    !.changes = IF Changes(h) THEN @ + 1 ELSE @], answer)
  BY DEF BackendActs
<1> DEFINE a == IF At(h, "sent") /\ Running THEN answer ELSE None
<1> DEFINE w == [c EXCEPT !.answer = a]
<1>2. /\ req[h] \in Request /\ work[h] \in Work /\ Fine(req[h], work[h])
      /\ Fits(req[h], work[h])
      /\ work[h].copies > 0 /\ UNCHANGED <<conf, server, drain, req>>
  BY Current DEF BackendActs, Fine
<1>3. n \in 0..MaxCopies /\ work[h].copies - 1 \in 0..MaxCopies
  BY <1>2, WorkFields, Times DEF Fits
<1>4. c = [work[h] EXCEPT !.copies = @ - 1,
                          !.changes = IF Changes(h) THEN @ + 1 ELSE @]
  BY <1>2 DEF Work
<1>5. b \in Work /\ b.copies = work[h].copies - 1 /\ b.answer = work[h].answer
  BY <1>2, <1>3, CopiesChanged
<1> HIDE DEF n, b
<1>6. c \in Work /\ c.copies = work[h].copies - 1 /\ c.changes = n
  BY <1>3, <1>5, ChangesChanged
<1>7. /\ w \in Work /\ w.answer = a
      /\ w.copies = work[h].copies - 1 /\ w.changes = n
  <2>1. a \in {"ok", "refused", "broken", None}
    OBVIOUS
  <2>. QED
    BY <1>6, <2>1, AnswerChanged
<1>8. work' = [work EXCEPT ![h] = w]
  BY <1>1, <1>4 DEF Answer
<1> HIDE DEF c, w
<1>9. Fits(req[h], w)
  <2>1. work[h].copies \in Int /\ work[h].changes \in Int /\ work[h].changes >= 0
    BY <1>2, WorkFields
  <2>2. req[h].pc \notin Unsent \cup {"idle"}
    BY <1>2, <2>1 DEF Fits
  <2>3. w.answer # None => req[h].pc = "sent" /\ w.answer \in {"ok", "broken"}
    BY <1>7 DEF At
  <2>4. w.copies + w.changes <= MaxCopies
    BY <1>2, <1>7, <2>1, Times DEF Fits, n
  <2>5. ASSUME req[h].target \in Endpoint \ Replayable PROVE Honest(req[h], w)
    <3>1. work[h].copies = 1 /\ work[h].changes = 0 /\ w.copies = 0 /\ w.changes = 1
      BY <1>2, <1>7, <2>1, <2>5 DEF Fits, Honest, n, Changes
    <3>2. w.answer # "refused"
      BY <2>3, NoneApart
    <3>. QED
      BY <1>2, <2>5, <3>1, <3>2 DEF Fits, Honest
  <2>. QED
    BY <2>2, <2>3, <2>4, <2>5 DEF Fits
<1>10. req' = [req EXCEPT ![h] = req[h]]
  BY <1>2 DEF Inv
<1>. QED
  BY <1>2, <1>7, <1>8, <1>9, <1>10, OneRequest DEF Fine

LEMMA BackendDeclinesFine ==
    ASSUME Inv, NEW h \in Handler, BackendDeclines(h)
    PROVE  Inv'
<1> DEFINE b == [work[h] EXCEPT !.copies = @ - 1]
<1>1. PICK answer \in {"refused", "broken"} : Answer(h, b, answer)
  BY DEF BackendDeclines
<1> DEFINE a == IF At(h, "sent") /\ Running THEN answer ELSE None
<1> DEFINE w == [b EXCEPT !.answer = a]
<1>2. /\ req[h] \in Request /\ work[h] \in Work /\ Fine(req[h], work[h])
      /\ Fits(req[h], work[h])
      /\ work[h].copies > 0 /\ UNCHANGED <<conf, server, drain, req>>
  BY Current DEF BackendDeclines, Fine
<1>3. work[h].copies - 1 \in 0..MaxCopies
  BY <1>2, WorkFields, Times
<1>4. b \in Work /\ b.copies = work[h].copies - 1 /\ b.changes = work[h].changes
  BY <1>2, <1>3, CopiesChanged
<1> HIDE DEF b
<1>5. /\ w \in Work /\ w.answer = a
      /\ w.copies = work[h].copies - 1 /\ w.changes = work[h].changes
  <2>1. a \in {"ok", "refused", "broken", None}
    OBVIOUS
  <2> HIDE DEF a
  <2>2. /\ w \in Work /\ w.answer = a
        /\ w.copies = b.copies /\ w.changes = b.changes
    BY <1>4, <2>1, AnswerChanged
  <2>. QED
    BY <1>4, <2>2
<1>6. work' = [work EXCEPT ![h] = w]
  BY <1>1 DEF Answer
<1> HIDE DEF w
<1>7. Fits(req[h], w)
  <2>1. work[h].copies \in Int /\ work[h].changes \in Int /\ work[h].changes >= 0
    BY <1>2, WorkFields
  <2>2. req[h].pc \notin Unsent \cup {"idle"}
    BY <1>2, <2>1 DEF Fits
  <2>3. w.answer # None => req[h].pc = "sent" /\ w.answer \in {"refused", "broken"}
    BY <1>5 DEF At
  <2>4. w.copies + w.changes <= MaxCopies
    BY <1>2, <1>5, <2>1, Times DEF Fits
  <2>5. ASSUME req[h].target \in Endpoint \ Replayable PROVE Honest(req[h], w)
    <3>1. work[h].copies = 1 /\ work[h].changes = 0 /\ w.copies = 0 /\ w.changes = 0
      BY <1>2, <1>5, <2>1, <2>5 DEF Fits, Honest
    <3>2. w.answer # "ok"
      BY <2>3, NoneApart
    <3>. QED
      BY <1>2, <2>5, <3>1, <3>2 DEF Fits, Honest
  <2>. QED
    BY <2>2, <2>3, <2>4, <2>5 DEF Fits
<1>8. req' = [req EXCEPT ![h] = req[h]]
  BY <1>2 DEF Inv
<1>. QED
  BY <1>2, <1>5, <1>6, <1>7, <1>8, OneRequest DEF Fine

LEMMA ClientLeavesFine ==
    ASSUME Inv, NEW h \in Handler, ClientLeaves(h)
    PROVE  Inv'
<1> DEFINE q == [req[h] EXCEPT !.client = FALSE]
<1>1. /\ req[h] \in Request /\ work[h] \in Work /\ Fine(req[h], work[h])
      /\ req' = [req EXCEPT ![h] = q] /\ UNCHANGED <<conf, server, drain, work>>
  BY Current DEF ClientLeaves, Step
<1>2. q \in Request
  BY <1>1, OtherChanged
<1>3. /\ q.pc = req[h].pc /\ q.target = req[h].target /\ q.token = req[h].token
      /\ q.age = req[h].age /\ q.status = req[h].status
  BY <1>1 DEF Request
<1> HIDE DEF q
<1>4. Fine(q, work[h])
  BY <1>1, <1>3 DEF Fine, Fits, Honest, Timely, Checked, Active
<1>. QED
  BY <1>1, <1>2, <1>4, SameWork, OneRequest

LEMMA AgedRequest ==
    ASSUME NEW r \in Request
    PROVE  /\ Aged(r) \in Request
           /\ Aged(r).pc = r.pc /\ Aged(r).target = r.target
           /\ Aged(r).token = r.token /\ Aged(r).status = r.status
           /\ Aged(r).age = Later(r.age, LastDeadline)
<1> DEFINE a == Later(r.age, LastDeadline)
<1> DEFINE f == IF r.pc \in {"conn", "sent"} THEN Later(r.fwd, RequestTimeout) ELSE r.fwd
<1> DEFINE b == [r EXCEPT !.age = a]
<1>1. a \in 0..LastDeadline /\ f \in 0..RequestTimeout
  BY Times, RequestFields DEF Later
<1>2. Aged(r) = [b EXCEPT !.fwd = f]
  BY DEF Aged, Request
<1> HIDE DEF a, f
<1>3. b \in Request
  BY <1>1 DEF Request
<1>4. [b EXCEPT !.fwd = f] \in Request
  BY <1>1, <1>3, FwdChanged
<1>5. /\ [b EXCEPT !.fwd = f].pc = r.pc /\ [b EXCEPT !.fwd = f].target = r.target
      /\ [b EXCEPT !.fwd = f].token = r.token /\ [b EXCEPT !.fwd = f].status = r.status
      /\ [b EXCEPT !.fwd = f].age = a
  BY DEF Request
<1>. QED
  BY <1>2, <1>4, <1>5 DEF a

LEMMA TickFine ==
    ASSUME Inv, Tick
    PROVE  Inv'
<1>1. Process'
  BY Times DEF Inv, Process, Tick, Later, Configurations, FromEnv
<1>2. /\ req' = [h \in Handler |-> IF InFlight(h) THEN Aged(req[h]) ELSE req[h]]
      /\ UNCHANGED <<conf, server, work>>
      /\ drain' = IF server = "draining" THEN Later(drain, ShutdownTimeout) ELSE drain
      /\ drain \in 0..ShutdownTimeout
  BY DEF Tick, Inv, Process
<1>3. ASSUME NEW h \in Handler PROVE req'[h] \in Request /\ Fine(req[h], work[h])'
  <2>1. req[h] \in Request /\ Fits(req[h], work[h]) /\ Timely(req[h]) /\ Checked(req[h])
    BY Current DEF Fine
  <2>2. CASE InFlight(h)
    <3> DEFINE q == Aged(req[h])
    <3>1. /\ q \in Request
          /\ q.pc = req[h].pc /\ q.target = req[h].target /\ q.token = req[h].token
          /\ q.status = req[h].status /\ q.age = Later(req[h].age, LastDeadline)
      BY <2>1, AgedRequest
    <3>2. req'[h] = q
      BY <1>2, <2>2
    <3> HIDE DEF q
    <3>3. req[h].age \in 0..LastDeadline
      BY <2>1, RequestFields
    <3>4. q.age + Late >= drain' \/ q.age = LastDeadline
      BY <1>2, <2>1, <2>2, <3>1, <3>3, Times DEF Timely, Active, InFlight, Later
    <3>5. Fits(req[h], work[h])'
      BY <1>2, <2>1, <3>1, <3>2 DEF Fits, Honest
    <3>6. Timely(req[h])'
      BY <1>2, <2>1, <3>1, <3>2, <3>4 DEF Timely, Active
    <3>7. Checked(req[h])'
      BY <1>2, <2>1, <3>1, <3>2 DEF Checked, NeedsToken
    <3>. QED
      BY <3>1, <3>2, <3>5, <3>6, <3>7 DEF Fine
  <2>3. CASE ~InFlight(h)
    <3>1. req'[h] = req[h]
      BY <1>2, <2>3
    <3>2. Fits(req[h], work[h])'
      BY <1>2, <2>1, <3>1 DEF Fits, Honest
    <3>3. Timely(req[h])' /\ Checked(req[h])'
      BY <2>3, <3>1 DEF Timely, Checked, Active, InFlight
    <3>. QED
      BY <2>1, <3>1, <3>2, <3>3 DEF Fine
  <2>. QED
    BY <2>2, <2>3
<1>4. req' \in [Handler -> Request] /\ work' \in [Handler -> Work]
  BY <1>2, <1>3 DEF Inv
<1>. QED
  BY <1>1, <1>3, <1>4 DEF Inv

LEMMA SignalFine ==
    ASSUME Inv, Signal
    PROVE  Inv'
<1>1. Process' /\ server = "up" /\ drain = 0 /\ server' = "draining" /\ drain' = 0
  BY DEF Inv, Process, Signal, Rank, Configurations, FromEnv
<1>2. UNCHANGED <<conf, req, work>>
  BY DEF Signal
<1>3. ASSUME NEW h \in Handler PROVE Fine(req[h], work[h])'
  <2>1. Fine(req[h], work[h])
    BY Current
  <2>2. req[h].age + Late >= 0
    BY Current, RequestFields, Times
  <2>. QED
    BY <1>1, <1>2, <2>1, <2>2 DEF Fine, Fits, Honest, Timely, Checked, NeedsToken
<1>. QED
  BY <1>1, <1>2, <1>3 DEF Inv

LEMMA EndedFine ==
    ASSUME Inv, NEW s \in {"stopped", "crashed"}, Ended(s)
    PROVE  Inv'
<1>1. Process'
  BY Times DEF Inv, Process, Ended, Rank, Configurations, FromEnv
<1>2. ASSUME NEW h \in Handler
      PROVE  /\ req'[h] \in Request /\ work'[h] \in Work
             /\ Fine(req[h], work[h])'
  <2> DEFINE w == [work[h] EXCEPT !.answer = None]
  <2>1. req[h] \in Request /\ work[h] \in Work /\ Fits(req[h], work[h])
    BY Current DEF Fine
  <2>2. /\ w \in Work /\ w.answer = None
        /\ w.copies = work[h].copies /\ w.changes = work[h].changes
    BY <2>1, AnswerChanged
  <2>3. work'[h] = w
    BY DEF Ended
  <2> HIDE DEF w
  <2>4. Fits(req[h], w)
    BY <2>1, <2>2, NoneApart DEF Fits, Honest
  <2>5. req'[h] = IF InFlight(h) THEN Over(h, None) ELSE req[h]
    BY DEF Ended, Cut
  <2>6. CASE InFlight(h)
    <3> DEFINE q == Over(h, None)
    <3>1. q \in Request /\ q.pc = "done" /\ q.status = None /\ q.target = req[h].target
      BY <2>1, OverRequest
    <3> HIDE DEF q
    <3>2. Fine(q, w)
      BY <2>1, <2>2, <2>4, <3>1, OverFine
    <3>3. req'[h] = q
      BY <2>5, <2>6 DEF q
    <3>. QED
      BY <2>2, <2>3, <3>1, <3>2, <3>3
         DEF Fine, Fits, Honest, Timely, Checked, Active
  <2>7. CASE ~InFlight(h)
    <3>1. req'[h] = req[h]
      BY <2>5, <2>7
    <3>2. Timely(req[h])' /\ Checked(req[h])'
      BY <2>7, <3>1 DEF Timely, Checked, Active, InFlight
    <3>3. Fits(req[h], work[h])'
      BY <2>3, <2>4, <3>1 DEF Fits, Honest
    <3>. QED
      BY <2>1, <2>2, <2>3, <3>1, <3>2, <3>3 DEF Fine
  <2>. QED
    BY <2>6, <2>7
<1>3. req' \in [Handler -> Request] /\ work' \in [Handler -> Work]
  BY <1>2 DEF Ended, Cut
<1>. QED
  BY <1>1, <1>2, <1>3 DEF Inv

LEMMA StartFine ==
    ASSUME Inv, Start
    PROVE  Inv'
<1>1. Process'
  BY DEF Inv, Process, Start, Running, Rank, Configurations, FromEnv
<1>2. ~Running /\ UNCHANGED <<req, work>>
  BY DEF Start
<1>3. ASSUME NEW h \in Handler PROVE Fine(req[h], work[h])'
  <2>1. Fits(req[h], work[h]) /\ ~Active(req[h])
    BY <1>2, Current DEF Fine, Timely, Running
  <2>2. Fits(req[h], work[h])'
    BY <1>2, <2>1 DEF Fits, Honest
  <2>3. Timely(req[h])' /\ Checked(req[h])'
    BY <1>2, <2>1 DEF Timely, Checked, Active
  <2>. QED
    BY <2>2, <2>3 DEF Fine
<1>. QED
  BY <1>1, <1>2, <1>3 DEF Inv

-----------------------------------------------------------------------------
(* Theorems *)

LEMMA NextInv ==
    ASSUME Inv, [Next]_vars
    PROVE  Inv'
<1>1. ASSUME NEW h \in Handler, Serve(h) PROVE Inv'
  BY <1>1, LimitsFine, BodyFine, SendFine, ReceiveFine, GiveUpFine, WriteFine DEF Serve
<1>2. ASSUME NEW h \in Handler, Disturb(h) PROVE Inv'
  BY <1>2, ArriveFine, BodyFine, ConnectionLostFine, BackendActsFine,
     BackendDeclinesFine, ClientLeavesFine DEF Disturb
<1>3. CASE Exit
  BY <1>3, EndedFine DEF Exit
<1>4. CASE Crash
  BY <1>4, EndedFine DEF Crash
<1>5. CASE UNCHANGED vars
  <2>1. UNCHANGED <<conf, server, drain, req, work>>
    BY <1>5 DEF vars
  <2>. QED
    BY <2>1 DEF Inv, Process, Fine, Fits, Honest, Timely, Checked, NeedsToken, Active,
                Configurations, FromEnv
<1>. QED
  BY <1>1, <1>2, <1>3, <1>4, <1>5, TickFine, SignalFine, StartFine DEF Next

\* Inv holds always, whatever the gateway, its clients and the backend do.
THEOREM Invariance == Spec => []Inv
<1>1. Init => Inv
  <2> SUFFICES ASSUME Init PROVE Inv
    OBVIOUS
  <2>1. Process
    BY Times DEF Init, Process, Rank
  <2>2. req \in [Handler -> Request] /\ work \in [Handler -> Work]
    BY IdleRequest DEF Init
  <2>3. ASSUME NEW h \in Handler PROVE Fine(req[h], work[h])
    <3>1. req[h] = Idle /\ work[h] = NoWork
      BY DEF Init
    <3>2. Fits(Idle, NoWork)
      BY IdleRequest, NoneApart, Times DEF Fits, Unsent
    <3>. QED
      BY <3>1, <3>2, IdleRequest DEF Fine, Timely, Checked, Active
  <2>. QED
    BY <2>1, <2>2, <2>3 DEF Inv
<1>2. Inv /\ [Next]_vars => Inv'
  BY NextInv
<1>. QED
  BY <1>1, <1>2, PTL DEF Spec

\* The types hold: no time, count of copies or effects exceeds its bound.
THEOREM TypeCorrect == Spec => []TypeOK
<1>1. Inv => TypeOK
  BY DEF Inv, Process, TypeOK, Rank
<1>. QED
  BY <1>1, Invariance, PTL

\* Nothing is counted by an endpoint's limiter or reaches a backend that has no
\* route in this process or has not passed Auth.
THEOREM AuthFirst == Spec => []CheckedFirst
<1>1. Inv => CheckedFirst
  BY DEF Inv, Fine, Checked, CheckedFirst, Authorized
<1>. QED
  BY <1>1, Invariance, PTL

\* main abandons no request whose answer could still have been delivered.
THEOREM ShutdownLosesNothing == Spec => NoAnswerLostToShutdown
<1>1. Inv /\ [Next]_vars =>
        [Exit => \A h \in Handler : InFlight(h) => ~Deliverable(req[h])]_vars
  <2> SUFFICES ASSUME Inv, Exit, NEW h \in Handler, InFlight(h)
               PROVE  ~Deliverable(req[h])
    OBVIOUS
  <2>1. drain >= ShutdownTimeout
    BY DEF Exit, MayExit
  <2>2. req[h].age + Late >= drain \/ req[h].age = LastDeadline
    BY Current DEF Fine, Timely, Active, InFlight
  <2>3. req[h].age \in Nat /\ drain \in Nat
    BY Current, RequestFields, Times DEF Inv, Process
  <2>. QED
    BY <2>1, <2>2, <2>3, Times, ShutdownAssumption DEF Deliverable
<1>. QED
  BY <1>1, Invariance, PTL DEF Spec, NoAnswerLostToShutdown

-----------------------------------------------------------------------------
(* The gateway as AtMostOnce has it *)

\* Known and the number of effects, as functions of the request alone.
KnownOf(r) ==
    IF r.target \notin Endpoint \ Replayable THEN None
    ELSE IF Active(r) THEN "waiting"
    ELSE IF r.status \in {None, "unavailable"} THEN "unsure"
    ELSE IF r.status = "ok" THEN "happened"
    ELSE "refused"

EffectOf(r, w) == IF r.target \in Endpoint \ Replayable THEN w.changes ELSE 0

LEMMA Views ==
    /\ Knows = [h \in Handler |-> KnownOf(req[h])]
    /\ Effects = [h \in Handler |-> EffectOf(req[h], work[h])]
BY DEF Knows, Effects, KnownOf, EffectOf, Known, Changes, Active, InFlight

LEMMA ViewsNext ==
    /\ Knows' = [h \in Handler |-> KnownOf(req'[h])]
    /\ Effects' = [h \in Handler |-> EffectOf(req'[h], work'[h])]
BY DEF Knows, Effects, KnownOf, EffectOf, Known, Changes, Active, InFlight

\* A step that leaves what clients know and what happened alone.
LEMMA SameViews ==
    ASSUME \A h \in Handler : /\ KnownOf(req'[h]) = KnownOf(req[h])
                              /\ EffectOf(req'[h], work'[h]) = EffectOf(req[h], work[h])
    PROVE  UNCHANGED <<Knows, Effects>>
BY Views, ViewsNext

\* Every step of a request in progress but its last is one.
LEMMA InProgress ==
    ASSUME Inv, NEW h \in Handler, NEW r \in Request,
           Active(req[h]), Active(r), r.target = req[h].target,
           req' = [req EXCEPT ![h] = r],
           \A i \in Handler : work'[i].changes = work[i].changes
    PROVE  UNCHANGED <<Knows, Effects>>
<1>1. ASSUME NEW i \in Handler
      PROVE  /\ KnownOf(req'[i]) = KnownOf(req[i])
             /\ EffectOf(req'[i], work'[i]) = EffectOf(req[i], work[i])
  <2>1. CASE i = h
    <3>1. req'[i] = r
      BY <2>1 DEF Inv
    <3>. QED
      BY <2>1, <3>1 DEF KnownOf, EffectOf
  <2>2. CASE i # h
    <3>1. req'[i] = req[i]
      BY <2>2 DEF Inv
    <3>. QED
      BY <3>1 DEF EffectOf
  <2>. QED
    BY <2>1, <2>2
<1>. QED
  BY <1>1, SameViews

LEMMA ReplyUnseen ==
    ASSUME Inv, NEW h \in Handler, NEW s \in Status, Active(req[h]), Reply(h, s),
           \A i \in Handler : work'[i].changes = work[i].changes
    PROVE  UNCHANGED <<Knows, Effects>>
<1> DEFINE q == [req[h] EXCEPT !.pc = "write", !.status = s, !.fwd = 0]
<1>1. q \in Request /\ q.pc = "write" /\ q.target = req[h].target
  BY Current, Replied
<1>2. req' = [req EXCEPT ![h] = q]
  BY DEF Reply, Step
<1> HIDE DEF q
<1>3. Active(q)
  BY <1>1 DEF Active
<1>. QED
  BY <1>1, <1>2, <1>3, InProgress

LEMMA GotoUnseen ==
    ASSUME Inv, NEW h \in Handler, NEW p \in {"limit", "body", "conn", "sent"},
           Active(req[h]), Goto(h, p),
           \A i \in Handler : work'[i].changes = work[i].changes
    PROVE  UNCHANGED <<Knows, Effects>>
<1> DEFINE q == [req[h] EXCEPT !.pc = p]
<1>1. p \in Pc
  BY DEF Pc
<1>2. q \in Request /\ q.pc = p /\ q.target = req[h].target
  BY <1>1, Current, PcChanged
<1>3. req' = [req EXCEPT ![h] = q]
  BY DEF Goto, Step
<1> HIDE DEF q
<1>4. Active(q)
  BY <1>2 DEF Active
<1>. QED
  BY <1>2, <1>3, <1>4, InProgress

\* What the gateway does before it writes its answer.
LEMMA ServeUnseen ==
    ASSUME Inv, NEW h \in Handler,
           \/ GlobalLimit(h) \/ EndpointLimit(h) \/ BodyArrives(h) \/ BodyFails(h)
           \/ Send(h) \/ DialFails(h) \/ Receive(h) \/ GiveUp(h)
    PROVE  UNCHANGED <<Knows, Effects>>
<1>1. Active(req[h])
  BY DEF GlobalLimit, EndpointLimit, BodyArrives, BodyFails, Send, DialFails, Receive,
         GiveUp, At, Active
<1>2. ASSUME NEW i \in Handler PROVE work'[i].changes = work[i].changes
  <2>1. CASE UNCHANGED work
    BY <2>1
  <2>2. CASE work' = [work EXCEPT ![h].copies = @ + 1]
    BY <2>2, Current DEF Inv, Work
  <2>3. CASE work' = [work EXCEPT ![h].answer = None]
    BY <2>3, Current DEF Inv, Work
  <2>. QED
    BY <2>1, <2>2, <2>3 DEF GlobalLimit, EndpointLimit, BodyArrives, BodyFails, Send,
                            DialFails, Receive, GiveUp
<1>3. \/ \E s \in Status : Reply(h, s)
      \/ \E p \in {"limit", "body", "conn", "sent"} : Goto(h, p)
  <2>1. CASE GlobalLimit(h)
    BY <2>1 DEF GlobalLimit, Routed, Preflight, Admit, Status
  <2>2. CASE EndpointLimit(h) \/ BodyArrives(h) \/ BodyFails(h) \/ DialFails(h)
    BY <2>2 DEF EndpointLimit, BodyArrives, BodyFails, DialFails, Status
  <2>3. CASE Send(h) \/ GiveUp(h)
    BY <2>3 DEF Send, GiveUp, Status
  <2>4. CASE Receive(h)
    <3>1. Told(work[h].answer) \in Status
      BY <2>4, Current, WorkFields DEF Receive, Told, Status
    <3>. QED
      BY <2>4, <3>1 DEF Receive
  <2>. QED
    BY <2>1, <2>2, <2>3, <2>4
<1>. QED
  BY <1>1, <1>2, <1>3, ReplyUnseen, GotoUnseen

LEMMA ConnectionLostUnseen ==
    ASSUME Inv, NEW h \in Handler, ConnectionLost(h)
    PROVE  UNCHANGED <<Knows, Effects>>
<1>1. ASSUME NEW i \in Handler PROVE work'[i].changes = work[i].changes
  <2>1. CASE work' = [work EXCEPT ![h].copies = @ + 1, ![h].answer = None]
    BY <2>1, Current DEF Inv, Work
  <2>2. CASE work' = [work EXCEPT ![h].answer = None]
    BY <2>2, Current DEF Inv, Work
  <2>. QED
    BY <2>1, <2>2 DEF ConnectionLost
<1>2. CASE Reply(h, "unavailable")
  BY <1>1, <1>2, ReplyUnseen DEF ConnectionLost, At, Active, Status
<1>3. CASE UNCHANGED req
  BY <1>1, <1>3, SameViews DEF EffectOf
<1>. QED
  BY <1>2, <1>3 DEF ConnectionLost

LEMMA ClientLeavesUnseen ==
    ASSUME Inv, NEW h \in Handler, ClientLeaves(h)
    PROVE  UNCHANGED <<Knows, Effects>>
<1> DEFINE q == [req[h] EXCEPT !.client = FALSE]
<1>1. q \in Request
  BY Current, OtherChanged
<1>2. q.pc = req[h].pc /\ q.target = req[h].target
  BY Current DEF Request
<1>3. req' = [req EXCEPT ![h] = q] /\ UNCHANGED work /\ Active(req[h])
  BY DEF ClientLeaves, Step, InFlight, Active
<1> HIDE DEF q
<1>4. Active(q)
  BY <1>2, <1>3 DEF Active
<1>. QED
  BY <1>1, <1>2, <1>3, <1>4, InProgress

LEMMA TickUnseen ==
    ASSUME Inv, Tick
    PROVE  UNCHANGED <<Knows, Effects>>
<1>1. ASSUME NEW i \in Handler
      PROVE  /\ KnownOf(req'[i]) = KnownOf(req[i])
             /\ EffectOf(req'[i], work'[i]) = EffectOf(req[i], work[i])
  <2>1. req'[i] \in {Aged(req[i]), req[i]} /\ work' = work
    BY DEF Tick
  <2>2. /\ Aged(req[i]).pc = req[i].pc /\ Aged(req[i]).target = req[i].target
        /\ Aged(req[i]).status = req[i].status
    BY Current, AgedRequest
  <2>. QED
    BY <2>1, <2>2 DEF KnownOf, EffectOf, Active
<1>. QED
  BY <1>1, SameViews

-----------------------------------------------------------------------------
(* The steps of AtMostOnce *)

LEMMA ArriveAsks ==
    ASSUME Inv, NEW h \in Handler, Arrive(h)
    PROVE  Promise!Ask(h)
<1>1. PICK t \in Target, token \in BOOLEAN :
          req' = [req EXCEPT ![h] = [Idle EXCEPT !.pc = "global", !.target = t,
                                                 !.token = token, !.client = TRUE]]
  BY DEF Arrive, Step
<1>2. /\ ~Active(req[h]) /\ work' = [work EXCEPT ![h] = NoWork]
      /\ req \in [Handler -> Request] /\ work \in [Handler -> Work]
  BY DEF Arrive, InFlight, Active, Inv
<1>3. req'[h].pc = "global" /\ work'[h].changes = 0
  BY <1>1, <1>2, IdleRequest DEF Idle
<1>4. \A i \in Handler : i # h => req'[i] = req[i] /\ work'[i] = work[i]
  BY <1>1, <1>2
<1>5. Knows[h] # "waiting"
  BY <1>2, Views, NoneApart DEF KnownOf
<1>6. KnownOf(req'[h]) \in {"waiting", None} /\ EffectOf(req'[h], work'[h]) = 0
  BY <1>3 DEF KnownOf, EffectOf, Active
<1>7. Knows' = [Knows EXCEPT ![h] = KnownOf(req'[h])]
  BY <1>4, Views, ViewsNext
<1>8. Effects' = [Effects EXCEPT ![h] = 0]
  BY <1>4, <1>6, Views, ViewsNext
<1>. QED
  BY <1>5, <1>6, <1>7, <1>8 DEF Promise!Ask

LEMMA WriteTells ==
    ASSUME Inv, NEW h \in Handler, Write(h)
    PROVE  UNCHANGED <<Knows, Effects>> \/ Promise!Tell(h)
<1> DEFINE s == IF Deliverable(req[h]) THEN req[h].status ELSE None
<1> DEFINE q == Over(h, s)
<1>1. /\ req[h] \in Request /\ Fits(req[h], work[h]) /\ req[h].pc = "write"
      /\ req' = [req EXCEPT ![h] = q] /\ work' = work
      /\ req \in [Handler -> Request]
  BY Current DEF Write, At, Step, Fine, Inv
<1>2. s \in Status \cup {None} /\ s \in {req[h].status, None}
  BY <1>1, RequestFields
<1> HIDE DEF s
<1>3. q.pc = "done" /\ q.status = s /\ q.target = req[h].target
  BY <1>1, <1>2, OverRequest
<1> HIDE DEF q
<1>4. req'[h] = q /\ \A i \in Handler : i # h => req'[i] = req[i]
  BY <1>1
<1>5. \A i \in Handler : EffectOf(req'[i], work'[i]) = EffectOf(req[i], work[i])
  BY <1>1, <1>3, <1>4 DEF EffectOf
<1>6. UNCHANGED Effects
  BY <1>5, Views, ViewsNext
<1>7. CASE req[h].target \notin Endpoint \ Replayable
  <2>1. \A i \in Handler : KnownOf(req'[i]) = KnownOf(req[i])
    BY <1>3, <1>4, <1>7 DEF KnownOf
  <2>. QED
    BY <1>6, <2>1, Views, ViewsNext
<1>8. CASE req[h].target \in Endpoint \ Replayable
  <2> DEFINE k == KnownOf(q)
  <2>1. k \in {"happened", "refused", "unsure"}
    BY <1>3, <1>8 DEF KnownOf, Active
  <2>2. Knows[h] = "waiting"
    BY <1>1, <1>8, Views DEF KnownOf, Active
  <2>3. k = "happened" => Effects[h] = 1
    <3>1. k = "happened" => req[h].status = "ok"
      BY <1>2, <1>3, <1>8, NoneApart DEF KnownOf, Active
    <3>. QED
      BY <1>1, <1>8, <3>1, Views DEF Fits, Honest, EffectOf
  <2>4. k = "refused" => Effects[h] = 0
    <3>1. k = "refused" => req[h].status \in Denials
      BY <1>2, <1>3, <1>8, NoneApart DEF KnownOf, Active, Status, Denials
    <3>. QED
      BY <1>1, <1>8, <3>1, Views DEF Fits, Honest, EffectOf
  <2>5. Knows' = [Knows EXCEPT ![h] = k]
    BY <1>4, Views, ViewsNext
  <2> HIDE DEF k
  <2>. QED
    BY <1>6, <2>1, <2>2, <2>3, <2>4, <2>5 DEF Promise!Tell
<1>. QED
  BY <1>7, <1>8

LEMMA BackendChanges ==
    ASSUME Inv, NEW h \in Handler, BackendActs(h) \/ BackendDeclines(h)
    PROVE  UNCHANGED <<Knows, Effects>> \/ Promise!Change(h)
<1>1. /\ req[h] \in Request /\ work[h] \in Work /\ Fits(req[h], work[h])
      /\ work[h].copies > 0 /\ req' = req /\ work \in [Handler -> Work]
  BY Current DEF BackendActs, BackendDeclines, Fine, Inv
<1>2. \A i \in Handler : i # h => work'[i] = work[i]
  BY <1>1 DEF BackendActs, BackendDeclines, Answer
<1>3. work'[h].changes \in {work[h].changes, work[h].changes + 1}
      /\ (~Changes(h) => work'[h].changes = work[h].changes)
  <2>1. CASE BackendActs(h)
    <3> DEFINE c == [work[h] EXCEPT !.copies = @ - 1,
                                    !.changes = IF Changes(h) THEN @ + 1 ELSE @]
    <3>1. PICK a : work' = [work EXCEPT ![h] = [c EXCEPT !.answer = a]]
      BY <2>1 DEF BackendActs, Answer
    <3>2. work'[h] = [c EXCEPT !.answer = a]
      BY <1>1, <3>1
    <3>3. [c EXCEPT !.answer = a].changes
             = IF Changes(h) THEN work[h].changes + 1 ELSE work[h].changes
      BY <1>1 DEF Work
    <3>. QED
      BY <3>2, <3>3
  <2>2. CASE BackendDeclines(h)
    <3> DEFINE b == [work[h] EXCEPT !.copies = @ - 1]
    <3>1. PICK a : work' = [work EXCEPT ![h] = [b EXCEPT !.answer = a]]
      BY <2>2 DEF BackendDeclines, Answer
    <3>2. work'[h] = [b EXCEPT !.answer = a]
      BY <1>1, <3>1
    <3>3. [b EXCEPT !.answer = a].changes = work[h].changes
      BY <1>1 DEF Work
    <3>. QED
      BY <3>2, <3>3
  <2>. QED
    BY <2>1, <2>2
<1>4. UNCHANGED Knows
  BY <1>1, Views, ViewsNext
<1>5. CASE work'[h].changes = work[h].changes
  <2>1. \A i \in Handler : EffectOf(req'[i], work'[i]) = EffectOf(req[i], work[i])
    BY <1>1, <1>2, <1>5 DEF EffectOf
  <2>. QED
    BY <1>4, <2>1, Views, ViewsNext
<1>6. CASE Changes(h) /\ work'[h].changes = work[h].changes + 1
  <2>1. work[h].changes = 0 /\ work'[h].changes = 1
    BY <1>1, <1>6, WorkFields DEF Fits, Honest, Changes
  <2>2. Effects[h] = 0 /\ EffectOf(req'[h], work'[h]) = 1
    BY <1>1, <1>6, <2>1, Views DEF EffectOf, Changes
  <2>3. Effects' = [Effects EXCEPT ![h] = 1]
    BY <1>1, <1>2, <2>2, Views, ViewsNext
  <2>4. Knows[h] \in {"waiting", "unsure"}
    <3>1. CASE Active(req[h])
      BY <1>6, <3>1, Views DEF KnownOf, Changes
    <3>2. CASE ~Active(req[h])
      <4>1. req[h].pc = "done"
        BY <1>1, <3>2, WorkFields DEF Fits, Active
      <4>2. req[h].status \notin Denials /\ req[h].status # "ok"
        BY <1>1, <1>6, <2>1, <4>1, WorkFields DEF Fits, Honest, Changes
      <4>3. req[h].status \in {None, "unavailable"}
        BY <1>1, <4>2, RequestFields DEF Status, Denials
      <4>. QED
        BY <1>6, <3>2, <4>3, Views DEF KnownOf, Changes
    <3>. QED
      BY <3>1, <3>2
  <2>. QED
    BY <1>4, <2>2, <2>3, <2>4 DEF Promise!Change
<1>. QED
  BY <1>3, <1>5, <1>6

LEMMA EndDies ==
    ASSUME Inv, NEW s \in {"stopped", "crashed"}, Ended(s)
    PROVE  UNCHANGED <<Knows, Effects>> \/ Promise!Die
<1>1. ASSUME NEW i \in Handler
      PROVE  /\ req'[i].target = req[i].target /\ work'[i].changes = work[i].changes
             /\ ~Active(req'[i])
             /\ req'[i].status = IF Active(req[i]) THEN None ELSE req[i].status
  <2>1. req[i] \in Request /\ work[i] \in Work
    BY Current
  <2>2. work'[i] = [work[i] EXCEPT !.answer = None]
    BY DEF Ended
  <2>3. work'[i].changes = work[i].changes
    BY <2>1, <2>2, AnswerChanged
  <2>4. CASE InFlight(i)
    <3>1. req'[i] = Over(i, None)
      BY <2>4 DEF Ended, Cut
    <3>. QED
      BY <2>1, <2>3, <2>4, <3>1, OverRequest DEF Active, InFlight
  <2>5. CASE ~InFlight(i)
    <3>1. req'[i] = req[i]
      BY <2>5 DEF Ended, Cut
    <3>. QED
      BY <2>3, <2>5, <3>1 DEF Active, InFlight
  <2>. QED
    BY <2>4, <2>5
<1>2. UNCHANGED Effects
  BY <1>1, Views, ViewsNext DEF EffectOf
<1>3. ASSUME NEW i \in Handler
      PROVE  KnownOf(req'[i]) = IF Knows[i] = "waiting" THEN "unsure" ELSE Knows[i]
  <2>1. Knows[i] = KnownOf(req[i])
    BY Views
  <2>. QED
    BY <1>1, <2>1, NoneApart DEF KnownOf
<1>4. Knows' = [c \in Handler |-> IF Knows[c] = "waiting" THEN "unsure" ELSE Knows[c]]
  BY <1>3, ViewsNext
<1>5. CASE \E c \in Handler : Knows[c] = "waiting"
  BY <1>2, <1>4, <1>5 DEF Promise!Die
<1>6. CASE \A c \in Handler : Knows[c] # "waiting"
  <2>1. Knows' = Knows
    BY <1>4, <1>6, Views
  <2>. QED
    BY <1>2, <2>1
<1>. QED
  BY <1>5, <1>6

\* A client that asks for a change through the gateway may rely on what
\* AtMostOnce says, whatever is lost, late or restarted in between.
THEOREM ChangesOnce == Spec => ChangesAtMostOnce
<1>1. Init => Promise!Init
  <2> SUFFICES ASSUME Init PROVE Promise!Init
    OBVIOUS
  <2>1. \A h \in Handler : KnownOf(req[h]) = None /\ EffectOf(req[h], work[h]) = 0
    BY IdleRequest, NoneApart DEF Init, KnownOf, EffectOf
  <2>. QED
    BY <2>1, Views DEF Promise!Init
<1>2. Inv /\ [Next]_vars => [Promise!Next]_(Promise!vars)
  <2> SUFFICES ASSUME Inv, [Next]_vars
               PROVE  \/ UNCHANGED <<Knows, Effects>>
                      \/ Promise!Next
    BY DEF Promise!vars
  <2>1. ASSUME NEW h \in Handler, Serve(h)
        PROVE  UNCHANGED <<Knows, Effects>> \/ Promise!Tell(h)
    BY <2>1, ServeUnseen, WriteTells DEF Serve
  <2>2. ASSUME NEW h \in Handler, Disturb(h)
        PROVE  UNCHANGED <<Knows, Effects>> \/ Promise!Ask(h) \/ Promise!Change(h)
    BY <2>2, ArriveAsks, ServeUnseen, ConnectionLostUnseen, BackendChanges,
       ClientLeavesUnseen DEF Disturb
  <2>3. CASE Exit
    BY <2>3, EndDies DEF Exit, Promise!Next
  <2>4. CASE Crash
    BY <2>4, EndDies DEF Crash, Promise!Next
  <2>5. CASE UNCHANGED <<req, work>>
    BY <2>5, SameViews
  <2>6. CASE Signal \/ Start \/ UNCHANGED vars
    BY <2>5, <2>6 DEF Signal, Start, vars
  <2>. QED
    BY <2>1, <2>2, <2>3, <2>4, <2>6, TickUnseen DEF Next, Promise!Next
<1>. QED
  BY Invariance, <1>1, <1>2, PTL DEF Spec, ChangesAtMostOnce, Promise!Spec

-----------------------------------------------------------------------------
(* Requests end *)

\* How many stages a request has before it, by the one it is in.
StagesLeft(p) ==
    CASE p = "global" -> 6
      [] p = "limit" -> 5
      [] p = "body" -> 4
      [] p = "conn" -> 3
      [] p = "sent" -> 2
      [] p = "write" -> 1
      [] OTHER -> 0

Left(h) == StagesLeft(req[h].pc)

\* The deadline of the stage has passed, or its client is gone; three stages
\* wait for nothing that could fail to come.
Due(h) ==
    \/ req[h].pc \in {"global", "limit", "write"}
    \/ At(h, "body") /\ (~req[h].client \/ req[h].age >= ReadTimeout)
    \/ req[h].pc \in {"conn", "sent"} /\ (~req[h].client \/ req[h].fwd >= RequestTimeout)

\* A step of the gateway on the request is enabled.
CanServe(h) ==
    \/ Due(h)
    \/ At(h, "conn") /\ (conf.conns = 0 \/ Cardinality(Busy) < conf.conns)
    \/ At(h, "sent") /\ work[h].answer # None

\* A request stays in its stage and gets no further from its deadline.
Waits(h) ==
    /\ req'[h].pc = req[h].pc
    /\ ~req[h].client => ~req'[h].client
    /\ req'[h].age >= req[h].age
    /\ req'[h].fwd >= req[h].fwd

LEMMA Stages ==
    ASSUME Inv, NEW h \in Handler
    PROVE  /\ \A s : Reply(h, s) => req'[h].pc = "write"
           /\ \A p : Goto(h, p) => req'[h].pc = p
<1>0. req \in [Handler -> Request] /\ req[h] \in Request
  BY DEF Inv
<1>1. \A s : [req[h] EXCEPT !.pc = "write", !.status = s, !.fwd = 0].pc = "write"
  BY <1>0 DEF Request
<1>2. \A p : [req[h] EXCEPT !.pc = p].pc = p
  BY <1>0 DEF Request
<1>. QED
  BY <1>0, <1>1, <1>2 DEF Reply, Goto, Step

\* Whatever the gateway does with a request takes it on.
LEMMA ServeLowers ==
    ASSUME Inv, NEW h \in Handler, Serve(h)
    PROVE  Left(h)' < Left(h)
<1>1. CASE GlobalLimit(h)
  <2>1. req[h].pc = "global" /\ req'[h].pc \in {"write", "limit", "body"}
    BY <1>1, Stages DEF GlobalLimit, At, Routed, Preflight, Admit
  <2>. QED
    BY <2>1 DEF Left, StagesLeft
<1>2. CASE EndpointLimit(h)
  <2>1. req[h].pc = "limit" /\ req'[h].pc \in {"write", "body"}
    BY <1>2, Stages DEF EndpointLimit, At
  <2>. QED
    BY <2>1 DEF Left, StagesLeft
<1>3. CASE BodyFails(h)
  <2>1. req[h].pc = "body" /\ req'[h].pc = "write"
    BY <1>3, Stages DEF BodyFails, At
  <2>. QED
    BY <2>1 DEF Left, StagesLeft
<1>4. CASE Send(h)
  <2>1. req[h].pc = "conn" /\ req'[h].pc = "sent"
    BY <1>4, Stages DEF Send, At
  <2>. QED
    BY <2>1 DEF Left, StagesLeft
<1>5. CASE Receive(h) \/ GiveUp(h)
  <2>1. req[h].pc \in {"conn", "sent"} /\ req'[h].pc = "write"
    BY <1>5, Stages DEF Receive, GiveUp, At
  <2>. QED
    BY <2>1 DEF Left, StagesLeft
<1>6. CASE Write(h)
  <2>1. req[h].pc = "write" /\ req'[h].pc = "done"
    BY <1>6, Current DEF Write, At, Step, Over, Idle, Inv
  <2>. QED
    BY <2>1 DEF Left, StagesLeft
<1>. QED
  BY <1>1, <1>2, <1>3, <1>4, <1>5, <1>6 DEF Serve

\* Nothing takes it back: neither other requests, nor the client, the backend,
\* time or the end of the process.
LEMMA NextLowers ==
    ASSUME Inv, [Next]_vars, NEW h \in Handler, InFlight(h)
    PROVE  Left(h)' < Left(h) \/ Waits(h)
<1>0. /\ req \in [Handler -> Request] /\ req[h] \in Request
      /\ req[h].age \in Nat /\ req[h].fwd \in Nat
      /\ req[h].age <= LastDeadline /\ req[h].fwd <= RequestTimeout
  BY RequestFields, Times DEF Inv
<1>1. ASSUME req'[h] = req[h] PROVE Waits(h)
  BY <1>0, <1>1 DEF Waits
<1>2. ASSUME NEW i \in Handler, Serve(i)
      PROVE  Left(h)' < Left(h) \/ req'[h] = req[h]
  <2>1. CASE i = h
    BY <1>2, <2>1, ServeLowers
  <2>2. CASE i # h
    <3>1. \E r : Step(i, r)
      BY <1>2, Zenon DEF Serve, GlobalLimit, EndpointLimit, BodyFails, Send, Receive, GiveUp,
         Write, Routed, Preflight, Admit, Reply, Goto
    <3>2. PICK r : Step(i, r)
      BY <3>1
    <3>. QED
      BY <1>0, <2>2, <3>2 DEF Step
  <2>. QED
    BY <2>1, <2>2
<1>3. ASSUME NEW i \in Handler, Disturb(i)
      PROVE  Left(h)' < Left(h) \/ Waits(h)
  <2>1. CASE i = h
    <3>1. ~Arrive(i)
      BY <2>1 DEF Arrive
    <3>2. CASE BodyArrives(i)
      <4>1. req[h].pc = "body" /\ req'[h].pc = "conn"
        BY <2>1, <3>2, Stages DEF BodyArrives, At
      <4>. QED
        BY <4>1 DEF Left, StagesLeft
    <3>3. CASE DialFails(i)
      <4>1. req[h].pc = "conn" /\ req'[h].pc = "write"
        BY <2>1, <3>3, Stages DEF DialFails, At
      <4>. QED
        BY <4>1 DEF Left, StagesLeft
    <3>4. CASE ConnectionLost(i)
      <4>1. req[h].pc = "sent" /\ (req' = req \/ req'[h].pc = "write")
        BY <2>1, <3>4, Stages DEF ConnectionLost, At
      <4>. QED
        BY <1>1, <4>1 DEF Left, StagesLeft
    <3>5. CASE BackendActs(i) \/ BackendDeclines(i)
      BY <1>1, <3>5 DEF BackendActs, BackendDeclines
    <3>6. CASE ClientLeaves(i)
      <4>1. req'[h] = [req[h] EXCEPT !.client = FALSE]
        BY <1>0, <2>1, <3>6 DEF ClientLeaves, Step
      <4>. QED
        BY <1>0, <4>1 DEF Waits, Request
    <3>. QED
      BY <1>3, <3>1, <3>2, <3>3, <3>4, <3>5, <3>6 DEF Disturb
  <2>2. CASE i # h
    <3>1. req' = req \/ \E r : Step(i, r)
      BY <1>3, Zenon DEF Disturb, Arrive, BodyArrives, DialFails, ConnectionLost, BackendActs,
         BackendDeclines, ClientLeaves, Reply, Goto
    <3>. QED
      BY <1>0, <1>1, <2>2, <3>1 DEF Step
  <2>. QED
    BY <2>1, <2>2
<1>4. CASE Tick
  <2>1. req'[h] = Aged(req[h])
    BY <1>4 DEF Tick
  <2> DEFINE a == Later(req[h].age, LastDeadline)
             f == IF req[h].pc \in {"conn", "sent"} THEN Later(req[h].fwd, RequestTimeout)
                  ELSE req[h].fwd
  <2>2. a >= req[h].age /\ f >= req[h].fwd
    BY <1>0 DEF Later
  <2>3. Aged(req[h]) = [req[h] EXCEPT !.age = a, !.fwd = f]
    BY <1>0 DEF Aged, Request
  <2> HIDE DEF a, f
  <2>4. /\ req'[h].pc = req[h].pc /\ req'[h].client = req[h].client
        /\ req'[h].age = a /\ req'[h].fwd = f
    BY <1>0, <2>1, <2>3 DEF Request
  <2>. QED
    BY <2>2, <2>4 DEF Waits
<1>5. CASE Exit \/ Crash
  <2>1. req'[h] = Over(h, None)
    BY <1>5, Zenon DEF Exit, Crash, Ended, Cut
  <2>2. req'[h].pc = "done"
    BY <1>0, <2>1, OverRequest
  <2>. QED
    BY <1>0, <2>2 DEF Left, StagesLeft, InFlight, Request
<1>6. CASE Signal \/ Start \/ UNCHANGED vars
  BY <1>1, <1>6 DEF Signal, Start, vars
<1>. QED
  BY <1>1, <1>2, <1>3, <1>4, <1>5, <1>6 DEF Next

\* Once due, a request is due until it leaves its stage.
LEMMA DueStays ==
    ASSUME Inv, [Next]_vars, NEW h \in Handler, Due(h)
    PROVE  Left(h)' < Left(h) \/ (Left(h)' = Left(h) /\ Due(h)')
<1>1. InFlight(h)
  BY DEF Due, InFlight, At
<1>2. CASE Left(h)' < Left(h)
  BY <1>2
<1>3. CASE Waits(h)
  <2>1. req[h].age \in Int /\ req[h].fwd \in Int /\ ReadTimeout \in Int /\ RequestTimeout \in Int
    BY Current, RequestFields, Times
  <2>2. req'[h].age \in Int /\ req'[h].fwd \in Int
    BY Current, NextInv, RequestFields, Times DEF Inv
  <2>. QED
    BY <1>3, <2>1, <2>2 DEF Due, Waits, At, Left
<1>. QED
  BY <1>1, <1>2, <1>3, NextLowers

\* A handler that can go on does: WF_vars(Serve(h)), with its ENABLED written out.
KeepsServing == \A h \in Handler : []<>~CanServe(h) \/ []<><<Serve(h)>>_vars

\* Time passes: a request that stays in a stage with a deadline reaches it.
DeadlinesPass ==
    \A h \in Handler :
        /\ At(h, "body") ~> Due(h) \/ ~At(h, "body")
        /\ At(h, "conn") ~> Due(h) \/ ~At(h, "conn")
        /\ At(h, "sent") ~> Due(h) \/ ~At(h, "sent")

\* Every request ends, for any routes, deadlines, connections and number of
\* requests, if handlers go on and deadlines come: no other request, no backend
\* and no client can keep one in the gateway.
THEOREM RequestsEndInTime == Spec /\ KeepsServing /\ DeadlinesPass => RequestsEnd
<1>1. SUFFICES ASSUME NEW h \in Handler
               PROVE  Spec /\ KeepsServing /\ DeadlinesPass => (InFlight(h) ~> ~InFlight(h))
  BY DEF RequestsEnd
<1> DEFINE L(n) == Left(h) = n
           D == Due(h)
<1>2. ASSUME Inv PROVE InFlight(h) <=> ~L(0)
  BY <1>2, Current, RequestFields DEF Left, StagesLeft, InFlight, Pc
<1>3. L(0) \/ L(1) \/ L(2) \/ L(3) \/ L(4) \/ L(5) \/ L(6)
  BY DEF Left, StagesLeft
<1>4. ASSUME Inv
      PROVE  /\ L(1) => D
             /\ L(2) => At(h, "sent")
             /\ L(3) => At(h, "conn")
             /\ L(4) => At(h, "body")
             /\ L(5) => D
             /\ L(6) => D
             /\ At(h, "sent") => L(2)
             /\ At(h, "conn") => L(3)
             /\ At(h, "body") => L(4)
             /\ D => CanServe(h)
  BY Current, RequestFields DEF Left, StagesLeft, Pc, Due, At, CanServe
<1>5. ASSUME Inv, [Next]_vars
      PROVE  /\ L(1) => L(1)' \/ L(0)'
             /\ L(2) => L(2)' \/ L(1)' \/ L(0)'
             /\ L(3) => L(3)' \/ L(2)' \/ L(1)' \/ L(0)'
             /\ L(4) => L(4)' \/ L(3)' \/ L(2)' \/ L(1)' \/ L(0)'
             /\ L(5) => L(5)' \/ L(4)' \/ L(3)' \/ L(2)' \/ L(1)' \/ L(0)'
             /\ L(6) => L(6)' \/ L(5)' \/ L(4)' \/ L(3)' \/ L(2)' \/ L(1)' \/ L(0)'
  <2>1. ~InFlight(h) \/ Left(h)' = Left(h) \/ Left(h)' < Left(h)
    BY <1>5, NextLowers DEF Left, Waits
  <2>2. Left(h) \in 0..6 /\ Left(h)' \in 0..6
    BY DEF Left, StagesLeft
  <2>. QED
    BY <1>2, <1>5, <2>1, <2>2
<1>6. ASSUME Inv, [Next]_vars
      PROVE  /\ L(1) /\ D => (L(1)' /\ D') \/ L(0)'
             /\ L(2) /\ D => (L(2)' /\ D') \/ L(1)' \/ L(0)'
             /\ L(3) /\ D => (L(3)' /\ D') \/ L(2)' \/ L(1)' \/ L(0)'
             /\ L(4) /\ D => (L(4)' /\ D') \/ L(3)' \/ L(2)' \/ L(1)' \/ L(0)'
             /\ L(5) /\ D => (L(5)' /\ D') \/ L(4)' \/ L(3)' \/ L(2)' \/ L(1)' \/ L(0)'
             /\ L(6) /\ D => (L(6)' /\ D') \/ L(5)' \/ L(4)' \/ L(3)' \/ L(2)' \/ L(1)' \/ L(0)'
  <2>1. D => (Left(h)' = Left(h) /\ D') \/ Left(h)' < Left(h)
    BY <1>6, DueStays
  <2>2. Left(h) \in 0..6 /\ Left(h)' \in 0..6
    BY DEF Left, StagesLeft
  <2> HIDE DEF D
  <2>. QED
    BY <2>1, <2>2
<1>7. ASSUME Inv, <<Serve(h)>>_vars
      PROVE  /\ L(1) => L(0)'
             /\ L(2) => L(1)' \/ L(0)'
             /\ L(3) => L(2)' \/ L(1)' \/ L(0)'
             /\ L(4) => L(3)' \/ L(2)' \/ L(1)' \/ L(0)'
             /\ L(5) => L(4)' \/ L(3)' \/ L(2)' \/ L(1)' \/ L(0)'
             /\ L(6) => L(5)' \/ L(4)' \/ L(3)' \/ L(2)' \/ L(1)' \/ L(0)'
  <2>1. Left(h)' < Left(h)
    BY <1>7, ServeLowers
  <2>2. Left(h) \in 0..6 /\ Left(h)' \in 0..6
    BY DEF Left, StagesLeft
  <2>. QED
    BY <2>1, <2>2
<1>8. KeepsServing => []<>~CanServe(h) \/ []<><<Serve(h)>>_vars
  BY DEF KeepsServing
<1>9. DeadlinesPass =>
         /\ At(h, "body") ~> D \/ ~At(h, "body")
         /\ At(h, "conn") ~> D \/ ~At(h, "conn")
         /\ At(h, "sent") ~> D \/ ~At(h, "sent")
  BY DEF DeadlinesPass
<1>. HIDE DEF L, D
<1>10. Spec => []Inv /\ [][Next]_vars
  BY Invariance, PTL DEF Spec
<1>. QED
  BY <1>2, <1>3, <1>4, <1>5, <1>6, <1>7, <1>8, <1>9, <1>10, PTL

-----------------------------------------------------------------------------
(* Connections and answers *)

\* No more requests are with the backend than max_conns_per_host, if that is
\* not zero.
ConnectionsBounded ==
    conf.conns # 0 => IsFiniteSet(Busy) /\ Cardinality(Busy) <= conf.conns

LEMMA NoNewBusy ==
    ASSUME Inv, NEW h \in Handler, req' = req \/ \E r : Step(h, r),
           req'[h].pc = "sent" => req[h].pc = "sent"
    PROVE  Busy' \subseteq Busy
BY DEF Busy, At, Step, Inv

\* A request joins those with the backend by Send alone.
LEMMA BusyMoves ==
    ASSUME Inv, [Next]_vars
    PROVE  \/ Busy' \subseteq Busy
           \/ \E h \in Handler : Send(h) /\ Busy' \subseteq Busy \cup {h}
<1>0. req \in [Handler -> Request]
  BY DEF Inv
<1>1. ASSUME NEW h \in Handler, Serve(h)
      PROVE  Busy' \subseteq Busy \/ (Send(h) /\ Busy' \subseteq Busy \cup {h})
  <2>1. CASE Send(h)
    <3>1. PICK r : Step(h, r)
      BY <2>1 DEF Send, Goto
    <3>. QED
      BY <1>0, <2>1, <3>1 DEF Busy, At, Step
  <2>2. CASE ~Send(h)
    <3>1. \E r : Step(h, r)
      BY <1>1, Zenon DEF Serve, GlobalLimit, EndpointLimit, BodyFails, Send, Receive,
         GiveUp, Write, Routed, Preflight, Admit, Reply, Goto
    <3>2. GlobalLimit(h) => req'[h].pc \in {"write", "limit", "body"}
      BY Stages DEF GlobalLimit, Routed, Preflight, Admit
    <3>3. EndpointLimit(h) \/ BodyFails(h) \/ Receive(h) \/ GiveUp(h) =>
            req'[h].pc \in {"write", "body"}
      BY Stages DEF EndpointLimit, BodyFails, Receive, GiveUp
    <3>4. Write(h) => req'[h].pc = "done"
      BY <1>0 DEF Write, Step, Over, Idle
    <3>5. req'[h].pc # "sent"
      BY <1>1, <2>2, <3>2, <3>3, <3>4 DEF Serve
    <3>. QED
      BY <3>1, <3>5, NoNewBusy
  <2>. QED
    BY <2>1, <2>2
<1>2. ASSUME NEW h \in Handler, Disturb(h) PROVE Busy' \subseteq Busy
  <2>1. req' = req \/ \E r : Step(h, r)
    BY <1>2, Zenon DEF Disturb, Arrive, BodyArrives, DialFails, ConnectionLost, BackendActs,
       BackendDeclines, ClientLeaves, Reply, Goto
  <2>2. Arrive(h) => req'[h].pc = "global"
    <3>1. \A t, token : [Idle EXCEPT !.pc = "global", !.target = t, !.token = token,
                                     !.client = TRUE].pc = "global"
      BY DEF Idle
    <3>2. SUFFICES ASSUME Arrive(h) PROVE req'[h].pc = "global"
      OBVIOUS
    <3>3. PICK t \in Target, token \in BOOLEAN :
            Step(h, [Idle EXCEPT !.pc = "global", !.target = t, !.token = token,
                                 !.client = TRUE])
      BY <3>2 DEF Arrive
    <3>4. req'[h] = [Idle EXCEPT !.pc = "global", !.target = t, !.token = token, !.client = TRUE]
      BY <1>0, <3>3 DEF Step
    <3>. QED
      BY <3>1, <3>4
  <2>3. BodyArrives(h) \/ DialFails(h) => req'[h].pc \in {"conn", "write"}
    BY Stages DEF BodyArrives, DialFails
  <2>4. ConnectionLost(h) => req[h].pc = "sent"
    BY DEF ConnectionLost, At
  <2>5. BackendActs(h) \/ BackendDeclines(h) => req' = req
    BY DEF BackendActs, BackendDeclines
  <2>6. ClientLeaves(h) => req'[h].pc = req[h].pc
    BY <1>0 DEF ClientLeaves, Step, Request
  <2>7. req'[h].pc = "sent" => req[h].pc = "sent"
    BY <1>2, <2>2, <2>3, <2>4, <2>5, <2>6 DEF Disturb
  <2>. QED
    BY <2>1, <2>7, NoNewBusy
<1>3. CASE Tick
  <2>1. ASSUME NEW h \in Handler PROVE req'[h].pc = req[h].pc
    BY <1>3, Current, AgedRequest DEF Tick
  <2>. QED
    BY <2>1 DEF Busy, At
<1>4. CASE Exit \/ Crash
  <2>1. ASSUME NEW h \in Handler PROVE req'[h].pc = "done" \/ req'[h] = req[h]
    <3>1. req'[h] = IF InFlight(h) THEN Over(h, None) ELSE req[h]
      BY <1>4, Zenon DEF Exit, Crash, Ended, Cut
    <3>. QED
      BY <3>1, Current, OverRequest
  <2>. QED
    BY <2>1 DEF Busy, At
<1>5. CASE Signal \/ Start \/ UNCHANGED vars
  BY <1>5 DEF Signal, Start, vars, Busy, At
<1>. QED
  BY <1>1, <1>2, <1>3, <1>4, <1>5 DEF Next

\* The requests that the gateway has with the backend at a time are no more than
\* the connections it is configured for, through lost connections that are sent
\* again, shutdowns, crashes and restarts with another bound.
THEOREM PoolBounded == Spec => []ConnectionsBounded
<1>1. Init => ConnectionsBounded
  <2>1. Init => Busy = {}
    BY IdleRequest DEF Init, Busy, At
  <2>2. \A c \in Configurations : c.conns \in Nat
    BY TypeAssumption DEF Configurations, FromEnv, File
  <2>. QED
    BY <2>1, <2>2, FS_EmptySet DEF Init, ConnectionsBounded
<1>2. ASSUME Inv, ConnectionsBounded, [Next]_vars PROVE ConnectionsBounded'
  <2>0. conf.conns \in Nat /\ conf'.conns \in Nat
    <3>1. \A c \in Configurations : c.conns \in Nat
      BY TypeAssumption DEF Configurations, FromEnv, File
    <3>. QED
      BY <1>2, <3>1, NextInv DEF Inv, Process
  <2>1. CASE conf' # conf
    <3>1. ~Running /\ req' = req
      BY <1>2, <2>1, Zenon DEF Next, Serve, Disturb, GlobalLimit, EndpointLimit, BodyFails, Send,
         Receive, GiveUp, Write, Arrive, BodyArrives, DialFails, ConnectionLost, BackendActs,
         BackendDeclines, ClientLeaves, Tick, Signal, Exit, Crash, Ended, Start, vars
    <3>2. Busy = {}
      BY <1>2, <3>1, Current DEF Fine, Timely, Active, Busy, At, Running
    <3>3. Busy' = {}
      BY <3>1, <3>2 DEF Busy, At
    <3>. QED
      BY <2>0, <3>3, FS_EmptySet DEF ConnectionsBounded
  <2>2. CASE conf' = conf /\ conf.conns # 0
    <3>1. IsFiniteSet(Busy) /\ Cardinality(Busy) <= conf.conns /\ Cardinality(Busy) \in Nat
      BY <1>2, <2>2, FS_CardinalityType DEF ConnectionsBounded
    <3>2. CASE Busy' \subseteq Busy
      <4>1. IsFiniteSet(Busy') /\ Cardinality(Busy') <= Cardinality(Busy)
            /\ Cardinality(Busy') \in Nat
        BY <3>1, <3>2, FS_Subset, FS_CardinalityType
      <4>. QED
        BY <2>0, <2>2, <3>1, <4>1 DEF ConnectionsBounded
    <3>3. ASSUME NEW h \in Handler, Send(h), Busy' \subseteq Busy \cup {h}
          PROVE  ConnectionsBounded'
      <4>1. Cardinality(Busy) < conf.conns
        BY <2>2, <3>3 DEF Send
      <4>2. IsFiniteSet(Busy \cup {h}) /\ Cardinality(Busy \cup {h}) <= conf.conns
            /\ Cardinality(Busy \cup {h}) \in Nat
        BY <2>0, <3>1, <4>1, FS_AddElement, FS_CardinalityType
      <4>3. IsFiniteSet(Busy') /\ Cardinality(Busy') <= Cardinality(Busy \cup {h})
            /\ Cardinality(Busy') \in Nat
        BY <3>3, <4>2, FS_Subset, FS_CardinalityType
      <4>. QED
        BY <2>0, <2>2, <4>2, <4>3 DEF ConnectionsBounded
    <3>. QED
      BY <1>2, <3>2, <3>3, BusyMoves
  <2>3. CASE conf' = conf /\ conf.conns = 0
    BY <2>3 DEF ConnectionsBounded
  <2>. QED
    BY <2>1, <2>2, <2>3
<1>. QED
  BY <1>1, <1>2, Invariance, PTL DEF Spec

\* Told of a success, the client's change has happened; told of a refusal, it has
\* not; and no change happens twice.
ClientsKnowTruth ==
    \A h \in Handler : /\ Knows[h] = "happened" => Effects[h] = 1
                       /\ Knows[h] = "refused" => Effects[h] = 0
                       /\ Effects[h] \in {0, 1}

\* What AtMostOnce is worth to a client: whatever it was told of a call is true,
\* and stays true until it makes its next.
THEOREM AnswersTrue == Spec => []ClientsKnowTruth
<1> DEFINE T == /\ Knows \in [Handler -> Promise!Knowledge \cup {None}]
                /\ Effects \in [Handler -> {0, 1}]
                /\ ClientsKnowTruth
<1>1. Promise!Init => T
  BY NoneApart DEF Promise!Init, ClientsKnowTruth
<1>2. T /\ [Promise!Next]_(Promise!vars) => T'
  <2> SUFFICES ASSUME T, [Promise!Next]_(Promise!vars) PROVE T'
    OBVIOUS
  <2>1. ASSUME NEW h \in Handler, Promise!Ask(h) PROVE T'
    BY <2>1, NoneApart DEF Promise!Ask, Promise!Knowledge, ClientsKnowTruth
  <2>2. ASSUME NEW h \in Handler, Promise!Change(h) PROVE T'
    BY <2>2 DEF Promise!Change, ClientsKnowTruth
  <2>3. ASSUME NEW h \in Handler, Promise!Tell(h) PROVE T'
    BY <2>3 DEF Promise!Tell, Promise!Knowledge, ClientsKnowTruth
  <2>4. CASE Promise!Die
    BY <2>4 DEF Promise!Die, Promise!Knowledge, ClientsKnowTruth
  <2>5. CASE UNCHANGED Promise!vars
    BY <2>5 DEF Promise!vars, ClientsKnowTruth
  <2>. QED
    BY <2>1, <2>2, <2>3, <2>4, <2>5 DEF Promise!Next
<1>3. T => ClientsKnowTruth
  OBVIOUS
<1>. HIDE DEF T
<1>. QED
  BY <1>1, <1>2, <1>3, ChangesOnce, PTL DEF ChangesAtMostOnce, Promise!Spec
=============================================================================
