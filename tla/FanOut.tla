------------------------------- MODULE FanOut -------------------------------
(***************************************************************************)
(* One call of the aggregator (api-gateway/internal/aggregator) and the    *)
(* goroutines of ForwardMultiple (internal/proxy/proxy.go): each part of   *)
(* the call is forwarded by a goroutine of its own, which puts what came   *)
(* of it into a channel; the caller empties the channel into a map by key  *)
(* and makes an answer of the map.                                         *)
(*                                                                         *)
(* Several parts may name one *http.Request, the incoming one: they share  *)
(* its body, of which each Read takes the next chunk and which Forward     *)
(* closes when it returns.  Keys may repeat.  Calls share nothing with     *)
(* each other, so there is one.  Left out: a part without a request, which *)
(* would end the process; the text of error messages.                      *)
(***************************************************************************)
EXTENDS Integers, Sequences

CONSTANTS
    Key,      \* of parts
    Field,    \* of JSON objects in the answers of backends
    Source,   \* the http.Requests
    Services, \* what services maps
    Lists,    \* the lists of parts that the call may be about
    MaxParts, \* bound: their length
    Chunks,   \* in how many Reads a body is over
    None

Part == [key : Key, service : STRING, source : Source]

ASSUME PartsAssumption ==
    /\ MaxParts \in Nat /\ Services \subseteq STRING
    /\ \A l \in Lists : l \in Seq(Part) /\ Len(l) <= MaxParts
    /\ Chunks \in Nat /\ Key \subseteq Field

Kind == {"merge", "plain", "list"}

VARIABLES
    parts,    \* the requests of the call
    kind,     \* AggregateWithRequest with a mergeType, or FanOutWithRequest
    phase,    \* of the caller
    go,       \* go[i]: where the goroutine of part i is
    got,      \* got[i]: the chunks it has read
    next,     \* next[q]: the next chunk of the body of q, above Chunks at its end
    closed,   \* the requests whose body is closed
    back,     \* back[i]: what Forward returned to it
    channel,  \* resultChan
    taken,    \* how many results the caller took out of it
    results,  \* results[k]
    todo,     \* the keys or parts that the last loop has not visited
    reply     \* the answer of the call

vars == <<parts, kind, phase, go, got, next, closed, back, channel, taken,
          results, todo, reply>>

Indices == DOMAIN parts

\* A status below 400, one from 400 on, or an error; and for mergeResponses,
\* which fields the body has if it is a JSON object.
Response == [part : Nat \ {0}, status : {"good", "bad", "error"},
             fields : (SUBSET Field) \cup {None}]

\* Mutant of Failure: what Forward returns with an error, put as it is.
FailureNil(i) == None

Failure(i) == [part |-> i, status |-> "error", fields |-> None]

\* What an answer has under each name: the part that it comes from, or 0.
NoNames == [x \in Field |-> 0]

ASSUME NoneAssumption == None \notin Response

Reply == [kind : {"partial", "complete"}, names : [Field -> Nat], list : Seq(Nat)]

-----------------------------------------------------------------------------
(* Forward, in the goroutine of part i *)

Move(i, from, to) == go[i] = from /\ go' = [go EXCEPT ![i] = to]

Caller == <<parts, kind, phase, channel, taken, results, todo, reply>>

Begin(i) ==
    /\ Move(i, "ready", "read")
    /\ parts[i].service \in Services
    /\ UNCHANGED <<Caller, got, next, closed, back>>

Unknown(i) ==
    /\ Move(i, "ready", "over")
    /\ parts[i].service \notin Services
    /\ back' = [back EXCEPT ![i] = Failure(i)]
    /\ UNCHANGED <<Caller, got, next, closed>>

\* Mutant of ReadChunk: every reader has a body of its own.
ReadOwn(i) ==
    /\ go[i] = "read" /\ parts[i].source \notin closed
    /\ \E c \in 1..Chunks :
         /\ \A d \in 1..c - 1 : d \in got[i]
         /\ got' = [got EXCEPT ![i] = @ \cup {c}]
         /\ next' = [next EXCEPT ![parts[i].source] = c + 1]
    /\ UNCHANGED <<Caller, go, closed, back>>

ReadChunk(i) ==
    LET q == parts[i].source IN
    /\ go[i] = "read" /\ q \notin closed /\ next[q] <= Chunks
    /\ got' = [got EXCEPT ![i] = @ \cup {next[q]}]
    /\ next' = [next EXCEPT ![q] = @ + 1]
    /\ UNCHANGED <<Caller, go, closed, back>>

ReadEnd(i) ==
    /\ Move(i, "read", "wait")
    /\ parts[i].source \notin closed /\ next[parts[i].source] > Chunks
    /\ UNCHANGED <<Caller, got, next, closed, back>>

\* The body is closed, or its client is gone.
ReadFails(i) ==
    /\ Move(i, "read", "over")
    /\ back' = [back EXCEPT ![i] = Failure(i)]
    /\ UNCHANGED <<Caller, got, next, closed>>

Bodies == IF kind = "merge" THEN (SUBSET Field) \cup {None} ELSE {None}

Outcomes(i) ==
    {Failure(i), [part |-> i, status |-> "bad", fields |-> None]}
        \cup {[part |-> i, status |-> "good", fields |-> f] : f \in Bodies}

\* The backend answers, or Do fails; the body is closed on the way out.
Return(i) ==
    /\ Move(i, "wait", "over")
    /\ \E r \in Outcomes(i) : back' = [back EXCEPT ![i] = r]
    /\ closed' = closed \cup {parts[i].source}
    /\ UNCHANGED <<Caller, got, next>>

\* resultChan <- result, of a channel with room for every part.
Put(i) ==
    /\ Move(i, "over", "gone")
    /\ Len(channel) < Len(parts)
    /\ channel' = Append(channel, [key |-> parts[i].key, response |-> back[i]])
    /\ UNCHANGED <<parts, kind, phase, taken, results, todo, reply, got, next, closed, back>>

-----------------------------------------------------------------------------
(* The caller *)

Goroutines == <<go, got, next, closed, back>>

\* Mutant of Expected: one result too few.
ExpectedLess == Len(parts) - 1

\* Another: one that never comes.
ExpectedMore == Len(parts) + 1

Expected == Len(parts)

Take ==
    /\ phase = "collect" /\ taken < Expected /\ channel # <<>>
    /\ results' = [results EXCEPT ![Head(channel).key] = Head(channel).response]
    /\ channel' = Tail(channel)
    /\ taken' = taken + 1
    /\ UNCHANGED <<parts, kind, phase, todo, reply, Goroutines>>

Collected ==
    /\ phase = "collect" /\ taken >= Expected
    /\ phase' = "answer"
    /\ UNCHANGED <<parts, kind, channel, taken, results, todo, reply, Goroutines>>

Keys == {parts[i].key : i \in Indices}

\* Mutant of Failed: what a backend answers is no failure.
FailedToAnswer(r) == r.status = "error"

\* AggregateWithRequest: hasError.
Failed(r) == r.status # "good"

Names == [x \in Field |-> IF x \in Keys /\ results[x].status # "error"
                          THEN results[x].part ELSE 0]

Answer(r) == reply' = r /\ phase' = "done"

AnswerPartial ==
    /\ phase = "answer" /\ kind # "list" /\ \E k \in Keys : Failed(results[k])
    /\ Answer([kind |-> "partial", names |-> Names, list |-> <<>>])
    /\ UNCHANGED <<parts, kind, channel, taken, results, todo, Goroutines>>

AnswerPlain ==
    /\ phase = "answer" /\ kind = "plain" /\ \A k \in Keys : ~Failed(results[k])
    /\ Answer([kind |-> "complete", names |-> Names, list |-> <<>>])
    /\ UNCHANGED <<parts, kind, channel, taken, results, todo, Goroutines>>

BeginMerge ==
    /\ phase = "answer" /\ kind = "merge" /\ \A k \in Keys : ~Failed(results[k])
    /\ phase' = IF Keys = {} THEN "done" ELSE "merge"
    /\ todo' = Keys
    /\ reply' = [kind |-> "complete", names |-> NoNames, list |-> <<>>]
    /\ UNCHANGED <<parts, kind, channel, taken, results, Goroutines>>

\* Mutant of Merged: no default for what is not an object.
MergedObjects(names, k, r) ==
    [x \in Field |-> IF r.fields # None /\ x \in r.fields THEN r.part ELSE names[x]]

\* The fields of an object replace those of the same name; what is not an
\* object stays under its key.
Merged(names, k, r) ==
    [x \in Field |-> IF x \in (IF r.fields = None THEN {k} ELSE r.fields)
                     THEN r.part ELSE names[x]]

\* mergeResponses, in whatever order the map is visited.
MergeKey ==
    /\ phase = "merge"
    /\ \E k \in todo :
         /\ todo' = todo \ {k}
         /\ reply' = [reply EXCEPT !.names = Merged(@, k, results[k])]
    /\ phase' = IF todo' = {} THEN "done" ELSE phase
    /\ UNCHANGED <<parts, kind, channel, taken, results, Goroutines>>

BeginList ==
    /\ phase = "answer" /\ kind = "list"
    /\ phase' = IF Indices = {} THEN "done" ELSE "list"
    /\ todo' = Indices
    /\ reply' = [kind |-> "complete", names |-> NoNames, list |-> <<>>]
    /\ UNCHANGED <<parts, kind, channel, taken, results, Goroutines>>

\* Mutant of Visited: the loop over the map instead of the parts.
VisitedAnyhow == todo

Visited == {i \in todo : \A j \in todo : i <= j}

\* FanOutWithRequest; it leaves out errors, and only those.
ListPart ==
    /\ phase = "list"
    /\ \E i \in Visited :
         LET r == results[parts[i].key] IN
         /\ todo' = todo \ {i}
         /\ reply' = IF r.status = "error" THEN reply
                     ELSE [reply EXCEPT !.list = Append(@, r.part)]
    /\ phase' = IF todo' = {} THEN "done" ELSE phase
    /\ UNCHANGED <<parts, kind, channel, taken, results, Goroutines>>

-----------------------------------------------------------------------------
Init ==
    /\ parts \in Lists /\ kind \in Kind /\ phase = "collect"
    /\ go = [i \in Indices |-> "ready"]
    /\ got = [i \in Indices |-> {}]
    /\ next = [q \in Source |-> 1]
    /\ closed = {}
    /\ back = [i \in Indices |-> None]
    /\ channel = <<>> /\ taken = 0
    /\ results = [k \in Key |-> None]
    /\ todo = {} /\ reply = None

Forward(i) ==
    \/ Begin(i) \/ Unknown(i) \/ ReadChunk(i) \/ ReadEnd(i) \/ ReadFails(i)
    \/ Return(i) \/ Put(i)

Call ==
    \/ Take \/ Collected \/ AnswerPartial \/ AnswerPlain \/ BeginMerge
    \/ MergeKey \/ BeginList \/ ListPart

Next == Call \/ \E i \in Indices : Forward(i)

Spec == Init /\ [][Next]_vars

\* Goroutines run; a body arrives or its deadline passes, a backend answers or
\* the timeout of the client passes.
FairSpec ==
    /\ Spec
    /\ WF_vars(Call)
    /\ \A i \in 1..MaxParts : WF_vars(i \in Indices /\ Forward(i))

-----------------------------------------------------------------------------
(* Properties *)

TypeOK ==
    /\ parts \in Lists /\ kind \in Kind
    /\ phase \in {"collect", "answer", "merge", "list", "done"}
    /\ go \in [Indices -> {"ready", "read", "wait", "over", "gone"}]
    /\ got \in [Indices -> SUBSET (1..Chunks)]
    /\ next \in [Source -> 1..Chunks + 1]
    /\ closed \subseteq Source
    /\ back \in [Indices -> Response \cup {None}]
    /\ channel \in Seq([key : Key, response : Response])
    /\ Len(channel) <= Len(parts) /\ taken \in 0..Len(parts)
    /\ results \in [Key -> Response \cup {None}]
    /\ todo \subseteq Key \cup Indices
    /\ reply \in Reply \cup {None}

Promise == INSTANCE Gather WITH
    Outcome <- Response,
    key <- [i \in Indices |-> parts[i].key],
    outcome <- back,
    result <- IF phase = "collect" THEN None ELSE results

\* In whatever order the goroutines end, the caller goes on only when all of
\* them have, and finds under each key what came of a part with that key.
GathersAll == Promise!Spec

Alone(i, same(_, _)) == \A j \in Indices : same(i, j) => j = i

SameKey(i, j) == parts[i].key = parts[j].key
SameSource(i, j) == parts[i].source = parts[j].source

\* An answer without "Partial success" means that every part succeeded, except
\* that parts with the same key hide each other; one with it, that some did not.
FailuresReported ==
    reply # None /\ kind # "list" =>
        IF reply.kind = "complete"
        THEN \A i \in Indices : Alone(i, SameKey) => back[i].status = "good"
        ELSE \E i \in Indices : back[i].status # "good"

\* What parts forward of a body that they share is disjoint, and between them
\* they have read all of it when one of them is done with reading; so a part
\* with a request of its own forwards a whole body.
BodiesApart ==
    \A i \in Indices :
        /\ \A j \in Indices : SameSource(i, j) /\ i # j => got[i] \cap got[j] = {}
        /\ go[i] = "wait" =>
              UNION {got[j] : j \in {k \in Indices : SameSource(i, k)}} = 1..Chunks

\* Contributes(k, x): under key k there is something for the name x.
Contributes(k, x) ==
    x \in (IF results[k].fields = None THEN {k} ELSE results[k].fields)

\* A merged answer loses no name, and under each has what some part sent for it.
MergeComplete ==
    phase = "done" /\ kind = "merge" /\ reply.kind = "complete" =>
        \A x \in Field :
            LET from == {k \in Keys : Contributes(k, x)} IN
            IF from = {} THEN reply.names[x] = 0
                         ELSE \E k \in from : reply.names[x] = results[k].part

\* A list has the results in the order of the parts, not of their arrival; each
\* part with a key of its own that got an answer is in it.
ListInOrder ==
    phase = "done" /\ kind = "list" /\ (\A i \in Indices : Alone(i, SameKey)) =>
        /\ \A m, n \in DOMAIN reply.list : m < n => reply.list[m] < reply.list[n]
        /\ \A i \in Indices : back[i].status # "error" =>
              \E n \in DOMAIN reply.list : reply.list[n] = i

\* The call returns.
CallEnds == <>(phase = "done")
=============================================================================
