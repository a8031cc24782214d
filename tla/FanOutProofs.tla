---------------------------- MODULE FanOutProofs ----------------------------
(***************************************************************************)
(* Theorems about FanOut, for calls with any number of parts that share    *)
(* requests and keys in any way.  The invariants are proved one after the  *)
(* other, each from those before it: the types of what the goroutines and  *)
(* the channel hold (Base), what has become of each part (Delivered), the  *)
(* shared bodies (Shared), the kind of the reply (Progress) and the two    *)
(* loops over the results (Merging, Listing).                              *)
(***************************************************************************)
EXTENDS FanOut, FiniteSetTheorems, SequenceTheorems, WellFoundedInduction, TLAPS

\* The types, without that of the reply.
Base ==
    /\ parts \in Lists /\ kind \in Kind
    /\ phase \in {"collect", "answer", "merge", "list", "done"}
    /\ go \in [Indices -> {"ready", "read", "wait", "over", "gone"}]
    /\ got \in [Indices -> SUBSET (1..Chunks)]
    /\ next \in [Source -> 1..Chunks + 1]
    /\ closed \subseteq Source
    /\ back \in [Indices -> Response \cup {None}]
    /\ channel \in Seq([key : Key, response : Response])
    /\ Len(channel) <= Len(parts) /\ taken \in 0..Len(parts)
    /\ results \in [Key -> Response \cup {None}]
    /\ todo \subseteq Key \cup Indices
    /\ \A i \in Indices :
          /\ go[i] \in {"over", "gone"} => back[i] \in Response /\ back[i].part = i
          /\ go[i] \in {"ready", "read", "wait"} => back[i] = None

LEMMA PartsFacts ==
    ASSUME parts \in Lists
    PROVE  /\ Len(parts) \in Nat /\ Indices = 1..Len(parts)
           /\ \A i \in Indices : parts[i].key \in Key /\ parts[i].source \in Source
           /\ Indices \subseteq 1..MaxParts
<1>1. parts \in Seq(Part) /\ Len(parts) <= MaxParts /\ MaxParts \in Nat
  BY PartsAssumption
<1>2. Len(parts) \in Nat /\ Indices = 1..Len(parts)
  BY <1>1 DEF Indices
<1>3. \A i \in Indices : parts[i] \in Part
  BY <1>1, <1>2
<1>. QED
  BY <1>1, <1>2, <1>3 DEF Part

LEMMA OutcomeTypes ==
    ASSUME NEW i \in Nat \ {0}
    PROVE  /\ Failure(i) \in Response /\ Failure(i).part = i
           /\ \A r \in Outcomes(i) : r \in Response /\ r.part = i
<1>1. Bodies \subseteq (SUBSET Field) \cup {None}
  BY DEF Bodies
<1>. QED
  BY <1>1 DEF Failure, Outcomes, Response

-----------------------------------------------------------------------------
(* Types *)

LEMMA BaseInit ==
    ASSUME Init
    PROVE  Base
<1>1. parts \in Lists
  BY DEF Init
<1>2. Len(parts) \in Nat /\ Chunks \in Nat
  BY <1>1, PartsFacts, PartsAssumption
<1>3. \A i \in Indices : go[i] = "ready" /\ back[i] = None
  BY DEF Init
<1>4. channel \in Seq([key : Key, response : Response]) /\ Len(channel) = 0
  BY DEF Init
<1>. QED
  BY <1>1, <1>2, <1>3, <1>4 DEF Init, Base

LEMMA BaseForward ==
    ASSUME Base, NEW i \in Indices, Forward(i)
    PROVE  Base'
<1>1. /\ Len(parts) \in Nat /\ Indices = 1..Len(parts) /\ i \in Nat \ {0}
      /\ parts[i].source \in Source /\ parts[i].key \in Key /\ Chunks \in Nat
  BY PartsFacts, PartsAssumption DEF Base
<1>2. ASSUME NEW to \in {"read", "wait"}, go[i] \in {"ready", "read"},
             go' = [go EXCEPT ![i] = to], UNCHANGED <<Caller, got, next, closed, back>>
      PROVE  Base'
  <2>1. go' \in [Indices -> {"ready", "read", "wait", "over", "gone"}]
    BY <1>2 DEF Base
  <2>2. \A j \in Indices : go'[j] = IF j = i THEN to ELSE go[j]
    BY <1>2 DEF Base
  <2>3. back[i] = None
    BY <1>2 DEF Base
  <2>. QED
    BY <1>1, <1>2, <2>1, <2>2, <2>3 DEF Caller, Base, Indices
<1>8. CASE Begin(i)
  BY <1>2, <1>8 DEF Begin, Move
<1>9. CASE ReadEnd(i)
  BY <1>2, <1>9 DEF ReadEnd, Move
<1>3. CASE ReadChunk(i)
  BY <1>1, <1>3 DEF ReadChunk, Caller, Base, Indices
<1>4. ASSUME go[i] \in {"ready", "read", "wait"}, go' = [go EXCEPT ![i] = "over"],
             NEW r \in Response, r.part = i, back' = [back EXCEPT ![i] = r],
             UNCHANGED <<Caller, got, next>>, closed' \subseteq Source
      PROVE  Base'
  BY <1>1, <1>4 DEF Caller, Base, Indices
<1>5. CASE Unknown(i) \/ ReadFails(i)
  <2>1. Failure(i) \in Response /\ Failure(i).part = i
    BY <1>1, OutcomeTypes
  <2>. QED
    BY <1>4, <1>5, <2>1 DEF Unknown, ReadFails, Move, Base
<1>6. CASE Return(i)
  <2>1. PICK r \in Outcomes(i) : back' = [back EXCEPT ![i] = r]
    BY <1>6 DEF Return
  <2>2. r \in Response /\ r.part = i
    BY <1>1, <2>1, OutcomeTypes
  <2>3. closed' \subseteq Source
    BY <1>1, <1>6 DEF Return, Base
  <2>4. /\ go[i] \in {"ready", "read", "wait"} /\ go' = [go EXCEPT ![i] = "over"]
        /\ UNCHANGED <<Caller, got, next>>
    BY <1>6 DEF Return, Move
  <2>. QED
    BY <1>4, <2>1, <2>2, <2>3, <2>4
<1>7. CASE Put(i)
  <2>1. back[i] \in Response /\ back[i].part = i
    BY <1>7 DEF Put, Move, Base
  <2>2. [key |-> parts[i].key, response |-> back[i]] \in [key : Key, response : Response]
    BY <1>1, <2>1
  <2>3. channel' \in Seq([key : Key, response : Response]) /\ Len(channel') <= Len(parts)
    BY <1>1, <1>7, <2>2 DEF Put, Base
  <2>. QED
    BY <1>7, <2>1, <2>3 DEF Put, Move, Base, Indices
<1>. QED
  BY <1>3, <1>5, <1>6, <1>7, <1>8, <1>9 DEF Forward

LEMMA BaseCall ==
    ASSUME Base, Call
    PROVE  Base'
<1>1. CASE Take
  <2>0. channel \in Seq([key : Key, response : Response]) /\ channel # <<>>
    BY <1>1 DEF Take, Base
  <2>1. /\ Head(channel) \in [key : Key, response : Response]
        /\ Tail(channel) \in Seq([key : Key, response : Response])
        /\ Len(Tail(channel)) = Len(channel) - 1
    BY <2>0, HeadTailProperties, Zenon
  <2>2. /\ Len(Tail(channel)) <= Len(parts) /\ Len(channel) \in Nat
    BY <2>0, <2>1, PartsFacts DEF Base
  <2>3. Head(channel).key \in Key /\ Head(channel).response \in Response
    BY <2>1
  <2>4. results' \in [Key -> Response \cup {None}]
    BY <1>1, <2>3 DEF Take, Base
  <2>5. taken + 1 \in 0..Len(parts)
    BY <1>1, PartsFacts DEF Take, Base, Expected
  <2>. QED
    BY <1>1, <2>1, <2>2, <2>4, <2>5 DEF Take, Goroutines, Base, Indices
<1>2. Keys \subseteq Key
  BY PartsFacts DEF Base, Keys
<1>3. CASE Collected \/ AnswerPartial \/ AnswerPlain
  BY <1>3 DEF Collected, AnswerPartial, AnswerPlain, Answer, Goroutines, Base, Indices
<1>4. CASE BeginMerge \/ MergeKey
  BY <1>2, <1>4 DEF BeginMerge, MergeKey, Goroutines, Base, Indices
<1>5. CASE BeginList \/ ListPart
  BY <1>5 DEF BeginList, ListPart, Goroutines, Base, Indices
<1>. QED
  BY <1>1, <1>3, <1>4, <1>5 DEF Call

LEMMA BaseAlways == Spec => []Base
<1>1. Base /\ [Next]_vars => Base'
  <2>1. ASSUME Base, UNCHANGED vars PROVE Base'
    BY <2>1 DEF Base, vars, Indices
  <2>. QED
    BY <2>1, BaseForward, BaseCall DEF Next
<1>. QED
  BY <1>1, BaseInit, PTL DEF Spec

-----------------------------------------------------------------------------
(* What has become of the parts *)

\* The parts whose result has been put.
Gone == {i \in Indices : go[i] = "gone"}

\* What is in the channel, and under the keys, came of parts that are gone; no
\* part that is gone is forgotten; and results are counted.
Delivered ==
    /\ \A n \in 1..Len(channel) :
         \E i \in Gone : channel[n].key = parts[i].key /\ channel[n].response = back[i]
    /\ \A k \in Key : results[k] # None =>
         \E i \in Gone : parts[i].key = k /\ results[k] = back[i]
    /\ \A i \in Gone : \/ results[parts[i].key] # None
                       \/ \E n \in 1..Len(channel) : channel[n].key = parts[i].key
    /\ taken + Len(channel) = Cardinality(Gone)
    /\ phase # "collect" => taken = Len(parts)

LEMMA GoneFinite ==
    ASSUME parts \in Lists
    PROVE  /\ IsFiniteSet(Indices) /\ Cardinality(Indices) = Len(parts)
           /\ IsFiniteSet(Gone) /\ Cardinality(Gone) \in Nat
           /\ Cardinality(Gone) <= Len(parts)
           /\ Cardinality(Gone) = Len(parts) => Gone = Indices
<1>1. Len(parts) \in Nat /\ Indices = 1..Len(parts)
  BY PartsFacts
<1>2. IsFiniteSet(Indices) /\ Cardinality(Indices) = Len(parts)
  BY <1>1, FS_Interval
<1>3. Gone \in SUBSET Indices
  BY DEF Gone
<1>. QED
  BY <1>2, <1>3, FS_Subset, FS_CardinalityType

\* A step that changes neither the channel, the results nor Gone.
LEMMA DeliveredKept ==
    ASSUME Delivered, UNCHANGED <<parts, channel, taken, results>>, Gone' = Gone,
           \A j \in Gone : back'[j] = back[j],
           phase' = phase \/ taken = Len(parts)
    PROVE  Delivered'
<1>1. \A n \in 1..Len(channel') :
         \E i \in Gone' : channel'[n].key = parts'[i].key /\ channel'[n].response = back'[i]
  BY DEF Delivered
<1>2. \A k \in Key : results'[k] # None =>
         \E i \in Gone' : parts'[i].key = k /\ results'[k] = back'[i]
  BY DEF Delivered
<1>3. \A i \in Gone' : \/ results'[parts'[i].key] # None
                      \/ \E n \in 1..Len(channel') : channel'[n].key = parts'[i].key
  BY DEF Delivered
<1>4. taken' + Len(channel') = Cardinality(Gone')
  BY DEF Delivered
<1>5. phase' # "collect" => taken' = Len(parts')
  BY DEF Delivered
<1>. QED
  BY <1>1, <1>2, <1>3, <1>4, <1>5, Zenon DEF Delivered

LEMMA DeliveredForward ==
    ASSUME Base, Delivered, NEW i \in Indices, Forward(i)
    PROVE  Delivered'
<1>1. CASE ~Put(i)
  <2>1. /\ UNCHANGED Caller /\ go[i] \in {"ready", "read", "wait"}
        /\ \E to \in {"ready", "read", "wait", "over"} : go' = [go EXCEPT ![i] = to]
        /\ \E r : back' = [back EXCEPT ![i] = r]
    <3>1. CASE Begin(i) \/ ReadEnd(i)
      BY <3>1 DEF Begin, ReadEnd, Move, Base
    <3>2. CASE ReadChunk(i)
      BY <3>2 DEF ReadChunk, Base
    <3>3. CASE Unknown(i) \/ ReadFails(i) \/ Return(i)
      BY <3>3 DEF Unknown, ReadFails, Return, Move, Caller
    <3>. QED
      BY <1>1, <3>1, <3>2, <3>3 DEF Forward
  <2>2. /\ \A j \in Indices : go'[j] = "gone" <=> go[j] = "gone"
        /\ \A j \in Indices : go[j] = "gone" => back'[j] = back[j]
    BY <2>1 DEF Base
  <2>3. UNCHANGED <<parts, phase, channel, taken, results>>
    BY <2>1 DEF Caller
  <2>4. Gone' = Gone
    BY <2>2, <2>3 DEF Gone, Indices
  <2>5. \A j \in Gone : back'[j] = back[j]
    BY <2>2 DEF Gone
  <2>. QED
    BY <2>3, <2>4, <2>5, DeliveredKept
<1>2. CASE Put(i)
  <2> DEFINE e == [key |-> parts[i].key, response |-> back[i]]
  <2>1. /\ go[i] = "over" /\ go' = [go EXCEPT ![i] = "gone"]
        /\ channel' = Append(channel, e)
        /\ UNCHANGED <<parts, phase, taken, results, back>>
    BY <1>2 DEF Put, Move
  <2>2. e \in [key : Key, response : Response] /\ e.key = parts[i].key /\ e.response = back[i]
    BY <2>1, PartsFacts DEF Base
  <2>3. channel \in Seq([key : Key, response : Response]) /\ Len(channel) \in Nat
        /\ taken \in Nat
    BY PartsFacts DEF Base
  <2>4. Gone' = Gone \cup {i} /\ i \notin Gone
    <3>1. \A j \in Indices : go'[j] = "gone" <=> go[j] = "gone" \/ j = i
      BY <2>1 DEF Base
    <3>2. Indices' = Indices
      BY <2>1 DEF Indices
    <3>. QED
      BY <2>1, <3>1, <3>2 DEF Gone
  <2> HIDE DEF e
  <2>5. /\ Len(channel') = Len(channel) + 1
        /\ \A n \in 1..Len(channel) : channel'[n] = channel[n]
        /\ channel'[Len(channel) + 1] = e
    BY <2>1, <2>2, <2>3, AppendProperties
  <2>6. Cardinality(Gone') = Cardinality(Gone) + 1
    BY <2>4, GoneFinite, FS_AddElement DEF Base
  <2>7. \A n \in 1..Len(channel') :
           \E j \in Gone' : channel'[n].key = parts[j].key /\ channel'[n].response = back[j]
    <3>1. TAKE n \in 1..Len(channel')
    <3>2. CASE n = Len(channel) + 1
      BY <2>2, <2>4, <2>5, <3>2
    <3>3. CASE n # Len(channel) + 1
      BY <2>3, <2>4, <2>5, <3>3 DEF Delivered
    <3>. QED
      BY <3>2, <3>3
  <2>8. \A k \in Key : results[k] # None =>
           \E j \in Gone' : parts[j].key = k /\ results[k] = back[j]
    BY <2>4 DEF Delivered
  <2>9. \A j \in Gone' : \/ results[parts[j].key] # None
                        \/ \E n \in 1..Len(channel') : channel'[n].key = parts[j].key
    <3>1. TAKE j \in Gone'
    <3>2. CASE j = i
      <4>1. Len(channel) + 1 \in 1..Len(channel')
        BY <2>3, <2>5
      <4>. QED
        BY <2>2, <2>5, <3>2, <4>1
    <3>3. CASE j # i
      <4>1. j \in Gone
        BY <2>4, <3>3
      <4>2. ASSUME NEW n \in 1..Len(channel)
            PROVE  n \in 1..Len(channel') /\ channel'[n] = channel[n]
        BY <2>3, <2>5
      <4>. QED
        BY <4>1, <4>2 DEF Delivered
    <3>. QED
      BY <3>2, <3>3
  <2>10. taken + Len(channel') = Cardinality(Gone')
    BY <2>3, <2>5, <2>6, GoneFinite DEF Delivered, Base
  <2>11. phase # "collect" => taken = Len(parts)
    BY DEF Delivered
  <2>. QED
    BY <2>1, <2>7, <2>8, <2>9, <2>10, <2>11, Zenon DEF Delivered
<1>. QED
  BY <1>1, <1>2

LEMMA DeliveredCall ==
    ASSUME Base, Delivered, Call
    PROVE  Delivered'
<1>1. CASE Take
  <2> DEFINE e == Head(channel)
  <2>1. /\ channel \in Seq([key : Key, response : Response]) /\ channel # <<>>
        /\ channel' = Tail(channel) /\ taken' = taken + 1 /\ phase = "collect"
        /\ results' = [results EXCEPT ![e.key] = e.response]
        /\ UNCHANGED <<parts, phase, go, back>>
    BY <1>1 DEF Take, Goroutines, Base
  <2>2. /\ e \in [key : Key, response : Response]
        /\ Len(channel') = Len(channel) - 1 /\ Len(channel) \in Nat \ {0}
        /\ \A n \in 1..Len(channel') : channel'[n] = channel[n + 1]
        /\ e = channel[1]
    <3>1. Len(channel) \in Nat \ {0} /\ e = channel[1]
      BY <2>1
    <3>. QED
      BY <2>1, <3>1, HeadTailProperties
  <2>3. e.key \in Key /\ e.response \in Response /\ e.response # None
    BY <2>2, NoneAssumption
  <2> HIDE DEF e
  <2>4. \A k \in Key : results'[k] = IF k = e.key THEN e.response ELSE results[k]
    BY <2>1, <2>3 DEF Base
  <2>5. Gone' = Gone
    BY <2>1 DEF Gone, Indices
  <2>6. \A n \in 1..Len(channel') :
           \E j \in Gone : channel'[n].key = parts[j].key /\ channel'[n].response = back[j]
    <3>1. ASSUME NEW n \in 1..Len(channel')
          PROVE  \E j \in Gone : /\ channel'[n].key = parts[j].key
                               /\ channel'[n].response = back[j]
      <4>1. n + 1 \in 1..Len(channel) /\ channel'[n] = channel[n + 1]
        BY <2>2
      <4>2. \E j \in Gone : /\ channel[n + 1].key = parts[j].key
                         /\ channel[n + 1].response = back[j]
        BY <4>1, Zenon DEF Delivered
      <4>. QED
        BY <4>1, <4>2
    <3>. QED
      BY <3>1
  <2>7. \A k \in Key : results'[k] # None =>
           \E j \in Gone : parts[j].key = k /\ results'[k] = back[j]
    <3>1. \E j \in Gone : parts[j].key = e.key /\ e.response = back[j]
      BY <2>2 DEF Delivered
    <3>. QED
      BY <2>4, <3>1 DEF Delivered
  <2>8. \A j \in Gone : \/ results'[parts[j].key] # None
                       \/ \E n \in 1..Len(channel') : channel'[n].key = parts[j].key
    <3>1. TAKE j \in Gone
    <3>2. parts[j].key \in Key
      BY PartsFacts DEF Base, Gone
    <3>3. CASE results[parts[j].key] # None \/ parts[j].key = e.key
      BY <2>3, <2>4, <3>2, <3>3
    <3>4. ASSUME NEW n \in 1..Len(channel), channel[n].key = parts[j].key,
                 parts[j].key # e.key
          PROVE  \E m \in 1..Len(channel') : channel'[m].key = parts[j].key
      <4>1. n # 1
        BY <2>2, <3>4
      <4>2. n - 1 \in 1..Len(channel') /\ channel'[n - 1] = channel[n]
        BY <2>2, <4>1
      <4>. QED
        BY <3>4, <4>2
    <3>. QED
      BY <3>3, <3>4 DEF Delivered
  <2>9. taken' + Len(channel') = Cardinality(Gone)
    BY <2>1, <2>2, PartsFacts DEF Delivered, Base
  <2>10. parts' = parts /\ back' = back /\ phase' = "collect"
    BY <2>1
  <2>. QED
    BY <2>5, <2>6, <2>7, <2>8, <2>9, <2>10, Zenon DEF Delivered
<1>2. CASE ~Take
  <2>1. /\ UNCHANGED <<parts, channel, taken, results, Goroutines>>
        /\ phase' = phase \/ taken = Len(parts)
    <3>1. CASE Collected
      BY <3>1, PartsFacts DEF Collected, Expected, Base
    <3>2. CASE phase # "collect"
      BY <1>2, <3>2 DEF Call, Collected, AnswerPartial, AnswerPlain, BeginMerge, MergeKey,
                        BeginList, ListPart, Delivered
    <3>. QED
      BY <1>2, <3>1, <3>2 DEF Call, AnswerPartial, AnswerPlain, BeginMerge, MergeKey,
                              BeginList, ListPart
  <2>2. Gone' = Gone /\ back' = back
    BY <2>1 DEF Goroutines, Gone, Indices
  <2>. QED
    BY <2>1, <2>2, DeliveredKept
<1>. QED
  BY <1>1, <1>2

LEMMA DeliveredAlways == Spec => []Delivered
<1>1. Init => Delivered
  <2> SUFFICES ASSUME Init PROVE Delivered
    OBVIOUS
  <2>1. Gone = {} /\ channel = <<>> /\ taken = 0 /\ phase = "collect"
    BY DEF Init, Gone
  <2>2. \A k \in Key : results[k] = None
    BY DEF Init
  <2>3. Cardinality(Gone) = 0
    BY <2>1, FS_EmptySet
  <2>4. Len(channel) = 0
    BY <2>1
  <2>. QED
    BY <2>1, <2>2, <2>3, <2>4 DEF Delivered
<1>2. Base /\ Delivered /\ [Next]_vars => Delivered'
  <2>1. ASSUME Delivered, UNCHANGED vars PROVE Delivered'
    <3>1. Gone' = Gone
      BY <2>1 DEF vars, Gone, Indices
    <3>. QED
      BY <2>1, <3>1, DeliveredKept DEF vars
  <2>. QED
    BY <2>1, DeliveredForward, DeliveredCall DEF Next
<1>. QED
  BY <1>1, <1>2, BaseAlways, PTL DEF Spec

\* What the caller knows once it has collected.
LEMMA Collection ==
    ASSUME Base, Delivered, taken = Len(parts)
    PROVE  /\ Gone = Indices
           /\ \A i \in Indices : go[i] = "gone" /\ back[i] \in Response /\ back[i].part = i
           /\ \A k \in Key : results[k] # None =>
                \E i \in Indices : parts[i].key = k /\ results[k] = back[i]
           /\ \A i \in Indices : results[parts[i].key] \in Response
<1>1. Len(channel) \in Nat /\ Len(parts) \in Nat
  BY PartsFacts DEF Base
<1>2. Len(channel) = 0 /\ Gone = Indices
  BY <1>1, GoneFinite DEF Delivered, Base
<1>3. \A i \in Indices : go[i] = "gone"
  BY <1>2 DEF Gone
<1>4. \A i \in Indices : results[parts[i].key] # None /\ parts[i].key \in Key
  BY <1>1, <1>2, PartsFacts DEF Delivered, Base
<1>. QED
  BY <1>2, <1>3, <1>4 DEF Delivered, Base

-----------------------------------------------------------------------------
(* The abstract specification is implemented *)

Result == IF phase = "collect" THEN None ELSE results

KeyOf == [i \in Indices |-> parts[i].key]

LEMMA GathersForward ==
    ASSUME Base, Base', NEW i \in Indices, Forward(i)
    PROVE  Promise!Next \/ UNCHANGED Promise!vars
<1>1. UNCHANGED <<parts, phase, results>>
  BY DEF Forward, Begin, Unknown, ReadChunk, ReadEnd, ReadFails, Return, Put, Caller
<1>2. UNCHANGED <<KeyOf, Result>>
  BY <1>1 DEF KeyOf, Result, Indices
<1>3. CASE back' = back
  BY <1>2, <1>3 DEF Promise!vars, KeyOf, Result
<1>4. ASSUME back[i] = None, NEW r \in Response, back' = [back EXCEPT ![i] = r]
      PROVE  Promise!Finish(i)
  <2>1. back'[i] = r
    BY <1>4 DEF Base
  <2>. QED
    BY <1>2, <1>4, <2>1 DEF Promise!Finish, KeyOf, Result
<1>5. DOMAIN KeyOf = Indices
  BY DEF KeyOf
<1>6. CASE Unknown(i) \/ ReadFails(i) \/ Return(i)
  <2>1. PICK r : back' = [back EXCEPT ![i] = r]
    BY <1>6 DEF Unknown, ReadFails, Return
  <2>2. go[i] \in {"ready", "read", "wait"} /\ go' = [go EXCEPT ![i] = "over"]
    BY <1>6 DEF Unknown, ReadFails, Return, Move
  <2>3. i \in Indices' /\ go'[i] = "over" /\ back'[i] = r
    BY <1>1, <2>1, <2>2 DEF Base, Indices
  <2>4. r \in Response /\ back[i] = None
    BY <2>2, <2>3 DEF Base
  <2>. QED
    BY <1>4, <1>5, <2>1, <2>4 DEF Promise!Next, KeyOf
<1>. QED
  BY <1>3, <1>6 DEF Forward, Begin, ReadChunk, ReadEnd, Put

LEMMA GathersCall ==
    ASSUME Base, Delivered, Call
    PROVE  Promise!Next \/ UNCHANGED Promise!vars
<1>1. /\ UNCHANGED <<parts, back>> /\ UNCHANGED KeyOf
  BY DEF Call, Take, Collected, AnswerPartial, AnswerPlain, BeginMerge, MergeKey, BeginList,
         ListPart, Goroutines, KeyOf, Indices
<1>2. CASE Collected
  <2>1. /\ taken = Len(parts) /\ phase = "collect" /\ Result = None /\ Result' = results
    BY <1>2, PartsFacts DEF Collected, Expected, Base, Result
  <2>2. /\ \A i \in Indices : back[i] \in Response
        /\ \A k \in Key : results[k] # None =>
              \E i \in Indices : parts[i].key = k /\ results[k] = back[i]
        /\ \A i \in Indices : results[parts[i].key] \in Response
    BY <2>1, Collection
  <2>3. results \in [Key -> Response \cup {None}]
    BY DEF Base
  <2>4. ASSUME NEW k \in Key
        PROVE  IF {i \in Indices : KeyOf[i] = k} = {} THEN results[k] = None
               ELSE \E i \in {j \in Indices : KeyOf[j] = k} : results[k] = back[i]
    <3>1. \A i \in Indices : KeyOf[i] = parts[i].key
      BY DEF KeyOf
    <3>. QED
      BY <2>2, <3>1, NoneAssumption
  <2>5. DOMAIN KeyOf = Indices
    BY DEF KeyOf
  <2>6. Promise!Return
    BY <1>1, <2>1, <2>2, <2>3, <2>4, <2>5, NoneAssumption
       DEF Promise!Return, Promise!PartsOf, KeyOf, Result
  <2>. QED
    BY <2>6 DEF Promise!Next
<1>3. CASE ~Collected
  <2>1. UNCHANGED Result
    BY <1>3 DEF Call, Take, AnswerPartial, AnswerPlain, BeginMerge, MergeKey, BeginList,
                ListPart, Answer, Result
  <2>. QED
    BY <1>1, <2>1 DEF Promise!vars, KeyOf, Result
<1>. QED
  BY <1>2, <1>3

\* In whatever order the goroutines end, the caller goes on only when all of
\* them have, and finds under each key what came of a part with that key.
THEOREM Gathers == Spec => GathersAll
<1>1. Init => Promise!Init
  <2> SUFFICES ASSUME Init PROVE Promise!Init
    OBVIOUS
  <2>1. Base
    BY BaseInit
  <2>2. KeyOf \in [DOMAIN KeyOf -> Key] /\ DOMAIN KeyOf = Indices /\ Result = None
    BY <2>1, PartsFacts DEF Base, KeyOf, Init, Result
  <2>3. back = [i \in Indices |-> None]
    BY DEF Init
  <2>. QED
    BY <2>2, <2>3 DEF Promise!Init, KeyOf, Result
<1>2. Base /\ Base' /\ Delivered /\ [Next]_vars => [Promise!Next]_Promise!vars
  <2>1. UNCHANGED vars => UNCHANGED Promise!vars
    BY DEF vars, Promise!vars, Indices
  <2>. QED
    BY <2>1, GathersForward, GathersCall DEF Next
<1>. QED
  BY <1>1, <1>2, BaseAlways, DeliveredAlways, PTL DEF Spec, GathersAll, Promise!Spec

-----------------------------------------------------------------------------
(* Bodies *)

\* Every chunk that has been read of a request has been read by one part of it.
Shared ==
    /\ \A i \in Indices :
         /\ \A j \in Indices : SameSource(i, j) /\ i # j => got[i] \cap got[j] = {}
         /\ \A x \in got[i] : x < next[parts[i].source]
         /\ go[i] = "wait" => next[parts[i].source] > Chunks
    /\ \A q \in Source : \A x \in 1..Chunks :
         x < next[q] => \E i \in Indices : parts[i].source = q /\ x \in got[i]

LEMMA SharedInit ==
    ASSUME Init
    PROVE  Shared
<1>1. \A i \in Indices : got[i] = {} /\ go[i] = "ready"
  BY DEF Init
<1>2. \A q \in Source : next[q] = 1
  BY DEF Init
<1>. QED
  BY <1>1, <1>2 DEF Shared

\* Steps that read nothing.
LEMMA SharedKept ==
    ASSUME Shared, UNCHANGED <<parts, got, next>>,
           \A i \in Indices : go'[i] = "wait" => go[i] = "wait" \/ next[parts[i].source] > Chunks
    PROVE  Shared'
BY DEF Shared, SameSource, Indices

LEMMA SharedForward ==
    ASSUME Base, Shared, NEW i \in Indices, Forward(i)
    PROVE  Shared'
<1>1. CASE ~ReadChunk(i)
  <2>1. UNCHANGED <<parts, got, next>>
    BY <1>1 DEF Forward, Begin, Unknown, ReadEnd, ReadFails, Return, Put, Caller
  <2>2. ASSUME NEW j \in Indices, go'[j] = "wait"
        PROVE  go[j] = "wait" \/ next[parts[j].source] > Chunks
    BY <1>1, <2>2 DEF Forward, Begin, Unknown, ReadEnd, ReadFails, Return, Put, Move, Base
  <2>. QED
    BY <2>1, <2>2, SharedKept
<1>2. CASE ReadChunk(i)
  <2> DEFINE q == parts[i].source
             n == next[q]
  <2>1. /\ q \in Source /\ n \in Nat \ {0} /\ n <= Chunks /\ Chunks \in Nat
        /\ got' = [got EXCEPT ![i] = @ \cup {n}] /\ next' = [next EXCEPT ![q] = n + 1]
        /\ parts' = parts /\ go' = go
    BY <1>2, PartsFacts, PartsAssumption DEF ReadChunk, Base, Caller
  <2>2. /\ \A j \in Indices : got'[j] = IF j = i THEN got[j] \cup {n} ELSE got[j]
        /\ \A p \in Source : next'[p] = IF p = q THEN n + 1 ELSE next[p]
        /\ \A j \in Indices : parts[j].source \in Source
        /\ \A j \in Indices : got[j] \subseteq 1..Chunks
        /\ \A p \in Source : next[p] \in Nat
    <3>1. got \in [Indices -> SUBSET (1..Chunks)] /\ next \in [Source -> 1..Chunks + 1]
      BY DEF Base
    <3>2. \A j \in Indices : parts[j].source \in Source
      BY PartsFacts DEF Base
    <3> HIDE DEF q, n
    <3>3. \A j \in Indices : got'[j] = IF j = i THEN got[j] \cup {n} ELSE got[j]
      BY <2>1, <3>1
    <3>4. \A p \in Source : next'[p] = IF p = q THEN n + 1 ELSE next[p]
      BY <2>1, <3>1
    <3>5. \A j \in Indices : got[j] \subseteq 1..Chunks
      BY <3>1
    <3>6. \A p \in Source : next[p] \in Nat
      BY <2>1, <3>1
    <3>. QED
      BY <3>2, <3>3, <3>4, <3>5, <3>6, Zenon
  <2> HIDE DEF q, n
  <2>3. ASSUME NEW j \in Indices
        PROVE  /\ \A x \in got'[j] : x < next'[parts[j].source]
               /\ go'[j] = "wait" => next'[parts[j].source] > Chunks
    BY <2>1, <2>2 DEF Shared, q, n
  <2>4. ASSUME NEW j \in Indices, NEW k \in Indices, SameSource(j, k), j # k
        PROVE  got'[j] \cap got'[k] = {}
    <3>1. got[j] \cap got[k] = {}
      BY <2>4 DEF Shared
    <3>2. ASSUME NEW m \in Indices, parts[m].source = q PROVE n \notin got[m]
      BY <2>1, <2>2, <3>2 DEF Shared, n
    <3>. QED
      BY <2>2, <2>4, <3>1, <3>2 DEF SameSource, q
  <2>5. ASSUME NEW p \in Source, NEW x \in 1..Chunks, x < next'[p]
        PROVE  \E j \in Indices : parts[j].source = p /\ x \in got'[j]
    <3>1. CASE x < next[p]
      BY <2>2, <3>1 DEF Shared
    <3>2. CASE ~(x < next[p])
      <4>1. p = q /\ x = n
        BY <2>1, <2>2, <2>5, <3>2 DEF n
      <4>. QED
        BY <2>2, <4>1 DEF q
    <3>. QED
      BY <3>1, <3>2
  <2>6. Indices' = Indices /\ parts' = parts
    BY <2>1 DEF Indices
  <2>. QED
    BY <2>3, <2>4, <2>5, <2>6 DEF Shared, SameSource
<1>. QED
  BY <1>1, <1>2

LEMMA SharedAlways == Spec => []Shared
<1>1. Base /\ Shared /\ [Next]_vars => Shared'
  <2>1. UNCHANGED vars \/ Call => UNCHANGED <<parts, got, next, go>>
    BY DEF vars, Call, Take, Collected, AnswerPartial, AnswerPlain, BeginMerge, MergeKey,
           BeginList, ListPart, Goroutines
  <2>. QED
    BY <2>1, SharedForward, SharedKept DEF Next
<1>. QED
  BY <1>1, SharedInit, BaseAlways, PTL DEF Spec

\* What parts forward of a body that they share is disjoint, and all of it has
\* been read when one of them is done with reading.
THEOREM SharedBodies == Spec => []BodiesApart
<1>1. Base /\ Shared => BodiesApart
  <2> SUFFICES ASSUME Base, Shared, NEW i \in Indices, go[i] = "wait"
               PROVE  UNION {got[j] : j \in {k \in Indices : SameSource(i, k)}} = 1..Chunks
    BY DEF BodiesApart, Shared
  <2>1. parts[i].source \in Source /\ Chunks \in Nat /\ next[parts[i].source] \in Nat
    BY PartsFacts, PartsAssumption DEF Base
  <2>2. \A x \in 1..Chunks : \E j \in Indices : parts[j].source = parts[i].source /\ x \in got[j]
    BY <2>1 DEF Shared
  <2>3. \A j \in Indices : got[j] \subseteq 1..Chunks
    BY DEF Base
  <2>. QED
    BY <2>2, <2>3 DEF SameSource
<1>. QED
  BY <1>1, BaseAlways, SharedAlways, PTL

-----------------------------------------------------------------------------
(* Answers *)

\* What is under the name x of a merged answer once the keys of seen are merged.
NameFrom(seen, x) ==
    LET from == {k \in seen : Contributes(k, x)} IN
    IF from = {} THEN reply.names[x] = 0
                 ELSE \E k \in from : reply.names[x] = results[k].part

\* A list once the parts other than those of todo have been visited.
ListSoFar ==
    /\ \A n \in 1..Len(reply.list) :
         /\ reply.list[n] \in Indices \ todo
         /\ \A j \in todo : reply.list[n] < j
         /\ \A m \in 1..Len(reply.list) : m < n => reply.list[m] < reply.list[n]
    /\ \A i \in Indices \ todo : back[i].status # "error" =>
         \E n \in 1..Len(reply.list) : reply.list[n] = i

\* The kind of the reply, and how far the last loop is.
Progress ==
    /\ phase \in {"collect", "answer"} => reply = None
    /\ phase \in {"merge", "list", "done"} => reply \in Reply
    /\ phase = "merge" => kind = "merge" /\ reply.kind = "complete" /\ todo \subseteq Keys
    /\ phase = "list" => kind = "list" /\ todo \subseteq Indices
    /\ phase = "done" /\ (kind = "list" \/ (kind = "merge" /\ reply.kind = "complete")) =>
         todo = {}
    /\ phase \in {"merge", "list", "done"} /\ kind # "list" =>
         IF reply.kind = "complete"
         THEN \A k \in Keys : results[k].status = "good"
         ELSE \E k \in Keys : results[k].status # "good"

\* The two loops.
Merging ==
    phase \in {"merge", "done"} /\ kind = "merge" /\ reply.kind = "complete" =>
        \A x \in Field : NameFrom(Keys \ todo, x)

Listing ==
    phase \in {"list", "done"} /\ kind = "list" /\ (\A i \in Indices : Alone(i, SameKey)) =>
        ListSoFar

\* Until the caller has collected there is no reply; after that the goroutines
\* are over.
LEMMA NotYet ==
    ASSUME Base, Delivered, Progress,
           UNCHANGED vars \/ Take \/ (\E i \in Indices : Forward(i))
    PROVE  Progress' /\ (Merging => Merging') /\ (Listing => Listing')
<1>1. UNCHANGED <<parts, kind, phase, todo, reply>>
  BY DEF vars, Take, Forward, Begin, Unknown, ReadChunk, ReadEnd, ReadFails, Return, Put,
         Caller
<1>2. CASE phase = "collect"
  BY <1>1, <1>2 DEF Progress, Merging, Listing
<1>3. CASE phase # "collect"
  <2>1. taken = Len(parts)
    BY <1>3 DEF Delivered
  <2>2. \A i \in Indices : go[i] = "gone"
    BY <2>1, Collection
  <2>3. \A i \in Indices : ~Forward(i)
    BY <2>2 DEF Forward, Begin, Unknown, ReadChunk, ReadEnd, ReadFails, Return, Put, Move
  <2>4. UNCHANGED vars
    BY <1>3, <2>3 DEF Take
  <2>. QED
    BY <2>4 DEF vars, Progress, Merging, Listing, Keys, Indices, NameFrom, Contributes,
                Alone, SameKey, ListSoFar
<1>. QED
  BY <1>2, <1>3

LEMMA NamesType ==
    ASSUME Base, Delivered, phase = "answer"
    PROVE  Names \in [Field -> Nat]
<1>1. taken = Len(parts)
  BY DEF Delivered
<1>2. \A k \in Keys : results[k] \in Response
  BY <1>1, Collection DEF Keys
<1>3. \A k \in Keys : results[k].part \in Nat
  BY <1>2 DEF Response
<1>. QED
  BY <1>3 DEF Names

\* Every other step of the caller finds the results complete.
LEMMA CallerKnows ==
    ASSUME Base, Delivered, phase # "collect"
    PROVE  /\ \A k \in Keys : results[k] \in Response /\ results[k].part \in Nat
           /\ \A i \in Indices : results[parts[i].key] \in Response
           /\ \A k \in Keys : \E i \in Indices : parts[i].key = k /\ results[k] = back[i]
           /\ \A i \in Indices : back[i] \in Response /\ back[i].part = i
           /\ Keys \subseteq Key
<1>1. taken = Len(parts)
  BY DEF Delivered
<1>2. \A i \in Indices : results[parts[i].key] \in Response /\ parts[i].key \in Key
  BY <1>1, Collection, PartsFacts DEF Base
<1>3. \A k \in Keys : results[k] \in Response
  BY <1>2 DEF Keys
<1>4. \A k \in Keys : results[k].part \in Nat
  BY <1>3 DEF Response
<1>5. \A k \in Keys : results[k] # None
  BY <1>3, NoneAssumption
<1>6. Keys \subseteq Key
  BY <1>2 DEF Keys
<1>. QED
  BY <1>1, <1>2, <1>3, <1>4, <1>5, <1>6, Collection

LEMMA MergedType ==
    ASSUME NEW names \in [Field -> Nat], NEW k, NEW r \in Response
    PROVE  Merged(names, k, r) \in [Field -> Nat]
BY DEF Merged, Response

LEMMA ProgressCall ==
    ASSUME Base, Delivered, Progress, Call, ~Take
    PROVE  Progress'
<1>1. UNCHANGED <<parts, kind, results>> /\ Keys' = Keys /\ Indices' = Indices
  BY DEF Call, Collected, AnswerPartial, AnswerPlain, BeginMerge, MergeKey, BeginList,
         ListPart, Keys, Indices
<1>2. CASE Collected
  BY <1>1, <1>2 DEF Collected, Progress
<1>3. CASE AnswerPartial
  <2>1. reply' = [kind |-> "partial", names |-> Names, list |-> <<>>]
    BY <1>3 DEF AnswerPartial, Answer
  <2>2. reply' \in Reply /\ reply'.kind = "partial"
    BY <1>3, <2>1, NamesType DEF AnswerPartial, Reply
  <2>. QED
    BY <1>1, <1>3, <2>2 DEF AnswerPartial, Answer, Failed, Progress
<1>4. CASE AnswerPlain
  <2>1. reply' = [kind |-> "complete", names |-> Names, list |-> <<>>]
    BY <1>4 DEF AnswerPlain, Answer
  <2>2. reply' \in Reply /\ reply'.kind = "complete"
    BY <1>4, <2>1, NamesType DEF AnswerPlain, Reply
  <2>. QED
    BY <1>1, <1>4, <2>2 DEF AnswerPlain, Answer, Failed, Progress
<1>5. ASSUME reply' = [kind |-> "complete", names |-> NoNames, list |-> <<>>]
      PROVE  reply' \in Reply /\ reply'.kind = "complete" /\ reply'.list = <<>>
  BY <1>5 DEF Reply, NoNames
<1>6. CASE BeginMerge
  BY <1>1, <1>5, <1>6 DEF BeginMerge, Failed, Progress
<1>7. CASE BeginList
  BY <1>1, <1>5, <1>7 DEF BeginList, Progress
<1>8. CASE MergeKey
  <2>1. /\ phase = "merge" /\ reply \in Reply /\ kind = "merge" /\ reply.kind = "complete"
        /\ todo \subseteq Keys
    BY <1>8 DEF MergeKey, Progress
  <2>2. PICK k \in todo : /\ todo' = todo \ {k}
                          /\ reply' = [reply EXCEPT !.names = Merged(@, k, results[k])]
    BY <1>8 DEF MergeKey
  <2>3. results[k] \in Response /\ reply.names \in [Field -> Nat]
    BY <2>1, CallerKnows DEF Reply
  <2>4. Merged(reply.names, k, results[k]) \in [Field -> Nat]
    BY <2>3, MergedType
  <2>5. reply' \in Reply /\ reply'.kind = "complete"
    BY <2>1, <2>2, <2>4 DEF Reply
  <2>. QED
    BY <1>1, <1>8, <2>1, <2>2, <2>5 DEF MergeKey, Progress
<1>9. CASE ListPart
  <2>1. /\ phase = "list" /\ reply \in Reply /\ kind = "list" /\ todo \subseteq Indices
    BY <1>9 DEF ListPart, Progress
  <2>2. PICK i \in Visited :
           /\ todo' = todo \ {i}
           /\ reply' = IF results[parts[i].key].status = "error" THEN reply
                       ELSE [reply EXCEPT !.list = Append(@, results[parts[i].key].part)]
    BY <1>9 DEF ListPart
  <2>3. i \in Indices /\ results[parts[i].key] \in Response /\ reply.list \in Seq(Nat)
    BY <2>1, CallerKnows DEF Reply, Visited
  <2>4. Append(reply.list, results[parts[i].key].part) \in Seq(Nat)
    <3>1. results[parts[i].key].part \in Nat
      BY <2>3 DEF Response
    <3>. QED
      BY <2>3, <3>1
  <2>5. reply' \in Reply
    BY <2>1, <2>2, <2>4 DEF Reply
  <2>. QED
    BY <1>1, <1>9, <2>1, <2>2, <2>5 DEF ListPart, Progress
<1>. QED
  BY <1>2, <1>3, <1>4, <1>6, <1>7, <1>8, <1>9 DEF Call

LEMMA MergingCall ==
    ASSUME Base, Delivered, Progress, Merging, Call, ~Take
    PROVE  Merging'
<1>1. UNCHANGED <<parts, kind, results>> /\ Keys' = Keys /\ Indices' = Indices
  BY DEF Call, Collected, AnswerPartial, AnswerPlain, BeginMerge, MergeKey, BeginList,
         ListPart, Keys, Indices
<1>2. CASE Collected \/ AnswerPartial
  BY <1>2 DEF Collected, AnswerPartial, Answer, Merging
<1>3. CASE AnswerPlain \/ BeginList \/ ListPart
  <2>1. kind # "merge"
    BY <1>3 DEF AnswerPlain, BeginList, ListPart, Progress
  <2>. QED
    BY <1>1, <2>1 DEF Merging
<1>4. CASE BeginMerge
  <2>1. reply'.names = NoNames /\ todo' = Keys
    BY <1>4 DEF BeginMerge
  <2>2. ASSUME NEW x \in Field PROVE reply'.names[x] = 0
    BY <2>1 DEF NoNames
  <2>. QED
    BY <1>1, <2>1, <2>2 DEF Merging, NameFrom
<1>5. CASE MergeKey
  <2>1. /\ phase = "merge" /\ reply \in Reply /\ kind = "merge" /\ reply.kind = "complete"
        /\ todo \subseteq Keys
    BY <1>5 DEF MergeKey, Progress
  <2>2. PICK k \in todo : /\ todo' = todo \ {k}
                          /\ reply' = [reply EXCEPT !.names = Merged(@, k, results[k])]
    BY <1>5 DEF MergeKey
  <2>3. ASSUME NEW x \in Field
        PROVE  reply'.names[x] = IF Contributes(k, x) THEN results[k].part ELSE reply.names[x]
    BY <2>1, <2>2, <2>3 DEF Reply, Merged, Contributes
  <2>4. \A j, x : Contributes(j, x)' <=> Contributes(j, x)
    BY <1>1 DEF Contributes
  <2>5. Keys \ todo' = (Keys \ todo) \cup {k} /\ k \in Keys
    BY <2>1, <2>2
  <2>6. ASSUME NEW x \in Field PROVE NameFrom(Keys \ todo, x)'
    <3>1. NameFrom(Keys \ todo, x)
      BY <2>1, <2>6 DEF Merging
    <3>2. CASE Contributes(k, x)
      BY <1>1, <2>3, <2>4, <2>5, <3>2 DEF NameFrom
    <3>3. CASE ~Contributes(k, x)
      <4>1. {j \in Keys \ todo' : Contributes(j, x)} = {j \in Keys \ todo : Contributes(j, x)}
        BY <2>5, <3>3
      <4>. QED
        BY <1>1, <2>3, <2>4, <3>1, <3>3, <4>1 DEF NameFrom
    <3>. QED
      BY <3>2, <3>3
  <2>. QED
    BY <2>6 DEF Merging
<1>. QED
  BY <1>2, <1>3, <1>4, <1>5 DEF Call

LEMMA ListingCall ==
    ASSUME Base, Delivered, Progress, Listing, Call, ~Take
    PROVE  Listing'
<1>1. UNCHANGED <<parts, kind, results, back>> /\ Indices' = Indices
  BY DEF Call, Collected, AnswerPartial, AnswerPlain, BeginMerge, MergeKey, BeginList,
         ListPart, Goroutines, Indices
<1>2. CASE Collected
  BY <1>2 DEF Collected, Listing
<1>3. CASE AnswerPartial \/ AnswerPlain \/ BeginMerge \/ MergeKey
  <2>1. kind # "list"
    BY <1>3 DEF AnswerPartial, AnswerPlain, BeginMerge, MergeKey, Progress
  <2>. QED
    BY <1>1, <2>1 DEF Listing
<1>4. CASE BeginList
  <2>1. reply'.list = <<>> /\ todo' = Indices
    BY <1>4 DEF BeginList
  <2>2. Len(reply'.list) = 0 /\ Indices' \ todo' = {}
    BY <1>1, <2>1
  <2>. QED
    BY <2>2 DEF Listing, ListSoFar
<1>5. CASE ListPart
  <2> SUFFICES ASSUME \A i \in Indices : Alone(i, SameKey)
               PROVE  ListSoFar'
    BY <1>1 DEF Listing, Alone, SameKey
  <2>1. /\ phase = "list" /\ reply \in Reply /\ kind = "list" /\ todo \subseteq Indices
        /\ ListSoFar
    BY <1>5 DEF ListPart, Progress, Listing
  <2>2. PICK i \in Visited :
           /\ todo' = todo \ {i}
           /\ reply' = IF results[parts[i].key].status = "error" THEN reply
                       ELSE [reply EXCEPT !.list = Append(@, results[parts[i].key].part)]
    BY <1>5 DEF ListPart
  <2>3. /\ i \in todo /\ i \in Indices /\ \A j \in todo : i <= j
        /\ reply.list \in Seq(Nat) /\ Len(reply.list) \in Nat
    BY <2>1, <2>2 DEF Visited, Reply
  <2>4. results[parts[i].key] = back[i] /\ back[i].part = i
    <3>1. parts[i].key \in Keys
      BY <2>3 DEF Keys
    <3>2. PICK j \in Indices : parts[j].key = parts[i].key /\ results[parts[i].key] = back[j]
      BY <2>1, <3>1, CallerKnows
    <3>3. j = i
      BY <2>3, <3>2 DEF Alone, SameKey
    <3>. QED
      BY <2>1, <2>3, <3>2, <3>3, CallerKnows
  <2>5. Indices \subseteq Nat
    BY PartsFacts DEF Base
  <2> DEFINE l == reply.list
             m == reply'.list
  <2>6. ASSUME back[i].status = "error"
        PROVE  ListSoFar'
    <3>1. reply' = reply
      BY <2>2, <2>4, <2>6
    <3>2. Indices \ todo' = (Indices \ todo) \cup {i}
      BY <2>2, <2>3
    <3>3. \A n \in 1..Len(l) :
            /\ l[n] \in Indices \ todo'
            /\ \A j \in todo' : l[n] < j
            /\ \A o \in 1..Len(l) : o < n => l[o] < l[n]
      BY <2>1, <2>2 DEF ListSoFar
    <3>4. \A j \in Indices \ todo' : back[j].status # "error" =>
            \E n \in 1..Len(l) : l[n] = j
      BY <2>1, <2>6, <3>2 DEF ListSoFar
    <3>. QED
      BY <1>1, <3>1, <3>3, <3>4 DEF ListSoFar
  <2>7. ASSUME back[i].status # "error"
        PROVE  ListSoFar'
    <3>1. m = Append(l, i)
      BY <2>1, <2>2, <2>4, <2>7 DEF Reply
    <3>2. /\ Len(m) = Len(l) + 1 /\ m[Len(l) + 1] = i
          /\ \A n \in 1..Len(l) : m[n] = l[n]
      BY <2>3, <2>5, <3>1, AppendProperties
    <3>3. Indices \ todo' = (Indices \ todo) \cup {i} /\ todo' = todo \ {i}
      BY <2>2, <2>3
    <3>4. \A n \in 1..Len(l) : l[n] \in Indices \ todo /\ l[n] < i
      BY <2>1, <2>3 DEF ListSoFar
    <3>5. \A j \in todo' : i < j
      BY <2>1, <2>3, <2>5, <3>3
    <3> HIDE DEF l, m
    <3>6. ASSUME NEW n \in 1..Len(m)
          PROVE  /\ m[n] \in Indices \ todo'
                 /\ \A j \in todo' : m[n] < j
                 /\ \A o \in 1..Len(m) : o < n => m[o] < m[n]
      <4>1. CASE n = Len(l) + 1
        BY <2>3, <3>2, <3>3, <3>4, <3>5, <4>1 DEF l
      <4>2. CASE n # Len(l) + 1
        <5>1. n \in 1..Len(l) /\ m[n] = l[n]
          BY <2>3, <3>2, <4>2 DEF l
        <5>2. ASSUME NEW o \in 1..Len(m), o < n PROVE o \in 1..Len(l) /\ m[o] = l[o]
          BY <2>3, <3>2, <5>1, <5>2 DEF l
        <5>3. /\ l[n] \in Indices \ todo /\ \A j \in todo : l[n] < j
              /\ \A o \in 1..Len(l) : o < n => l[o] < l[n]
          BY <2>1, <5>1 DEF ListSoFar, l
        <5>. QED
          BY <3>3, <5>1, <5>2, <5>3
      <4>. QED
        BY <4>1, <4>2
    <3>7. ASSUME NEW j \in Indices \ todo', back[j].status # "error"
          PROVE  \E n \in 1..Len(m) : m[n] = j
      <4>1. CASE j = i
        <5>1. Len(l) + 1 \in 1..Len(m)
          BY <2>3, <3>2 DEF l
        <5>. QED
          BY <3>2, <4>1, <5>1
      <4>2. CASE j # i
        <5>1. PICK n \in 1..Len(l) : l[n] = j
          BY <2>1, <3>3, <3>7, <4>2 DEF ListSoFar, l
        <5>2. n \in 1..Len(m)
          BY <2>3, <3>2 DEF l
        <5>. QED
          BY <3>2, <5>1, <5>2
      <4>. QED
        BY <4>1, <4>2
    <3>. QED
      BY <1>1, <3>6, <3>7 DEF ListSoFar, m
  <2>. QED
    BY <2>6, <2>7
<1>. QED
  BY <1>2, <1>3, <1>4, <1>5 DEF Call

LEMMA Answers == Spec => [](Progress /\ Merging /\ Listing)
<1>1. Init => Progress /\ Merging /\ Listing
  BY DEF Init, Progress, Merging, Listing
<1>2. Base /\ Delivered /\ Progress /\ Merging /\ Listing /\ [Next]_vars
         => Progress' /\ Merging' /\ Listing'
  BY NotYet, ProgressCall, MergingCall, ListingCall DEF Next
<1>. QED
  BY <1>1, <1>2, BaseAlways, DeliveredAlways, PTL DEF Spec

\* Variables keep their types: no result is put beyond the room of the channel,
\* none is taken beyond the number of parts, and what is answered exists.
THEOREM TypeCorrect == Spec => []TypeOK
<1>1. Base /\ Progress => TypeOK
  BY DEF Base, Progress, TypeOK
<1>. QED
  BY <1>1, BaseAlways, Answers, PTL

\* An answer without "Partial success" means that every part succeeded, except
\* that parts with the same key hide each other; one with it, that some did not.
THEOREM Reported == Spec => []FailuresReported
<1>1. Base /\ Delivered /\ Progress => FailuresReported
  <2> SUFFICES ASSUME Base, Delivered, Progress, reply # None, kind # "list"
               PROVE  IF reply.kind = "complete"
                      THEN \A i \in Indices : Alone(i, SameKey) => back[i].status = "good"
                      ELSE \E i \in Indices : back[i].status # "good"
    BY DEF FailuresReported
  <2>1. phase \in {"merge", "list", "done"} /\ phase # "collect"
    BY DEF Base, Progress
  <2>2. CASE reply.kind = "complete"
    <3>1. ASSUME NEW i \in Indices, Alone(i, SameKey) PROVE back[i].status = "good"
      <4>1. parts[i].key \in Keys
        BY DEF Keys
      <4>2. results[parts[i].key] = back[i]
        BY <2>1, <3>1, <4>1, CallerKnows DEF Alone, SameKey
      <4>. QED
        BY <2>1, <2>2, <4>1, <4>2 DEF Progress
    <3>. QED
      BY <2>2, <3>1
  <2>3. CASE reply.kind # "complete"
    BY <2>1, <2>3, CallerKnows DEF Progress
  <2>. QED
    BY <2>2, <2>3
<1>. QED
  BY <1>1, BaseAlways, DeliveredAlways, Answers, PTL

\* A merged answer loses no name, and under each has what some part sent for it,
\* in whatever order the map of results is visited.
THEOREM Merges == Spec => []MergeComplete
<1>1. Progress /\ Merging => MergeComplete
  <2> SUFFICES ASSUME Progress, Merging, phase = "done", kind = "merge",
                      reply.kind = "complete", NEW x \in Field
               PROVE  NameFrom(Keys, x)
    BY DEF MergeComplete, NameFrom
  <2>1. Keys \ todo = Keys
    BY DEF Progress
  <2>. QED
    BY <2>1 DEF Merging
<1>. QED
  BY <1>1, Answers, PTL

\* A list has the results in the order of the parts, not of their arrival, and
\* each part with a key of its own that got an answer is in it.
THEOREM Ordered == Spec => []ListInOrder
<1>1. Progress /\ Listing => ListInOrder
  <2> SUFFICES ASSUME Progress, Listing, phase = "done", kind = "list",
                      \A i \in Indices : Alone(i, SameKey)
               PROVE  /\ \A m, n \in DOMAIN reply.list : m < n => reply.list[m] < reply.list[n]
                      /\ \A i \in Indices : back[i].status # "error" =>
                            \E n \in DOMAIN reply.list : reply.list[n] = i
    BY DEF ListInOrder
  <2>1. ListSoFar /\ todo = {} /\ reply.list \in Seq(Nat)
    BY DEF Progress, Listing, Reply
  <2>2. DOMAIN reply.list = 1..Len(reply.list)
    BY <2>1
  <2>. QED
    BY <2>1, <2>2 DEF ListSoFar
<1>. QED
  BY <1>1, Answers, PTL
-----------------------------------------------------------------------------
(* Nobody waits for ever *)

\* Where the goroutines are, as numbers; the sets of those that have not come
\* so far; the chunks that no goroutine has read.
Behind(stages) == {i \in Indices : go[i] \in stages}

Sources == {parts[i].source : i \in Indices}

Unread == {t \in Sources \X (1..Chunks) : next[t[1]] <= t[2]}

\* What the last loop of the caller still has to visit.
Unvisited ==
    IF phase \in {"collect", "answer"} THEN IF kind = "list" THEN Indices ELSE Keys
    ELSE todo

PhasesLeft ==
    IF phase = "collect" THEN 3
    ELSE IF phase = "answer" THEN 2
    ELSE IF phase = "done" THEN 0 ELSE 1

MovesLeft ==
    Cardinality(Behind({"ready"})) + Cardinality(Behind({"ready", "read"}))
      + Cardinality(Behind({"ready", "read", "wait"}))
      + Cardinality(Behind({"ready", "read", "wait", "over"}))

CallLeft == (Len(parts) - taken) + Cardinality(Unvisited) + PhasesLeft

\* An upper bound of the steps that the call and its goroutines have left.
Work == MovesLeft + Cardinality(Unread) + CallLeft

\* A goroutine with a result finds room in the channel; the caller has a step,
\* unless it waits for a result of a goroutine that is still to come.
NobodyStuck ==
    /\ \A i \in Indices : go[i] = "over" => Len(channel) < Len(parts)
    /\ phase = "collect" =>
         \/ channel # <<>> \/ taken >= Expected
         \/ \E i \in Indices : go[i] # "gone"
    /\ phase = "merge" => todo # {}
    /\ phase = "list" => Visited # {}


\* Numbers are well-ordered, as finite sets of numbers are.
LEMMA Least ==
    ASSUME NEW S, S \subseteq Nat, S # {}
    PROVE  \E m \in S : \A n \in S : m <= n
<1> DEFINE T == {0..n : n \in S}
           R == StrictSubsetOrdering(Nat)
<1>1. IsWellFoundedOn(R, FiniteSubsetsOf(Nat))
  BY FS_StrictSubsetOrderingWellFounded
<1>2. T \subseteq FiniteSubsetsOf(Nat)
  <2>1. ASSUME NEW n \in S PROVE 0..n \in FiniteSubsetsOf(Nat)
    <3>1. IsFiniteSet(0..n)
      BY FS_Interval
    <3>2. 0..n \in SUBSET Nat
      OBVIOUS
    <3>. QED
      BY <3>1, <3>2 DEF FiniteSubsetsOf
  <2>. QED
    BY <2>1
<1>3. T # {}
  OBVIOUS
<1>4. \E x \in T : \A y \in T : ~(<<y, x>> \in R)
  <2> HIDE DEF T, R
  <2>. QED
    BY <1>1, <1>2, <1>3, WFMin
<1>5. PICK m \in S : \A n \in S : ~(<<0..n, 0..m>> \in R)
  BY <1>4
<1>6. ASSUME NEW n \in S, n < m PROVE <<0..n, 0..m>> \in R
  <2>1. /\ 0..n \subseteq 0..m /\ m \in 0..m /\ m \notin 0..n
        /\ 0..n \subseteq Nat /\ 0..m \subseteq Nat
    BY <1>6
  <2>. QED
    BY <2>1 DEF StrictSubsetOrdering
<1> HIDE DEF R
<1>7. \A n \in S : ~(n < m)
  BY <1>5, <1>6
<1>. QED
  BY <1>7

LEMMA Smaller ==
    ASSUME NEW S, IsFiniteSet(S), NEW T \in SUBSET S
    PROVE  /\ Cardinality(S) \in Nat /\ Cardinality(T) \in Nat
           /\ Cardinality(T) <= Cardinality(S)
           /\ T # S => Cardinality(T) < Cardinality(S)
<1>1. IsFiniteSet(T) /\ Cardinality(T) <= Cardinality(S)
      /\ (Cardinality(S) = Cardinality(T) => S = T)
  BY FS_Subset
<1>2. Cardinality(S) \in Nat /\ Cardinality(T) \in Nat
  BY <1>1, FS_CardinalityType
<1>. QED
  BY <1>1, <1>2

LEMMA FinitelyMuch ==
    ASSUME Base, todo \subseteq Keys \/ todo \subseteq Indices
    PROVE  /\ \A s : IsFiniteSet(Behind(s))
           /\ IsFiniteSet(Unread) /\ IsFiniteSet(Unvisited)
           /\ Len(parts) - taken \in Nat /\ PhasesLeft \in Nat
<1>1. IsFiniteSet(Indices) /\ Chunks \in Nat
  BY GoneFinite, PartsAssumption DEF Base
<1>2. ASSUME NEW s PROVE IsFiniteSet(Behind(s))
  <2>1. Behind(s) \in SUBSET Indices
    BY DEF Behind
  <2>. QED
    BY <1>1, <2>1, FS_Subset
<1>3. ASSUME NEW f, NEW S, f \in [Indices -> S], \A x \in S : \E i \in Indices : f[i] = x
      PROVE  IsFiniteSet(S)
  <2>1. f \in Surjection(Indices, S)
    BY <1>3 DEF Surjection
  <2>. QED
    BY <1>1, <2>1, FS_Surjection
<1>4. IsFiniteSet(Sources) /\ IsFiniteSet(Keys)
  <2>1. [i \in Indices |-> parts[i].source] \in [Indices -> Sources]
    BY DEF Sources
  <2>2. \A x \in Sources : \E i \in Indices : [j \in Indices |-> parts[j].source][i] = x
    BY DEF Sources
  <2>3. [i \in Indices |-> parts[i].key] \in [Indices -> Keys]
    BY DEF Keys
  <2>4. \A x \in Keys : \E i \in Indices : [j \in Indices |-> parts[j].key][i] = x
    BY DEF Keys
  <2>. QED
    BY <1>3, <2>1, <2>2, <2>3, <2>4, Zenon
<1>5. IsFiniteSet(Unread)
  <2>1. IsFiniteSet(1..Chunks)
    BY <1>1, FS_Interval
  <2>2. IsFiniteSet(Sources \X (1..Chunks))
    BY <1>4, <2>1, FS_Product
  <2>3. Unread \in SUBSET (Sources \X (1..Chunks))
    BY DEF Unread
  <2>. QED
    BY <2>2, <2>3, FS_Subset
<1>6. IsFiniteSet(Unvisited)
  <2>1. IsFiniteSet(todo)
    BY <1>1, <1>4, FS_Subset
  <2>. QED
    BY <1>1, <1>4, <2>1 DEF Unvisited
<1>7. Len(parts) - taken \in Nat
  BY PartsFacts DEF Base
<1>. QED
  BY <1>2, <1>5, <1>6, <1>7 DEF PhasesLeft

\* The last loop visits what there is to visit, and nothing is to visit before.
Visiting ==
    /\ phase \in {"collect", "answer"} => todo = {}
    /\ phase \in {"merge", "list"} => todo # {}
    /\ todo \subseteq Keys \/ todo \subseteq Indices

LEMMA VisitingAlways == Spec => []Visiting
<1>1. Init => Visiting
  BY DEF Init, Visiting
<1>2. Visiting /\ [Next]_vars => Visiting'
  <2> SUFFICES ASSUME Visiting, [Next]_vars PROVE Visiting'
    OBVIOUS
  <2>1. CASE UNCHANGED <<parts, phase, todo>>
    BY <2>1 DEF Visiting, Keys, Indices
  <2>2. UNCHANGED vars \/ Take \/ (\E i \in Indices : Forward(i))
           => UNCHANGED <<parts, phase, todo>>
    BY DEF vars, Take, Forward, Begin, Unknown, ReadChunk, ReadEnd, ReadFails, Return, Put,
           Caller
  <2>3. CASE Collected \/ AnswerPartial \/ AnswerPlain
    BY <2>3 DEF Collected, AnswerPartial, AnswerPlain, Answer, Visiting, Keys, Indices
  <2>4. CASE BeginMerge \/ BeginList
    BY <2>4 DEF BeginMerge, BeginList, Visiting, Keys, Indices
  <2>5. CASE MergeKey \/ ListPart
    <3>1. /\ todo' \subseteq todo /\ (phase' = IF todo' = {} THEN "done" ELSE phase)
          /\ parts' = parts /\ phase \in {"merge", "list"}
      BY <2>5 DEF MergeKey, ListPart
    <3>. QED
      BY <3>1 DEF Visiting, Keys, Indices
  <2>. QED
    BY <2>1, <2>2, <2>3, <2>4, <2>5 DEF Next, Call
<1>. QED
  BY <1>1, <1>2, PTL DEF Spec

\* No goroutine waits for room in the channel, though the caller may be slow, and
\* the caller never waits for a result that no goroutine is going to put: the
\* results are as many as the parts, and the channel as long.
THEOREM NoneStuck == Spec => []NobodyStuck
<1>1. Base /\ Delivered /\ Progress /\ Visiting => NobodyStuck
  <2> SUFFICES ASSUME Base, Delivered, Progress, Visiting PROVE NobodyStuck
    OBVIOUS
  <2>1. /\ Len(parts) \in Nat /\ Len(channel) \in Nat /\ taken \in Nat
        /\ IsFiniteSet(Gone) /\ Cardinality(Gone) \in Nat
        /\ Cardinality(Gone) <= Len(parts)
        /\ Cardinality(Gone) = Len(parts) => Gone = Indices
        /\ taken + Len(channel) = Cardinality(Gone)
    BY PartsFacts, GoneFinite DEF Base, Delivered
  <2>2. ASSUME NEW i \in Indices, go[i] = "over" PROVE Len(channel) < Len(parts)
    <3>1. Gone # Indices
      BY <2>2 DEF Gone
    <3>. QED
      BY <2>1, <3>1
  <2>3. ASSUME channel = <<>>, taken < Expected PROVE \E i \in Indices : go[i] # "gone"
    <3>1. Len(channel) = 0
      BY <2>3
    <3>2. Cardinality(Gone) # Cardinality(Indices)
      BY <2>1, <2>3, <3>1, GoneFinite DEF Base, Expected
    <3>3. Gone # Indices
      BY <3>2
    <3>. QED
      BY <3>3 DEF Gone
  <2>4. ASSUME phase = "list" PROVE Visited # {}
    <3>1. todo \subseteq Nat /\ todo # {}
      BY <2>4, PartsFacts DEF Base, Progress, Visiting
    <3>2. \E m \in todo : \A n \in todo : m <= n
      BY <3>1, Least
    <3>. QED
      BY <3>2 DEF Visited
  <2>5. taken < Expected \/ taken >= Expected
    BY <2>1 DEF Expected
  <2>. QED
    BY <2>2, <2>3, <2>4, <2>5 DEF NobodyStuck, Visiting
<1>. QED
  BY <1>1, BaseAlways, DeliveredAlways, Answers, VisitingAlways, PTL
Finite ==
    /\ IsFiniteSet(Behind({"ready"})) /\ IsFiniteSet(Behind({"ready", "read"}))
    /\ IsFiniteSet(Behind({"ready", "read", "wait"}))
    /\ IsFiniteSet(Behind({"ready", "read", "wait", "over"}))
    /\ IsFiniteSet(Unread) /\ IsFiniteSet(Unvisited)
    /\ Len(parts) - taken \in Nat /\ PhasesLeft \in Nat

LEMMA WorkType ==
    ASSUME Finite
    PROVE  Work \in Nat
<1>1. /\ Cardinality(Behind({"ready"})) \in Nat
      /\ Cardinality(Behind({"ready", "read"})) \in Nat
      /\ Cardinality(Behind({"ready", "read", "wait"})) \in Nat
      /\ Cardinality(Behind({"ready", "read", "wait", "over"})) \in Nat
      /\ Cardinality(Unread) \in Nat /\ Cardinality(Unvisited) \in Nat
  BY FS_CardinalityType DEF Finite
<1>. QED
  BY <1>1 DEF Work, MovesLeft, CallLeft, Finite

\* The number n is at most m, and less if strictly.
Falls(n, m, strictly) == n \in Nat /\ m \in Nat /\ n <= m /\ (strictly => n < m)

\* Nothing becomes more, and something less.
LEMMA Less ==
    ASSUME Finite, Finite',
           Behind({"ready"})' \subseteq Behind({"ready"}),
           Behind({"ready", "read"})' \subseteq Behind({"ready", "read"}),
           Behind({"ready", "read", "wait"})' \subseteq Behind({"ready", "read", "wait"}),
           Behind({"ready", "read", "wait", "over"})'
               \subseteq Behind({"ready", "read", "wait", "over"}),
           Unread' \subseteq Unread, Unvisited' \subseteq Unvisited,
           parts' = parts, taken' >= taken, taken' \in Nat, taken \in Nat, Len(parts) \in Nat,
           PhasesLeft' <= PhasesLeft,
           \/ Behind({"ready"})' # Behind({"ready"})
           \/ Behind({"ready", "read"})' # Behind({"ready", "read"})
           \/ Behind({"ready", "read", "wait"})' # Behind({"ready", "read", "wait"})
           \/ Behind({"ready", "read", "wait", "over"})'
                # Behind({"ready", "read", "wait", "over"})
           \/ Unread' # Unread \/ Unvisited' # Unvisited
           \/ taken' > taken \/ PhasesLeft' < PhasesLeft
    PROVE  Work' < Work
<1> DEFINE a == Behind({"ready"})
           b == Behind({"ready", "read"})
           c == Behind({"ready", "read", "wait"})
           d == Behind({"ready", "read", "wait", "over"})
<1>1. /\ IsFiniteSet(a) /\ IsFiniteSet(b) /\ IsFiniteSet(c) /\ IsFiniteSet(d)
      /\ IsFiniteSet(Unread) /\ IsFiniteSet(Unvisited)
  BY DEF Finite
<1>2. /\ a' \in SUBSET a /\ b' \in SUBSET b /\ c' \in SUBSET c /\ d' \in SUBSET d
      /\ Unread' \in SUBSET Unread /\ Unvisited' \in SUBSET Unvisited
  OBVIOUS
<1>3. \/ a' # a \/ b' # b \/ c' # c \/ d' # d \/ Unread' # Unread
      \/ Unvisited' # Unvisited \/ taken' > taken \/ PhasesLeft' < PhasesLeft
  OBVIOUS
<1> HIDE DEF a, b, c, d
<1>4. ASSUME NEW S, NEW T, IsFiniteSet(S), T \in SUBSET S
      PROVE  Falls(Cardinality(T), Cardinality(S), T # S)
  BY <1>4, Smaller DEF Falls
<1>5. /\ Falls(Cardinality(a'), Cardinality(a), a' # a)
      /\ Falls(Cardinality(b'), Cardinality(b), b' # b)
      /\ Falls(Cardinality(c'), Cardinality(c), c' # c)
      /\ Falls(Cardinality(d'), Cardinality(d), d' # d)
      /\ Falls(Cardinality(Unread'), Cardinality(Unread), Unread' # Unread)
      /\ Falls(Cardinality(Unvisited'), Cardinality(Unvisited), Unvisited' # Unvisited)
  BY <1>1, <1>2, <1>4, Zenon
<1>6. /\ Len(parts) - taken' \in Nat /\ Len(parts) - taken \in Nat
      /\ Len(parts) - taken' <= Len(parts) - taken
      /\ taken' > taken => Len(parts) - taken' < Len(parts) - taken
      /\ PhasesLeft \in Nat /\ PhasesLeft' \in Nat
  BY DEF Finite
<1> DEFINE na == Cardinality(a)   ma == Cardinality(a')
           nb == Cardinality(b)   mb == Cardinality(b')
           nc == Cardinality(c)   mc == Cardinality(c')
           nd == Cardinality(d)   md == Cardinality(d')
           ne == Cardinality(Unread)      me == Cardinality(Unread')
           nf == Cardinality(Unvisited)   mf == Cardinality(Unvisited')
           ng == Len(parts) - taken       mg == Len(parts) - taken'
           nh == PhasesLeft               mh == PhasesLeft'
<1>7. /\ {na, nb, nc, nd, ne, nf, ng, nh, ma, mb, mc, md, me, mf, mg, mh} \subseteq Nat
      /\ ma <= na /\ mb <= nb /\ mc <= nc /\ md <= nd /\ me <= ne /\ mf <= nf /\ mg <= ng
      /\ mh <= nh
      /\ \/ ma < na \/ mb < nb \/ mc < nc \/ md < nd \/ me < ne \/ mf < nf \/ mg < ng
         \/ mh < nh
  BY <1>3, <1>5, <1>6 DEF Falls
<1>8. MovesLeft = na + nb + nc + nd /\ MovesLeft' = ma + mb + mc + md
  BY DEF MovesLeft, a, b, c, d
<1>9. CallLeft = ng + nf + nh /\ CallLeft' = mg + mf + mh
  BY DEF CallLeft
<1>10. Work = MovesLeft + ne + CallLeft /\ Work' = MovesLeft' + me + CallLeft'
  BY DEF Work
<1> HIDE DEF na, nb, nc, nd, ne, nf, ng, nh, ma, mb, mc, md, me, mf, mg, mh
<1>11. /\ MovesLeft \in Nat /\ MovesLeft' \in Nat /\ MovesLeft' <= MovesLeft
       /\ ma < na \/ mb < nb \/ mc < nc \/ md < nd => MovesLeft' < MovesLeft
  <2>1. /\ na \in Nat /\ nb \in Nat /\ nc \in Nat /\ nd \in Nat
        /\ ma \in Nat /\ mb \in Nat /\ mc \in Nat /\ md \in Nat
        /\ ma <= na /\ mb <= nb /\ mc <= nc /\ md <= nd
    BY <1>7
  <2>. QED
    BY <1>8, <2>1
<1>12. /\ CallLeft \in Nat /\ CallLeft' \in Nat /\ CallLeft' <= CallLeft
       /\ mf < nf \/ mg < ng \/ mh < nh => CallLeft' < CallLeft
  <2>1. /\ nf \in Nat /\ ng \in Nat /\ nh \in Nat /\ mf \in Nat /\ mg \in Nat /\ mh \in Nat
        /\ mf <= nf /\ mg <= ng /\ mh <= nh
    BY <1>7
  <2>. QED
    BY <1>9, <2>1
<1>13. ne \in Nat /\ me \in Nat /\ me <= ne
  BY <1>7
<1>14. MovesLeft' < MovesLeft \/ me < ne \/ CallLeft' < CallLeft
  BY <1>7, <1>11, <1>12
<1> DEFINE x == MovesLeft   u == MovesLeft'
           y == CallLeft    v == CallLeft'
<1>15. /\ x \in Nat /\ u \in Nat /\ y \in Nat /\ v \in Nat /\ ne \in Nat /\ me \in Nat
       /\ u <= x /\ v <= y /\ me <= ne /\ (u < x \/ me < ne \/ v < y)
  BY <1>11, <1>12, <1>13, <1>14
<1>16. Work = x + ne + y
  BY <1>10
<1>17. Work' = u + me + v
  BY <1>10
<1> HIDE DEF x, u, y, v
<1>18. u + me + v < x + ne + y
  BY <1>15
<1>. QED
  BY <1>16, <1>17, <1>18

LEMMA WorkForward ==
    ASSUME Base, Finite, Finite', NEW i \in Indices, Forward(i)
    PROVE  Work' < Work
<1>1. /\ UNCHANGED <<parts, kind, phase, taken, todo>>
      /\ taken \in Nat /\ Len(parts) \in Nat /\ PhasesLeft \in Nat
  BY PartsFacts DEF Forward, Begin, Unknown, ReadChunk, ReadEnd, ReadFails, Return, Put,
                    Caller, Base, Finite
<1>2. /\ Indices' = Indices /\ Keys' = Keys /\ Sources' = Sources
      /\ Unvisited' = Unvisited /\ PhasesLeft' = PhasesLeft
  BY <1>1 DEF Indices, Keys, Sources, Unvisited, PhasesLeft
<1>3. CASE ReadChunk(i)
  <2> DEFINE q == parts[i].source
  <2>1. /\ next[q] <= Chunks /\ next' = [next EXCEPT ![q] = @ + 1] /\ UNCHANGED go
    BY <1>3 DEF ReadChunk
  <2>2. q \in Source /\ q \in Sources /\ next[q] \in 1..Chunks /\ Chunks \in Nat
    BY <2>1, PartsFacts, PartsAssumption DEF Base, Sources
  <2>3. \A s : Behind(s)' = Behind(s)
    BY <1>2, <2>1 DEF Behind
  <2>4. Sources \subseteq Source /\ \A p \in Source : next[p] \in Nat
    BY PartsFacts, PartsAssumption DEF Base, Sources
  <2> HIDE DEF q
  <2>5. \A p \in Source : next'[p] = IF p = q THEN next[p] + 1 ELSE next[p]
    BY <2>1, <2>2 DEF Base
  <2>6. Unread' = {t \in Sources \X (1..Chunks) : next'[t[1]] <= t[2]}
    BY <1>2 DEF Unread
  <2>7. Unread' \subseteq Unread
    BY <2>4, <2>5, <2>6 DEF Unread
  <2>8. <<q, next[q]>> \in Unread /\ <<q, next[q]>> \notin Unread'
    BY <2>2, <2>5, <2>6 DEF Unread
  <2>9. Unread' # Unread
    BY <2>8
  <2>. QED
    BY <1>1, <1>2, <2>3, <2>7, <2>9, Less
<1>4. CASE ~ReadChunk(i)
  <2>1. UNCHANGED next
    BY <1>4 DEF Forward, Begin, Unknown, ReadEnd, ReadFails, Return, Put
  <2>2. Unread' = Unread
    BY <1>2, <2>1 DEF Unread
  <2>3. PICK from, to :
           /\ <<from, to>> \in {<<"ready", "read">>, <<"ready", "over">>, <<"read", "wait">>,
                             <<"read", "over">>, <<"wait", "over">>, <<"over", "gone">>}
           /\ Move(i, from, to)
    BY <1>4 DEF Forward, Begin, Unknown, ReadEnd, ReadFails, Return, Put
  <2>4. \A j \in Indices : go'[j] = IF j = i THEN to ELSE go[j]
    BY <2>3 DEF Move, Base
  <2>5. go[i] = from /\ go'[i] = to
    BY <2>3, <2>4 DEF Move
  <2>6. ASSUME NEW s, to \in s => from \in s
        PROVE  /\ Behind(s)' \subseteq Behind(s)
               /\ from \in s /\ to \notin s => Behind(s)' # Behind(s)
    BY <1>2, <2>4, <2>5, <2>6 DEF Behind
  <2>7. /\ to \in {"ready"} => from \in {"ready"}
        /\ to \in {"ready", "read"} => from \in {"ready", "read"}
        /\ to \in {"ready", "read", "wait"} => from \in {"ready", "read", "wait"}
        /\ to \in {"ready", "read", "wait", "over"} => from \in {"ready", "read", "wait", "over"}
        /\ \/ from \in {"ready"} /\ to \notin {"ready"}
           \/ from \in {"ready", "read"} /\ to \notin {"ready", "read"}
           \/ from \in {"ready", "read", "wait"} /\ to \notin {"ready", "read", "wait"}
           \/ /\ from \in {"ready", "read", "wait", "over"}
              /\ to \notin {"ready", "read", "wait", "over"}
    BY <2>3
  <2>8. /\ Behind({"ready"})' \subseteq Behind({"ready"})
        /\ Behind({"ready", "read"})' \subseteq Behind({"ready", "read"})
        /\ Behind({"ready", "read", "wait"})' \subseteq Behind({"ready", "read", "wait"})
        /\ Behind({"ready", "read", "wait", "over"})'
             \subseteq Behind({"ready", "read", "wait", "over"})
        /\ \/ Behind({"ready"})' # Behind({"ready"})
           \/ Behind({"ready", "read"})' # Behind({"ready", "read"})
           \/ Behind({"ready", "read", "wait"})' # Behind({"ready", "read", "wait"})
           \/ Behind({"ready", "read", "wait", "over"})'
                # Behind({"ready", "read", "wait", "over"})
    BY <2>6, <2>7, Zenon
  <2>. QED
    BY <1>1, <1>2, <2>2, <2>8, Less
<1>. QED
  BY <1>3, <1>4

LEMMA WorkCall ==
    ASSUME Base, Visiting, Finite, Finite', Call
    PROVE  Work' < Work
<1>1. UNCHANGED <<parts, kind, Goroutines>> /\ Len(parts) \in Nat /\ taken \in Nat
  BY PartsFacts DEF Call, Take, Collected, AnswerPartial, AnswerPlain, BeginMerge, MergeKey,
                    BeginList, ListPart, Base
<1>2. Indices' = Indices /\ Keys' = Keys /\ Unread' = Unread /\ \A s : Behind(s)' = Behind(s)
  BY <1>1 DEF Indices, Keys, Unread, Sources, Behind, Goroutines
<1>3. CASE Take
  <2>1. taken' = taken + 1 /\ UNCHANGED <<phase, todo, kind>>
    BY <1>3 DEF Take
  <2>2. Unvisited' = Unvisited /\ PhasesLeft' = PhasesLeft /\ PhasesLeft \in Nat
    BY <1>2, <2>1 DEF Unvisited, PhasesLeft
  <2>. QED
    BY <1>1, <1>2, <2>1, <2>2, Less
<1>4. ASSUME taken' = taken, Unvisited' \subseteq Unvisited, PhasesLeft' <= PhasesLeft,
             PhasesLeft' < PhasesLeft \/ Unvisited' # Unvisited
      PROVE  Work' < Work
  BY <1>1, <1>2, <1>4, Less
<1>5. CASE Collected
  BY <1>1, <1>2, <1>4, <1>5 DEF Collected, Unvisited, PhasesLeft
<1>6. CASE AnswerPartial \/ AnswerPlain
  <2>1. phase = "answer" /\ phase' = "done" /\ todo' = {} /\ taken' = taken
    BY <1>6 DEF AnswerPartial, AnswerPlain, Answer, Visiting
  <2>. QED
    BY <1>4, <2>1 DEF Unvisited, PhasesLeft
<1>7. CASE BeginMerge \/ BeginList
  <2>1. /\ phase = "answer" /\ phase' \in {"merge", "list", "done"} /\ taken' = taken
        /\ todo' = IF kind = "list" THEN Indices ELSE Keys
    BY <1>7 DEF BeginMerge, BeginList
  <2>. QED
    BY <1>4, <2>1 DEF Unvisited, PhasesLeft
<1>8. CASE MergeKey \/ ListPart
  <2>1. /\ phase \in {"merge", "list"} /\ phase' \in {phase, "done"} /\ taken' = taken
        /\ \E x \in todo : todo' = todo \ {x}
    BY <1>8 DEF MergeKey, ListPart, Visited
  <2>. QED
    BY <1>4, <2>1 DEF Unvisited, PhasesLeft
<1>. QED
  BY <1>3, <1>5, <1>6, <1>7, <1>8 DEF Call

\* Every step of a goroutine or of the caller is one of finitely many that the
\* call began with: nothing is read twice, no goroutine goes back and no loop
\* starts again, whoever shares requests or keys.
THEOREM BoundedWork == Spec => [](Work \in Nat) /\ [][Work' < Work]_vars
<1>1. Base /\ Visiting => Finite
  BY FinitelyMuch DEF Visiting, Finite
<1>2. Base /\ Visiting /\ Base' /\ Visiting' /\ Next => Work' < Work
  <2>1. Base' /\ Visiting' => Finite'
    BY <1>1, PTL
  <2>. QED
    BY <1>1, <2>1, WorkForward, WorkCall DEF Next
<1>3. Finite => Work \in Nat
  BY WorkType
<1>4. Base /\ Visiting /\ Base' /\ Visiting' /\ [Next]_vars => [Work' < Work]_vars
  BY <1>2
<1>. QED
  BY <1>1, <1>3, <1>4, BaseAlways, VisitingAlways, PTL DEF Spec
=============================================================================
