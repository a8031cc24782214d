----------------------------- MODULE AtMostOnce -----------------------------
(***************************************************************************)
(* What a client may rely on that asks for a change through the gateway:   *)
(* the change happens at most once; an answer that reports it comes after  *)
(* it; an answer that refuses it means that it never happens.  When the    *)
(* gateway cannot tell, or its answer does not arrive, the change may have *)
(* happened, or may happen yet.                                            *)
(***************************************************************************)
CONSTANTS Call, None

VARIABLES
    told,  \* told[c]: what the client of call c knows, or None
    times  \* times[c]: how often its change has happened

vars == <<told, times>>

Knowledge == {"waiting", "happened", "refused", "unsure"}

Init ==
    /\ told = [c \in Call |-> None]
    /\ times = [c \in Call |-> 0]

\* The slot of a call that is over is free for the next one.
Ask(c) ==
    /\ told[c] # "waiting"
    /\ \E k \in {"waiting", None} : told' = [told EXCEPT ![c] = k]
    /\ times' = [times EXCEPT ![c] = 0]

Change(c) ==
    /\ told[c] \in {"waiting", "unsure"} /\ times[c] = 0
    /\ times' = [times EXCEPT ![c] = 1]
    /\ UNCHANGED told

Tell(c) ==
    /\ told[c] = "waiting"
    /\ \E k \in {"happened", "refused", "unsure"} :
         /\ k = "happened" => times[c] = 1
         /\ k = "refused" => times[c] = 0
         /\ told' = [told EXCEPT ![c] = k]
    /\ UNCHANGED times

\* The gateway dies: nobody who waits is told anything.
Die ==
    /\ \E c \in Call : told[c] = "waiting"
    /\ told' = [c \in Call |-> IF told[c] = "waiting" THEN "unsure" ELSE told[c]]
    /\ UNCHANGED times

Next == Die \/ \E c \in Call : Ask(c) \/ Change(c) \/ Tell(c)

Spec == Init /\ [][Next]_vars
=============================================================================
