------------------------------- MODULE Gather -------------------------------
(***************************************************************************)
(* What ForwardMultiple promises: it returns once every part is over, and  *)
(* under each key it returns how a part with that key came out.            *)
(***************************************************************************)
CONSTANTS Key, Outcome, None

VARIABLES
    key,      \* key[i]: under which the outcome of part i is returned; the
              \* parts of a call are the domain of key
    outcome,  \* outcome[i]: of part i, or None
    result    \* what the call returned, or None

vars == <<key, outcome, result>>

Init ==
    /\ key \in [DOMAIN key -> Key]
    /\ outcome = [i \in DOMAIN key |-> None]
    /\ result = None

Finish(i) ==
    /\ outcome[i] = None
    /\ outcome'[i] \in Outcome
    /\ outcome' = [outcome EXCEPT ![i] = outcome'[i]]
    /\ UNCHANGED <<key, result>>

PartsOf(k) == {i \in DOMAIN key : key[i] = k}

Return ==
    /\ result = None
    /\ \A i \in DOMAIN key : outcome[i] # None
    /\ result' \in [Key -> Outcome \cup {None}]
    /\ \A k \in Key : IF PartsOf(k) = {} THEN result'[k] = None
                      ELSE \E i \in PartsOf(k) : result'[k] = outcome[i]
    /\ UNCHANGED <<key, outcome>>

Next == Return \/ \E i \in DOMAIN key : Finish(i)

Spec == Init /\ [][Next]_vars
=============================================================================
