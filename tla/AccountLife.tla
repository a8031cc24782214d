---------------------------- MODULE AccountLife ----------------------------
(***************************************************************************)
(* What the life of a user account promises to whoever reads it between    *)
(* two statements: an account appears once, changes between active and     *)
(* inactive, is deleted for good; a password, once set, may change but     *)
(* never goes away.                                                        *)
(*                                                                         *)
(* Accounts implements it, and so does AuthSessions, which takes from here *)
(* what administrators may do to an account while it is signing in.        *)
(***************************************************************************)
CONSTANT User

VARIABLES
    state,  \* state[u]: see State
    secret  \* the users that have a password

vars == <<state, secret>>

State == {"absent", "active", "inactive", "deleted"}

Init ==
    /\ state \in [User -> State]
    /\ secret \subseteq User

Appear(u) ==
    /\ state[u] = "absent"
    /\ \E s \in {"active", "inactive"} : state' = [state EXCEPT ![u] = s]
    /\ UNCHANGED secret

Change(u) ==
    /\ state[u] \in {"active", "inactive"}
    /\ \E s \in {"active", "inactive", "deleted"} :
         state' = [state EXCEPT ![u] = s]
    /\ UNCHANGED secret

Enrol(u) ==
    /\ state[u] # "absent"
    /\ secret' = secret \cup {u}
    /\ UNCHANGED state

Next == \E u \in User : Appear(u) \/ Change(u) \/ Enrol(u)

Spec == Init /\ [][Next]_vars
=============================================================================
