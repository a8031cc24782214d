----------------------------- MODULE MCAccounts -----------------------------
(* An instance of Accounts for TLC, bounded by scenarios: the operations    *)
(* that meet in a behaviour, and the tenants they name.                     *)
EXTENDS Accounts, TLC

VARIABLE scenario

Scenario(ops, ts) == [operations |-> ops, tenants |-> ts \cup {None}]

Scenarios ==
    {Scenario({"Register", "UpdateUser", "DeleteUser"}, {SeedTenant}),
     Scenario({"CreateUser", "UpdateTenant", "DeleteTenant"}, {SeedTenant}),
     Scenario({"CreateTenant", "UpdateTenant", "DeleteTenant"}, Tenant)}

\* What h now does belongs to the scenario.
Within(h) ==
    /\ req'[h].op \in scenario.operations \cup {None}
    /\ req'[h].tenant \in scenario.tenants
    /\ UNCHANGED scenario

MCInit == Init /\ scenario \in Scenarios

MCNext ==
    \/ \E h \in Handler : (Arrive(h) \/ Advance(h)) /\ Within(h)
    \/ Crash /\ UNCHANGED scenario

MCSpec == MCInit /\ [][MCNext]_<<vars, scenario>>

\* One address is for creations, another for updates; one tenant and its code
\* are the migration's.
Interchangeable ==
    Permutations(Handler) \cup Permutations(User) \cup Permutations(Username)
=============================================================================
