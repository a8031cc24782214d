------------------------------ MODULE MCRoles ------------------------------
(* Instances of Roles for TLC. *)
EXTENDS Roles, TLC

\* The role of the migration is not interchangeable with the others.
Interchangeable ==
    Permutations(Handler) \cup Permutations(Role \ {SystemRole})
=============================================================================
