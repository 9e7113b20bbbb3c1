---------------------------- MODULE MCMembership ----------------------------
(***************************************************************************)
(* Small instances of Membership for TLC: a client, a user, the groups they *)
(* join, and the admins group, in which the users group may be nested.      *)
(***************************************************************************)
EXTENDS Membership, TLC

\* Group documents at the start: nothing declared, or users nested in admins.
SeedChoices == {{}, {<<AdminsGroup, UsersGroup>>}}

\* Goroutines are interchangeable.
Symmetry == Permutations(Procs)

=============================================================================
