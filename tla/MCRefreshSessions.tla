-------------------------- MODULE MCRefreshSessions --------------------------
(***************************************************************************)
(* Small instances of RefreshSessions for TLC: one user with two devices,  *)
(* and another user.                                                       *)
(***************************************************************************)
EXTENDS RefreshSessions, TLC

CONSTANTS f1, f2, g1, u1, u2

MCFamilies == {f1, f2, g1}
MCUsers == {u1, u2}
MCOwner == [f \in MCFamilies |-> IF f = g1 THEN u2 ELSE u1]

Symmetry == UNION {Permutations(Tokens), Permutations(Clients), Permutations({f1, f2})}

=============================================================================
