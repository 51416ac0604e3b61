---------------------------- MODULE MCSubmissions ----------------------------
(***************************************************************************)
(* Small instances of Submissions for TLC: every submission is of the same *)
(* opportunity, where the interesting conflicts are.                       *)
(***************************************************************************)
EXTENDS Submissions, TLC

CONSTANT o1
MCOpportunities == {o1}
MCFor == [s \in Submissions |-> o1]

Symmetry ==
  UNION {Permutations(Submissions), Permutations(Clients), Permutations(Titled)}

=============================================================================
