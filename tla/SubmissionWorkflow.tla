------------------------- MODULE SubmissionWorkflow -------------------------
(***************************************************************************)
(* What the submission workflow promises of a row, whoever works on it:    *)
(* it starts READY, moves along the edges of the table, one or two at a    *)
(* time, and leaves a status without edges only by being deleted.          *)
(***************************************************************************)
EXTENDS Workflows

CONSTANT Submissions
VARIABLE stage   \* "ABSENT" before the row exists, "DELETED" after

\* One request follows an edge, or two in a row: review from READY, publish at
\* once, verify what was not marked published.  The failure that execute writes
\* over PENDING_APPROVAL is no edge, and passes as two of them.
Reachable(from) ==
  Transitions[from] \cup UNION {Transitions[via] : via \in Transitions[from]}

WorkflowInit == stage = [s \in Submissions |-> "ABSENT"]

Start(s) == stage[s] = "ABSENT" /\ stage' = [stage EXCEPT ![s] = "READY"]

Move(s) ==
  /\ stage[s] \in SubmissionStatuses
  /\ \E to \in Reachable(stage[s]) : stage' = [stage EXCEPT ![s] = to]

Remove(s) ==
  /\ stage[s] \in SubmissionStatuses
  /\ stage' = [stage EXCEPT ![s] = "DELETED"]

WorkflowNext == \E s \in Submissions : Start(s) \/ Move(s) \/ Remove(s)

WorkflowSpec == WorkflowInit /\ [][WorkflowNext]_stage

=============================================================================
