------------------------------ MODULE Workflows ------------------------------
(***************************************************************************)
(* The two declarative transition tables, submissions/workflow.py and      *)
(* opportunities/workflow.py, as the services and the requests read them.  *)
(***************************************************************************)
EXTENDS Naturals

-----------------------------------------------------------------------------
(* submissions/workflow.py *)

Transitions ==
  [READY                |-> {"IN_PROGRESS", "REJECTED", "FAILED"},
   IN_PROGRESS          |-> {"PENDING_APPROVAL", "REJECTED", "FAILED"},
   PENDING_APPROVAL     |-> {"SUBMITTED", "IN_PROGRESS", "REJECTED"},
   SUBMITTED            |-> {"VERIFICATION_PENDING", "PUBLISHED", "FAILED"},
   VERIFICATION_PENDING |-> {"PUBLISHED", "FAILED"},
   PUBLISHED            |-> {"VERIFIED", "VERIFICATION_PENDING", "FAILED"},
   FAILED               |-> {"READY"},
   VERIFIED             |-> {},
   REJECTED             |-> {}]

SubmissionStatuses == DOMAIN Transitions

CanTransition(from, to) == to \in Transitions[from]

\* APPROVAL_REQUIRED_STATUSES, and the database CHECK that mirrors it.
ApprovalRequired == {"SUBMITTED", "PUBLISHED", "VERIFICATION_PENDING", "VERIFIED"}

\* The statuses the partial unique index leaves out: a fresh row may be made.
Retryable == {"REJECTED", "FAILED"}
Live == SubmissionStatuses \ Retryable

-----------------------------------------------------------------------------
(* opportunities/workflow.py *)

OpportunityTransitions ==
  [DISCOVERED |-> {"QUALIFYING", "REJECTED"},
   QUALIFYING |-> {"QUALIFIED", "REJECTED"},
   QUALIFIED  |-> {"SELECTED", "REJECTED", "EXPIRED"},
   SELECTED   |-> {"READY", "QUALIFIED", "REJECTED"},
   READY      |-> {"SUBMITTED", "REJECTED", "EXPIRED"},
   SUBMITTED  |-> {"PUBLISHED", "FAILED"},
   FAILED     |-> {"READY", "REJECTED"},
   PUBLISHED  |-> {},
   REJECTED   |-> {},
   EXPIRED    |-> {}]

OpportunityStatuses == DOMAIN OpportunityTransitions

Submittable == {"SELECTED", "READY"}

=============================================================================
