----------------------------- MODULE Submissions -----------------------------
(***************************************************************************)
(* The submission workflow with its human approval gate                    *)
(* (submissions/service.py, repositories/submissions.py, migration 0013).  *)
(*                                                                         *)
(* A request loads the row, checks what the service checks, computes the   *)
(* new row and writes it back.  No lock is taken, so under READ COMMITTED  *)
(* other requests may commit in between: between the load and the commit   *)
(* of any request, and for as long as execute awaits the provider and      *)
(* verify awaits the fetch of the published page.  SQLAlchemy writes back  *)
(* the columns that differ from the ones it loaded, and the database       *)
(* refuses a row that breaks the CHECK, the partial unique index or the    *)
(* FREE-only trigger.  One client alone is the sequential behaviour.       *)
(***************************************************************************)
EXTENDS Workflows, FiniteSets

CONSTANTS Submissions,    \* the rows that may ever be created
          Opportunities,  \* what they are submissions of
          For,            \* the opportunity of each submission
          Clients,        \* the requests, and jobs, under way at a time
          Approvers,      \* the users who hold submission.approve
          NoOne,          \* approved_by_user_id IS NULL
          Contents,       \* what a reviewer and a publisher get to read
          Titled,         \* the contents with a title
          Never,          \* approved_at IS NULL
          MaxMeddling     \* bound on the steps of the other services

ASSUME SubmissionsAssumption ==
  /\ For \in [Submissions -> Opportunities]
  /\ NoOne \notin Approvers
  /\ Titled \subseteq Contents
  /\ Never \notin Contents
  /\ MaxMeddling \in Nat

VARIABLES
  row,        \* the submissions table
  opp,        \* opportunities.status
  free,       \* publishers.pricing_type = FREE, of the opportunity's publisher
  req,        \* what each client's request has loaded and is about to write
  approvals,  \* history: who has approved what
  meddling    \* steps of the other services so far

vars == <<row, opp, free, req, approvals, meddling>>

\* The columns the gate depends on: status, approved_by_user_id, approved_at
\* (the content approved stands for the time of its approval) and the content.
Rows == [status : SubmissionStatuses \cup {"ABSENT", "DELETED"},
         by     : Approvers \cup {NoOne},
         at     : Contents \cup {Never},
         text   : Contents \cup {Never}]
Unapproved(status, text) == [status |-> status, by |-> NoOne, at |-> Never, text |-> text]

\* op "execute" awaits its provider, the others are ready to commit.
Ops == {"create", "update", "approve", "execute", "executed", "delete"}
Moves == [from : OpportunityStatuses, to : OpportunityStatuses]
Stay == [from |-> "SELECTED", to |-> "SELECTED"]
Requests == [op : Ops, sub : Submissions, old : Rows, new : Rows, move : Moves]
Idle == [op |-> "idle"]

Approvals == [sub : Submissions, by : Approvers]

TypeOK ==
  /\ row \in [Submissions -> Rows]
  /\ opp \in [Opportunities -> OpportunityStatuses]
  /\ free \in [Opportunities -> BOOLEAN]
  /\ req \in [Clients -> Requests \cup {Idle}]
  /\ approvals \subseteq Approvals
  /\ meddling \in 0..MaxMeddling

Init ==
  /\ row = [s \in Submissions |-> Unapproved("ABSENT", Never)]
  /\ opp = [o \in Opportunities |-> "SELECTED"]
  /\ free = [o \in Opportunities |-> TRUE]
  /\ req = [c \in Clients |-> Idle]
  /\ approvals = {}
  /\ meddling = 0

-----------------------------------------------------------------------------
(***************************************************************************)
(* Requests, up to the point where they have computed the new row.         *)
(***************************************************************************)

Exists(s) == row[s].status \in SubmissionStatuses

\* A request of client c for submission s, about to turn the loaded row into new.
Begin(c, op, s, new) ==
  /\ req[c] = Idle
  /\ req' = [req EXCEPT ![c] = [op |-> op, sub |-> s, old |-> row[s], new |-> new,
                                move |-> Stay]]
  /\ UNCHANGED <<row, opp, free, approvals, meddling>>

LiveOf(o) == {s \in Submissions : For[s] = o /\ row[s].status \in Live}

\* Mutant: create does not look for a live submission.
Create_Unchecked(c, s, text) ==
  /\ row[s].status = "ABSENT"
  /\ \A d \in Clients : req[d] # Idle => req[d].sub # s
  /\ free[For[s]]
  /\ opp[For[s]] \in Submittable
  /\ Begin(c, "create", s, Unapproved("READY", text))

\* create: s is a fresh id.  The content is the approved draft or the payload's.
Create(c, s, text) ==
  /\ row[s].status = "ABSENT"
  /\ \A d \in Clients : req[d] # Idle => req[d].sub # s
  /\ free[For[s]]
  /\ opp[For[s]] \in Submittable
  /\ LiveOf(For[s]) = {}
  /\ Begin(c, "create", s, Unapproved("READY", text))

\* update, when it changes something; an edit under review withdraws the
\* approval.
Edit(c, s, text) ==
  /\ row[s].status \in {"READY", "IN_PROGRESS", "PENDING_APPROVAL"}
  /\ text # row[s].text
  /\ Begin(c, "update", s,
           IF row[s].status = "PENDING_APPROVAL"
             THEN Unapproved("IN_PROGRESS", text)
             ELSE [row[s] EXCEPT !.text = text])

\* transition: any edge of the table, with an approval where one is needed.
Transition(c, s, target) ==
  /\ Exists(s)
  /\ CanTransition(row[s].status, target)
  /\ target \in ApprovalRequired => row[s].by # NoOne
  /\ Begin(c, "update", s, [row[s] EXCEPT !.status = target])

\* prepare_for_review: from READY it passes through IN_PROGRESS.
PrepareForReview(c, s) ==
  /\ row[s].status \in {"READY", "IN_PROGRESS"}
  /\ row[s].text \in Titled
  /\ Begin(c, "update", s, [row[s] EXCEPT !.status = "PENDING_APPROVAL"])

\* Mutant: the approval does not name the approver.
Approve_Anonymous(c, s, user) ==
  /\ row[s].status = "PENDING_APPROVAL"
  /\ Begin(c, "approve", s, [row[s] EXCEPT !.by = NoOne, !.at = row[s].text])

Approve(c, s, user) ==
  /\ row[s].status = "PENDING_APPROVAL"
  /\ Begin(c, "approve", s, [row[s] EXCEPT !.by = user, !.at = row[s].text])

\* Mutant: execute leaves the approval to the database.
Execute_Unapproved(c, s) ==
  /\ Exists(s)
  /\ CanTransition(row[s].status, "SUBMITTED")
  /\ Begin(c, "execute", s, row[s])

\* execute, up to the approval and the table; the provider is called next.
Execute(c, s) ==
  /\ Exists(s)
  /\ row[s].by # NoOne
  /\ CanTransition(row[s].status, "SUBMITTED")
  /\ Begin(c, "execute", s, row[s])

\* execute calls the provider with what it loaded, if the publisher is still
\* FREE, and computes both new statuses from the outcome.  An opportunity that
\* cannot make its move is left alone.
SubmissionAfter == [manual    |-> "SUBMITTED",
                    failed    |-> "FAILED",
                    published |-> "PUBLISHED",
                    recorded  |-> "VERIFICATION_PENDING"]
OpportunityAfter == [manual    |-> "SUBMITTED",
                     failed    |-> "FAILED",
                     published |-> "PUBLISHED",
                     recorded  |-> "SUBMITTED"]

Advance(from, to) == IF to \in OpportunityTransitions[from] THEN to ELSE from

Send(c, outcome) ==
  /\ req[c].op = "execute"
  /\ LET s == req[c].sub
         o == For[s]
     IN /\ free[o]
        /\ req' = [req EXCEPT ![c].op = "executed",
                              ![c].new.status = SubmissionAfter[outcome],
                              ![c].move = [from |-> opp[o],
                                           to |-> Advance(opp[o], OpportunityAfter[outcome])]]
  /\ UNCHANGED <<row, opp, free, approvals, meddling>>

\* Mutant: a submission is verified in any status.
Verify_Anytime(c, s, verified) ==
  /\ Exists(s)
  /\ Begin(c, "update", s,
           [row[s] EXCEPT !.status = IF verified THEN "VERIFIED"
                                     ELSE IF @ = "SUBMITTED" THEN "VERIFICATION_PENDING"
                                     ELSE @])

\* verify: a link that is not found leaves the row waiting.
Verify(c, s, verified) ==
  /\ row[s].status \in {"SUBMITTED", "VERIFICATION_PENDING", "PUBLISHED"}
  /\ Begin(c, "update", s,
           [row[s] EXCEPT !.status = IF verified THEN "VERIFIED"
                                     ELSE IF @ = "SUBMITTED" THEN "VERIFICATION_PENDING"
                                     ELSE @])

Delete(c, s) ==
  /\ Exists(s)
  /\ Begin(c, "delete", s, Unapproved("DELETED", Never))

-----------------------------------------------------------------------------
(***************************************************************************)
(* The end of a request's transaction.                                     *)
(***************************************************************************)

\* A column that the transaction has changed is written, the others keep what
\* is in the table by now.
Column(loaded, computed, current) == IF computed = loaded THEN current ELSE computed

Merge(current, old, new) ==
  [status |-> Column(old.status, new.status, current.status),
   by     |-> Column(old.by, new.by, current.by),
   at     |-> Column(old.at, new.at, current.at),
   text   |-> Column(old.text, new.text, current.text)]

Written(c) ==
  IF req[c].op = "delete" THEN req[c].new
                          ELSE Merge(row[req[c].sub], req[c].old, req[c].new)

\* Mutant: the table has no CHECK.
ApprovalCheck_None(r) == TRUE

\* ck_submissions_submitted_requires_approval
ApprovalCheck(r) == r.status \in ApprovalRequired => r.by # NoOne /\ r.at # Never

\* uq_submissions_tenant_id_opportunity_id_live
LiveIsUnique(s, r) == r.status \in Live => LiveOf(For[s]) \subseteq {s}

\* What the database demands of the row it is given: the two constraints, on
\* INSERT the trigger, and on UPDATE that the row is still there.
Allowed(c) ==
  LET s == req[c].sub
  IN /\ ApprovalCheck(Written(c))
     /\ LiveIsUnique(s, Written(c))
     /\ IF req[c].op = "create" THEN free[For[s]] ELSE Exists(s)

Ready(c) == req[c].op \notin {"idle", "execute"}

Commit(c) ==
  /\ Ready(c)
  /\ Allowed(c)
  /\ LET s == req[c].sub
     IN /\ row' = [row EXCEPT ![s] = Written(c)]
        /\ opp' = [opp EXCEPT ![For[s]] = Column(req[c].move.from, req[c].move.to, @)]
        /\ approvals' = IF req[c].op = "approve"
                          THEN approvals \cup {[sub |-> s, by |-> req[c].new.by]}
                          ELSE approvals
  /\ req' = [req EXCEPT ![c] = Idle]
  /\ UNCHANGED <<free, meddling>>

\* The request ends without a commit: refused by a check or by the database,
\* timed out, or lost with its process.
Abort(c) ==
  /\ req[c] # Idle
  /\ req' = [req EXCEPT ![c] = Idle]
  /\ UNCHANGED <<row, opp, free, approvals, meddling>>

-----------------------------------------------------------------------------
(***************************************************************************)
(* What the other services do to the opportunity and its publisher:        *)
(* OpportunityService.transition and qualify, and a pricing that is        *)
(* corrected by PublisherService.update or by a qualification.             *)
(***************************************************************************)
Meddle == meddling < MaxMeddling /\ meddling' = meddling + 1

MoveOpportunity(o, target) ==
  /\ Meddle
  /\ target \in OpportunityTransitions[opp[o]]
  /\ opp' = [opp EXCEPT ![o] = target]
  /\ UNCHANGED <<row, free, req, approvals>>

\* qualify overwrites any status.
Qualify(o, eligible) ==
  /\ Meddle
  /\ eligible => free[o]
  /\ opp' = [opp EXCEPT ![o] = IF eligible THEN "QUALIFIED" ELSE "REJECTED"]
  /\ UNCHANGED <<row, free, req, approvals>>

Reprice(o) ==
  /\ Meddle
  /\ free' = [free EXCEPT ![o] = ~@]
  /\ UNCHANGED <<row, opp, req, approvals>>

-----------------------------------------------------------------------------

ClientStep(c) ==
  \/ \E s \in Submissions :
       \/ \E text \in Contents : Create(c, s, text) \/ Edit(c, s, text)
       \/ \E target \in SubmissionStatuses : Transition(c, s, target)
       \/ PrepareForReview(c, s)
       \/ \E user \in Approvers : Approve(c, s, user)
       \/ Execute(c, s)
       \/ \E verified \in BOOLEAN : Verify(c, s, verified)
       \/ Delete(c, s)
  \/ \E outcome \in DOMAIN SubmissionAfter : Send(c, outcome)
  \/ Commit(c)
  \/ Abort(c)

Environment ==
  \E o \in Opportunities :
    \/ \E target \in OpportunityStatuses : MoveOpportunity(o, target)
    \/ \E eligible \in BOOLEAN : Qualify(o, eligible)
    \/ Reprice(o)

Next == Environment \/ \E c \in Clients : ClientStep(c)

Spec == Init /\ [][Next]_vars

-----------------------------------------------------------------------------
(***************************************************************************)
(* Properties.                                                             *)
(***************************************************************************)

\* "Nothing is sent without a recorded approval": past the gate a row names an
\* approver who did approve that very submission, whatever partial writes of
\* racing requests have been merged into it (transition, execute, the CHECK).
ApprovalGate ==
  \A s \in Submissions :
    row[s].status \in ApprovalRequired =>
      \E a \in approvals : a.sub = s /\ a.by = row[s].by

\* A provider is only ever called for a submission somebody has approved, even
\* when the call is not followed by a commit (execute).
SentHadApproval ==
  \A c \in Clients :
    req[c].op = "executed" => \E a \in approvals : a.sub = req[c].sub

\* "The content that was signed off is the content that is sent" (update,
\* approve, execute).
SentWasApproved ==
  \A c \in Clients : req[c].op = "executed" => req[c].old.at = req[c].old.text

\* Terminal statuses "cannot be left": a verified or rejected submission stays
\* so until it is deleted, also when another request had loaded it before.
TerminalIsFinal ==
  [][\A s \in Submissions :
       row[s].status \in {"VERIFIED", "REJECTED"} =>
         row'[s].status \in {row[s].status, "DELETED"}]_vars

\* Taken one at a time, requests are refused by their own checks and not by a
\* database constraint, but for a failed submission that is made READY while
\* another one is live, and for a pricing corrected during a creation.
RefusedByService ==
  \A c \in Clients :
    Ready(c) /\ ~Allowed(c) =>
      \/ req[c].op = "update" /\ req[c].old.status = "FAILED"
      \/ req[c].op = "create" /\ ~free[For[req[c].sub]]

\* Taken one at a time, requests move a submission as the table says.
Workflow == INSTANCE SubmissionWorkflow WITH stage <- [s \in Submissions |-> row[s].status]
ImplementsWorkflow == Workflow!WorkflowSpec

=============================================================================
