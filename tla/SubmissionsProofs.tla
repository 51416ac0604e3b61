-------------------------- MODULE SubmissionsProofs --------------------------
(***************************************************************************)
(* What TLAPS proves of Submissions, for every number of submissions,      *)
(* opportunities, approvers and contents; the last two theorems are about  *)
(* requests that are taken one at a time.                                  *)
(***************************************************************************)
EXTENDS Submissions, TLAPS

-----------------------------------------------------------------------------
(***************************************************************************)
(* The tables.                                                             *)
(***************************************************************************)

LEMMA StatusNames ==
  SubmissionStatuses = {"READY", "IN_PROGRESS", "PENDING_APPROVAL", "SUBMITTED", "FAILED",
                        "VERIFICATION_PENDING", "PUBLISHED", "VERIFIED", "REJECTED"}
BY DEF SubmissionStatuses, Transitions

\* Both tables are closed, and so is what execute makes of an outcome.
LEMMA TablesAreClosed ==
  /\ \A from \in SubmissionStatuses : Transitions[from] \subseteq SubmissionStatuses
  /\ \A from \in OpportunityStatuses : OpportunityTransitions[from] \subseteq OpportunityStatuses
  /\ \A outcome \in DOMAIN SubmissionAfter :
       /\ SubmissionAfter[outcome] \in {"SUBMITTED", "FAILED", "PUBLISHED", "VERIFICATION_PENDING"}
       /\ OpportunityAfter[outcome] \in OpportunityStatuses
  /\ ApprovalRequired \subseteq Live
  /\ Live \subseteq SubmissionStatuses
  /\ "ABSENT" \notin SubmissionStatuses
  /\ "DELETED" \notin SubmissionStatuses
BY DEF SubmissionStatuses, Transitions, OpportunityStatuses, OpportunityTransitions,
       SubmissionAfter, OpportunityAfter, ApprovalRequired, Live, Retryable

-----------------------------------------------------------------------------
(***************************************************************************)
(* The shape of a step: it begins a request, or ends one, or calls the     *)
(* provider, or is one of the other services'.                             *)
(***************************************************************************)

\* What a request may make of the row it has loaded.
Computes(op, old, new) ==
  \/ /\ op = "create"
     /\ old.status = "ABSENT"
     /\ \E text \in Contents : new = Unapproved("READY", text)
  \/ /\ op = "update"
     /\ old.status = "PENDING_APPROVAL"
     /\ \E text \in Contents : new = Unapproved("IN_PROGRESS", text)
  \/ /\ op = "update"
     /\ old.status \in {"READY", "IN_PROGRESS"}
     /\ \E text \in Contents : new = [old EXCEPT !.text = text]
  \/ /\ op = "update"
     /\ old.status \in SubmissionStatuses
     /\ \E target \in Transitions[old.status] :
          /\ target \in ApprovalRequired => old.by # NoOne
          /\ new = [old EXCEPT !.status = target]
  \/ /\ op = "update"
     /\ old.status \in {"READY", "IN_PROGRESS"}
     /\ new = [old EXCEPT !.status = "PENDING_APPROVAL"]
  \/ /\ op = "approve"
     /\ old.status = "PENDING_APPROVAL"
     /\ \E user \in Approvers : new = [old EXCEPT !.by = user, !.at = old.text]
  \/ /\ op = "execute"
     /\ old.status = "PENDING_APPROVAL"
     /\ old.by # NoOne
     /\ new = old
  \/ /\ op = "update"
     /\ old.status \in {"SUBMITTED", "VERIFICATION_PENDING", "PUBLISHED"}
     /\ \/ new = [old EXCEPT !.status = "VERIFIED"]
        \/ new = [old EXCEPT !.status = "VERIFICATION_PENDING"]
        \/ new = old
  \/ /\ op = "delete"
     /\ old.status \in SubmissionStatuses
     /\ new = Unapproved("DELETED", Never)

Begins(c) ==
  \E op \in Ops, s \in Submissions, new \in Rows :
    /\ Begin(c, op, s, new)
    /\ Computes(op, row[s], new)
    /\ op = "create" => LiveOf(For[s]) = {}

LEMMA OnlyApprovalIsSent ==
  \A from \in SubmissionStatuses : CanTransition(from, "SUBMITTED") => from = "PENDING_APPROVAL"
BY DEF SubmissionStatuses, Transitions, CanTransition

LEMMA StepShape ==
  ASSUME TypeOK, [Next]_vars
  PROVE  \/ \E c \in Clients :
              \/ Begins(c)
              \/ \E outcome \in DOMAIN SubmissionAfter : Send(c, outcome)
              \/ Commit(c)
              \/ Abort(c)
         \/ Environment
         \/ UNCHANGED vars
<1> USE DEF Ops, Rows, Unapproved
<1>0. /\ \A s \in Submissions : row[s] \in Rows
      /\ Contents \subseteq Contents \cup {Never}
  BY DEF TypeOK
<1>1. ASSUME NEW c \in Clients, NEW s \in Submissions, NEW text \in Contents, Create(c, s, text)
      PROVE  Begins(c)
  <2>1. Unapproved("READY", text) \in Rows
    BY StatusNames
  <2>2. /\ Begin(c, "create", s, Unapproved("READY", text))
        /\ Computes("create", row[s], Unapproved("READY", text))
    BY <1>1 DEF Create, Computes
  <2> QED
    BY <1>1, <2>1, <2>2 DEF Create, Begins
<1>2. ASSUME NEW c \in Clients, NEW s \in Submissions, NEW text \in Contents, Edit(c, s, text)
      PROVE  Begins(c)
  <2> DEFINE new == IF row[s].status = "PENDING_APPROVAL" THEN Unapproved("IN_PROGRESS", text)
                                                          ELSE [row[s] EXCEPT !.text = text]
  <2>1. new \in Rows
    BY <1>0, StatusNames
  <2>2. Begin(c, "update", s, new) /\ Computes("update", row[s], new)
    BY <1>2 DEF Edit, Computes
  <2> QED
    BY <2>1, <2>2 DEF Begins
<1>3. ASSUME NEW c \in Clients, NEW s \in Submissions, NEW target \in SubmissionStatuses,
             Transition(c, s, target)
      PROVE  Begins(c)
  <2> DEFINE new == [row[s] EXCEPT !.status = target]
  <2>1. new \in Rows
    BY <1>0
  <2>2. Begin(c, "update", s, new) /\ Computes("update", row[s], new)
    BY <1>3 DEF Transition, Computes, CanTransition, Exists
  <2> QED
    BY <2>1, <2>2 DEF Begins
<1>4. ASSUME NEW c \in Clients, NEW s \in Submissions, PrepareForReview(c, s)
      PROVE  Begins(c)
  <2> DEFINE new == [row[s] EXCEPT !.status = "PENDING_APPROVAL"]
  <2>1. new \in Rows
    BY <1>0, StatusNames
  <2>2. Begin(c, "update", s, new) /\ Computes("update", row[s], new)
    BY <1>4 DEF PrepareForReview, Computes
  <2> QED
    BY <2>1, <2>2 DEF Begins
<1>5. ASSUME NEW c \in Clients, NEW s \in Submissions, NEW user \in Approvers, Approve(c, s, user)
      PROVE  Begins(c)
  <2> DEFINE new == [row[s] EXCEPT !.by = user, !.at = row[s].text]
  <2>1. new \in Rows
    BY <1>0
  <2>2. Begin(c, "approve", s, new) /\ Computes("approve", row[s], new)
    BY <1>5 DEF Approve, Computes
  <2> QED
    BY <2>1, <2>2 DEF Begins
<1>6. ASSUME NEW c \in Clients, NEW s \in Submissions, Execute(c, s)
      PROVE  Begins(c)
  BY <1>0, <1>6, OnlyApprovalIsSent DEF Execute, Begins, Computes, Exists
<1>7. ASSUME NEW c \in Clients, NEW s \in Submissions, NEW verified \in BOOLEAN,
             Verify(c, s, verified)
      PROVE  Begins(c)
  <2>1. PICK new : /\ Begin(c, "update", s, new)
                   /\ \/ new = [row[s] EXCEPT !.status = "VERIFIED"]
                      \/ new = [row[s] EXCEPT !.status = "VERIFICATION_PENDING"]
                      \/ new = row[s]
    BY <1>0, <1>7 DEF Verify
  <2>2. new \in Rows
    BY <1>0, <2>1, StatusNames
  <2>3. Computes("update", row[s], new)
    BY <1>7, <2>1 DEF Verify, Computes
  <2> QED
    BY <2>1, <2>2, <2>3 DEF Begins
<1>8. ASSUME NEW c \in Clients, NEW s \in Submissions, Delete(c, s)
      PROVE  Begins(c)
  <2>1. Unapproved("DELETED", Never) \in Rows
    OBVIOUS
  <2> QED
    BY <1>8, <2>1 DEF Delete, Begins, Computes, Exists
<1> QED
  BY <1>1, <1>2, <1>3, <1>4, <1>5, <1>6, <1>7, <1>8 DEF Next, ClientStep

-----------------------------------------------------------------------------
(***************************************************************************)
(* Types.                                                                  *)
(***************************************************************************)

\* A request under way holds what Computes allows, or has had the answer of its
\* provider since.
Sent(r) ==
  /\ r.op = "executed"
  /\ r.old.status = "PENDING_APPROVAL"
  /\ r.old.by # NoOne
  /\ \E status \in {"SUBMITTED", "FAILED", "PUBLISHED", "VERIFICATION_PENDING"} :
       r.new = [r.old EXCEPT !.status = status]

RequestShape ==
  \A c \in Clients : req[c] # Idle => Computes(req[c].op, req[c].old, req[c].new) \/ Sent(req[c])

TypeInv == TypeOK /\ RequestShape

LEMMA Pending ==
  ASSUME TypeOK, NEW c \in Clients, req[c] # Idle
  PROVE  /\ req[c] \in Requests
         /\ req[c].sub \in Submissions
         /\ req[c].old \in Rows
         /\ req[c].new \in Rows
         /\ req[c].move \in Moves
BY DEF TypeOK, Requests

LEMMA MergeIsARow ==
  ASSUME NEW current \in Rows, NEW old \in Rows, NEW new \in Rows
  PROVE  Merge(current, old, new) \in Rows
BY DEF Merge, Column, Rows

LEMMA WrittenIsARow ==
  ASSUME TypeOK, NEW c \in Clients, req[c] # Idle
  PROVE  Written(c) \in Rows
<1>1. row[req[c].sub] \in Rows
  BY Pending DEF TypeOK
<1> QED
  BY <1>1, Pending, MergeIsARow DEF Written

LEMMA ReadyIsPending ==
  ASSUME NEW c, Ready(c)
  PROVE  req[c] # Idle
BY DEF Ready, Idle

\* Only an approval changes the approver to somebody.
LEMMA OnlyApproveNames ==
  ASSUME TypeInv, NEW c \in Clients, req[c] # Idle
  PROVE  /\ req[c].op = "approve" => req[c].new.by \in Approvers
         /\ req[c].op # "approve" => req[c].new.by \in {req[c].old.by, NoOne}
<1>1. req[c].old \in Rows /\ req[c].new \in Rows
  BY Pending DEF TypeInv
<1>2. ASSUME NEW op, NEW old \in Rows, NEW new \in Rows, Computes(op, old, new)
      PROVE  /\ op = "approve" => new.by \in Approvers
             /\ op # "approve" => new.by \in {old.by, NoOne}
  <2>1. CASE op = "approve"
    BY <1>2, <2>1 DEF Computes, Rows
  <2>0. \A status, text : Unapproved(status, text).by = NoOne
    BY DEF Unapproved
  <2>2. CASE op = "create" \/ op = "delete" \/ op = "execute"
    BY <1>2, <2>0, <2>2 DEF Computes
  <2>3. CASE op = "update"
    <3>1. ASSUME NEW text, new = Unapproved("IN_PROGRESS", text) \/ new = [old EXCEPT !.text = text]
          PROVE  new.by \in {old.by, NoOne}
      BY <2>0, <3>1 DEF Rows
    <3>2. ASSUME NEW status, new = [old EXCEPT !.status = status]
          PROVE  new.by = old.by
      BY <3>2 DEF Rows
    <3> QED
      BY <1>2, <2>3, <3>1, <3>2 DEF Computes
  <2> QED
    BY <1>2, <2>1, <2>2, <2>3 DEF Computes
<1>3. CASE Sent(req[c])
  BY <1>1, <1>3 DEF Sent, Rows
<1> QED
  BY <1>1, <1>2, <1>3 DEF TypeInv, RequestShape

LEMMA SendStep ==
  ASSUME TypeInv, NEW c \in Clients, NEW outcome \in DOMAIN SubmissionAfter, Send(c, outcome)
  PROVE  /\ req'[c] \in Requests
         /\ req'[c].op = "executed"
         /\ req'[c].sub = req[c].sub
         /\ req'[c].old = req[c].old
         /\ Sent(req'[c])
         /\ \A d \in Clients : d # c => req'[d] = req[d]
<1> DEFINE o == For[req[c].sub]
           move == [from |-> opp[o], to |-> Advance(opp[o], OpportunityAfter[outcome])]
           status == SubmissionAfter[outcome]
<1>1. req[c] # Idle /\ req[c].op = "execute"
  BY DEF Send, Idle
<1>2. req[c] \in Requests /\ req[c].old \in Rows /\ req[c].sub \in Submissions
  BY <1>1, Pending DEF TypeInv
<1>3. move \in Moves
  <2>1. opp[o] \in OpportunityStatuses
    BY <1>2, SubmissionsAssumption DEF TypeInv, TypeOK
  <2> QED
    BY <2>1, TablesAreClosed DEF Moves, Advance
<1>4. /\ status \in {"SUBMITTED", "FAILED", "PUBLISHED", "VERIFICATION_PENDING"}
      /\ status \in SubmissionStatuses
  BY TablesAreClosed, StatusNames
<1>5. /\ req[c].new = req[c].old
      /\ req[c].old.status = "PENDING_APPROVAL"
      /\ req[c].old.by # NoOne
  BY <1>1 DEF TypeInv, RequestShape, Computes, Sent
<1>6. req' = [req EXCEPT ![c].op = "executed", ![c].new.status = status, ![c].move = move]
  BY DEF Send
<1>7. req'[c] = [op |-> "executed", sub |-> req[c].sub, old |-> req[c].old,
                 new |-> [req[c].old EXCEPT !.status = status], move |-> move]
  BY <1>2, <1>5, <1>6 DEF TypeInv, TypeOK, Requests
<1>8. [req[c].old EXCEPT !.status = status] \in Rows
  BY <1>2, <1>4 DEF Rows
<1>9. req'[c] \in Requests
  BY <1>2, <1>3, <1>7, <1>8 DEF Requests, Ops
<1>10. Sent(req'[c])
  BY <1>4, <1>5, <1>7 DEF Sent
<1> QED
  BY <1>6, <1>7, <1>9, <1>10 DEF TypeInv, TypeOK

LEMMA TypeInvStep == TypeInv /\ [Next]_vars => TypeInv'
<1> SUFFICES ASSUME TypeInv, [Next]_vars
             PROVE  TypeInv'
  OBVIOUS
<1>0. TypeOK
  BY DEF TypeInv
<1>1. ASSUME NEW c \in Clients, Begins(c)
      PROVE  TypeInv'
  <2>1. PICK op \in Ops, s \in Submissions, new \in Rows :
          Begin(c, op, s, new) /\ Computes(op, row[s], new)
    BY <1>1 DEF Begins
  <2>2. [op |-> op, sub |-> s, old |-> row[s], new |-> new, move |-> Stay] \in Requests
    BY <1>0, <2>1 DEF TypeOK, Requests, Stay, Moves, OpportunityStatuses, OpportunityTransitions
  <2>3. TypeOK'
    BY <1>0, <2>1, <2>2 DEF TypeOK, Begin
  <2>4. RequestShape'
    BY <1>0, <2>1, SMTT(30) DEF TypeInv, TypeOK, RequestShape, Begin, Sent
  <2> QED
    BY <2>3, <2>4 DEF TypeInv
<1>2. ASSUME NEW c \in Clients, NEW outcome \in DOMAIN SubmissionAfter, Send(c, outcome)
      PROVE  TypeInv'
  <2>1. req' \in [Clients -> Requests \cup {Idle}]
    BY <1>0, <1>2, SendStep DEF Send, TypeOK
  <2>2. TypeOK'
    BY <1>0, <1>2, <2>1 DEF Send, TypeOK
  <2>3. RequestShape'
    BY <1>2, SendStep DEF TypeInv, RequestShape
  <2> QED
    BY <2>2, <2>3 DEF TypeInv
<1>3. ASSUME NEW c \in Clients, Commit(c)
      PROVE  TypeInv'
  <2>1. req[c] # Idle
    BY <1>3, ReadyIsPending DEF Commit
  <2>2. Written(c) \in Rows
    BY <1>0, <2>1, WrittenIsARow
  <2>3. opp' \in [Opportunities -> OpportunityStatuses]
    BY <1>0, <1>3, <2>1, Pending DEF Commit, TypeOK, Column, Moves
  <2>4. approvals' \subseteq Approvals
    <3>1. CASE req[c].op = "approve"
      <4>1. [sub |-> req[c].sub, by |-> req[c].new.by] \in Approvals
        BY <1>0, <2>1, <3>1, OnlyApproveNames, Pending DEF Approvals
      <4> QED
        BY <1>0, <1>3, <3>1, <4>1 DEF Commit, TypeOK
    <3>2. CASE req[c].op # "approve"
      BY <1>0, <1>3, <3>2 DEF Commit, TypeOK
    <3> QED
      BY <3>1, <3>2
  <2>5. TypeOK'
    BY <1>0, <1>3, <2>2, <2>3, <2>4 DEF Commit, TypeOK
  <2>6. RequestShape'
    BY <1>0, <1>3 DEF Commit, TypeInv, TypeOK, RequestShape
  <2> QED
    BY <2>5, <2>6 DEF TypeInv
<1>4. ASSUME NEW c \in Clients, Abort(c)
      PROVE  TypeInv'
  <2>1. TypeOK'
    BY <1>0, <1>4 DEF Abort, TypeOK
  <2>2. RequestShape'
    BY <1>0, <1>4 DEF Abort, TypeInv, TypeOK, RequestShape
  <2> QED
    BY <2>1, <2>2 DEF TypeInv
<1>5. CASE Environment
  <2>1. opp' \in [Opportunities -> OpportunityStatuses]
    BY <1>0, <1>5, TablesAreClosed
       DEF Environment, MoveOpportunity, Qualify, Reprice, TypeOK, OpportunityStatuses,
           OpportunityTransitions
  <2>2. free' \in [Opportunities -> BOOLEAN]
    BY <1>0, <1>5 DEF Environment, MoveOpportunity, Qualify, Reprice, TypeOK
  <2>3. meddling' \in 0..MaxMeddling /\ UNCHANGED <<row, req, approvals>>
    BY <1>0, <1>5, SubmissionsAssumption
       DEF Environment, MoveOpportunity, Qualify, Reprice, Meddle, TypeOK
  <2> QED
    BY <2>1, <2>2, <2>3 DEF TypeInv, TypeOK, RequestShape
<1>6. CASE UNCHANGED vars
  BY <1>6 DEF vars, TypeInv, TypeOK, RequestShape
<1> QED
  BY <1>0, <1>1, <1>2, <1>3, <1>4, <1>5, <1>6, StepShape

LEMMA TypeInvInit == Init => TypeInv
<1> SUFFICES ASSUME Init
             PROVE  TypeInv
  OBVIOUS
<1>1. row \in [Submissions -> Rows]
  BY DEF Init, Rows, Unapproved
<1>2. opp \in [Opportunities -> OpportunityStatuses]
  BY DEF Init, OpportunityStatuses, OpportunityTransitions
<1> QED
  BY <1>1, <1>2, SubmissionsAssumption DEF Init, TypeInv, TypeOK, RequestShape

\* Every state is typed: in particular nobody who does not hold the permission
\* to approve is ever recorded as an approver.
THEOREM TypeCorrect == Spec => []TypeOK
<1>1. TypeInv => TypeOK
  BY DEF TypeInv
<1> QED
  BY TypeInvInit, TypeInvStep, <1>1, PTL DEF Spec

-----------------------------------------------------------------------------
(***************************************************************************)
(* The approval gate.  An approver gets into a row only by the commit of   *)
(* an approval, or by not being overwritten; so whoever is named by a row, *)
(* or by what a request has loaded of it, has approved that submission.    *)
(***************************************************************************)

Approved(s, user) == \E a \in approvals : a.sub = s /\ a.by = user

GateInv ==
  /\ \A s \in Submissions : row[s].by # NoOne => Approved(s, row[s].by)
  /\ \A c \in Clients :
       req[c] # Idle /\ req[c].old.by # NoOne => Approved(req[c].sub, req[c].old.by)
  /\ \A s \in Submissions : row[s].status \in ApprovalRequired => row[s].by # NoOne

\* The approver a commit writes: of the row, of the approval, or nobody.
LEMMA WrittenApprover ==
  ASSUME TypeInv, NEW c \in Clients, req[c] # Idle
  PROVE  \/ Written(c).by = row[req[c].sub].by
         \/ Written(c).by = NoOne
         \/ Written(c).by = req[c].new.by /\ req[c].op = "approve"
<1>1. TypeOK
  BY DEF TypeInv
<1>2. Written(c).by \in {req[c].new.by, row[req[c].sub].by}
  BY DEF Written, Merge, Column
<1>3. CASE req[c].op = "approve"
  BY <1>2, <1>3
<1>4. CASE req[c].op # "approve" /\ req[c].new.by = NoOne
  BY <1>2, <1>4
<1>5. CASE req[c].op = "delete"
  <2>1. req[c].new = Unapproved("DELETED", Never)
    BY <1>5 DEF TypeInv, RequestShape, Computes, Sent
  <2> QED
    BY <1>5, <2>1 DEF Written, Unapproved
<1>6. CASE req[c].op # "delete" /\ req[c].new.by = req[c].old.by
  BY <1>6 DEF Written, Merge, Column
<1> QED
  BY <1>3, <1>4, <1>5, <1>6, OnlyApproveNames

LEMMA GateInvStep == TypeInv /\ GateInv /\ [Next]_vars => GateInv'
<1> SUFFICES ASSUME TypeInv, GateInv, [Next]_vars
             PROVE  GateInv'
  OBVIOUS
<1>0. TypeOK
  BY DEF TypeInv
<1>1. ASSUME NEW c \in Clients, Begins(c)
      PROVE  GateInv'
  <2>1. PICK op \in Ops, s \in Submissions, new \in Rows : Begin(c, op, s, new)
    BY <1>1 DEF Begins
  <2>2. /\ \A d \in Clients : d # c => req'[d] = req[d]
        /\ req'[c].old = row[s]
        /\ req'[c].sub = s
    BY <1>0, <2>1 DEF Begin, TypeOK
  <2>3. UNCHANGED <<row, approvals>>
    BY <2>1 DEF Begin
  <2> QED
    BY <2>2, <2>3 DEF GateInv, Approved
<1>2. ASSUME NEW c \in Clients, NEW outcome \in DOMAIN SubmissionAfter, Send(c, outcome)
      PROVE  GateInv'
  <2>1. UNCHANGED <<row, approvals>> /\ req[c] # Idle
    BY <1>2 DEF Send, Idle
  <2> QED
    BY <1>2, <2>1, SendStep DEF GateInv, Approved
<1>3. ASSUME NEW c \in Clients, Commit(c)
      PROVE  GateInv'
  <2>1. req[c] # Idle /\ req[c].sub \in Submissions
    BY <1>0, <1>3, ReadyIsPending, Pending DEF Commit
  <2>2. \A s \in Submissions : row'[s] = IF s = req[c].sub THEN Written(c) ELSE row[s]
    BY <1>0, <1>3 DEF Commit, TypeOK
  <2>3. approvals \subseteq approvals'
    BY <1>3 DEF Commit
  <2>4. req[c].op = "approve" => [sub |-> req[c].sub, by |-> req[c].new.by] \in approvals'
    BY <1>3 DEF Commit
  <2>5. ApprovalCheck(Written(c))
    BY <1>3 DEF Commit, Allowed
  <2>6. \A s \in Submissions :
          row'[s].by # NoOne => \E a \in approvals' : a.sub = s /\ a.by = row'[s].by
    <3> SUFFICES ASSUME NEW s \in Submissions, row'[s].by # NoOne
                 PROVE  \E a \in approvals' : a.sub = s /\ a.by = row'[s].by
      OBVIOUS
    <3>1. CASE s # req[c].sub \/ Written(c).by = row[s].by
      <4>1. row'[s].by = row[s].by
        BY <2>2, <3>1
      <4> QED
        BY <2>3, <4>1 DEF GateInv, Approved
    <3>2. CASE s = req[c].sub /\ Written(c).by # row[s].by
      <4>1. req[c].op = "approve" /\ Written(c).by = req[c].new.by
        BY <2>1, <2>2, <3>2, WrittenApprover
      <4> QED
        BY <2>2, <2>4, <3>2, <4>1
    <3> QED
      BY <3>1, <3>2
  <2>7. \A d \in Clients : req'[d] # Idle => req'[d] = req[d]
    BY <1>0, <1>3 DEF Commit, TypeOK
  <2>8. \A d \in Clients :
          req'[d] # Idle /\ req'[d].old.by # NoOne =>
            \E a \in approvals' : a.sub = req'[d].sub /\ a.by = req'[d].old.by
    BY <2>3, <2>7 DEF GateInv, Approved
  <2>9. \A s \in Submissions : row'[s].status \in ApprovalRequired => row'[s].by # NoOne
    BY <2>2, <2>5 DEF GateInv, ApprovalCheck
  <2> QED
    BY <2>6, <2>7, <2>8, <2>9 DEF GateInv, Approved
<1>4. ASSUME NEW c \in Clients, Abort(c)
      PROVE  GateInv'
  BY <1>0, <1>4 DEF Abort, GateInv, Approved, TypeOK
<1>5. CASE Environment
  BY <1>5 DEF Environment, MoveOpportunity, Qualify, Reprice, GateInv, Approved
<1>6. CASE UNCHANGED vars
  BY <1>6 DEF vars, GateInv, Approved
<1> QED
  BY <1>0, <1>1, <1>2, <1>3, <1>4, <1>5, <1>6, StepShape

LEMMA GateInvariant == Spec => [](TypeInv /\ GateInv)
<1>1. Init => GateInv
  BY DEF Init, GateInv, Unapproved, ApprovalRequired
<1> QED
  BY <1>1, TypeInvInit, TypeInvStep, GateInvStep, PTL DEF Spec

\* However the requests of any number of clients interleave, a row past the gate
\* names somebody who approved that submission.
THEOREM GateHolds == Spec => []ApprovalGate
<1>1. GateInv => ApprovalGate
  BY DEF GateInv, ApprovalGate, Approved
<1> QED
  BY GateInvariant, <1>1, PTL

\* And no provider is called for a submission that nobody has approved.
THEOREM NothingSentUnapproved == Spec => []SentHadApproval
<1>1. TypeInv /\ GateInv => SentHadApproval
  <2> SUFFICES ASSUME TypeInv, GateInv, NEW c \in Clients, req[c].op = "executed"
               PROVE  \E a \in approvals : a.sub = req[c].sub
    BY DEF SentHadApproval
  <2>1. req[c] # Idle
    BY DEF Idle
  <2>2. req[c].old.by # NoOne
    BY <2>1 DEF TypeInv, RequestShape, Computes, Sent
  <2> QED
    BY <2>1, <2>2 DEF GateInv, Approved
<1> QED
  BY GateInvariant, <1>1, PTL

-----------------------------------------------------------------------------
(***************************************************************************)
(* One live submission per opportunity, whatever the requests had checked. *)
(***************************************************************************)
OneLive ==
  \A s, t \in Submissions :
    For[s] = For[t] /\ row[s].status \in Live /\ row[t].status \in Live => s = t

LEMMA OneLiveStep == TypeInv /\ OneLive /\ [Next]_vars => OneLive'
<1> SUFFICES ASSUME TypeInv, OneLive, [Next]_vars
             PROVE  OneLive'
  OBVIOUS
<1>1. ASSUME NEW c \in Clients, Commit(c)
      PROVE  OneLive'
  <2>1. \A s \in Submissions : row'[s] = IF s = req[c].sub THEN Written(c) ELSE row[s]
    BY <1>1 DEF Commit, TypeInv, TypeOK
  <2>2. LiveIsUnique(req[c].sub, Written(c))
    BY <1>1 DEF Commit, Allowed
  <2> QED
    BY <2>1, <2>2 DEF OneLive, LiveIsUnique, LiveOf
<1>2. CASE UNCHANGED row
  BY <1>2 DEF OneLive
<1> QED
  BY <1>1, <1>2, StepShape
     DEF TypeInv, Begins, Begin, Send, Abort, Environment, MoveOpportunity, Qualify, Reprice, vars

-----------------------------------------------------------------------------
(***************************************************************************)
(* Requests taken one at a time.  What a request has loaded is still what  *)
(* is in the table when it commits, so its own checks decide.              *)
(***************************************************************************)

\* A row names an approver and a time of the approval, or neither; it has some
\* content as long as it exists.
WellFormed(r) ==
  /\ r.by # NoOne => r.at # Never
  /\ r.status \in SubmissionStatuses => r.text \in Contents

SerialInv ==
  /\ \A s \in Submissions : WellFormed(row[s])
  /\ \A c \in Clients : req[c] # Idle =>
       /\ row[req[c].sub] = req[c].old
       /\ req[c].op = "create" => LiveOf(For[req[c].sub]) = {}

\* What a request computes from a well-formed row is well formed.
LEMMA ComputesWellFormed ==
  ASSUME NEW op, NEW old \in Rows, NEW new \in Rows, Computes(op, old, new), WellFormed(old)
  PROVE  WellFormed(new)
<1> USE SubmissionsAssumption, TablesAreClosed DEF WellFormed
<1>1. \A status, text : /\ Unapproved(status, text).status = status
                        /\ Unapproved(status, text).by = NoOne
                        /\ Unapproved(status, text).text = text
  BY DEF Unapproved
<1>2. ASSUME NEW text \in Contents,
             new = Unapproved("IN_PROGRESS", text) \/ new = [old EXCEPT !.text = text]
      PROVE  WellFormed(new)
  BY <1>1, <1>2 DEF Rows
<1>3. ASSUME old.status \in SubmissionStatuses, NEW status, new = [old EXCEPT !.status = status]
      PROVE  WellFormed(new)
  BY <1>3 DEF Rows
<1>4. ASSUME old.status = "PENDING_APPROVAL", NEW user,
             new = [old EXCEPT !.by = user, !.at = old.text]
      PROVE  WellFormed(new)
  BY <1>4, StatusNames DEF Rows
<1>5. CASE op = "update"
  <2>1. old.status \in {"READY", "IN_PROGRESS", "PENDING_APPROVAL", "SUBMITTED",
                       "VERIFICATION_PENDING", "PUBLISHED"} => old.status \in SubmissionStatuses
    BY StatusNames
  <2>2. \/ \E text \in Contents :
             new = Unapproved("IN_PROGRESS", text) \/ new = [old EXCEPT !.text = text]
        \/ old.status \in SubmissionStatuses /\ \E status : new = [old EXCEPT !.status = status]
        \/ new = old
    BY <1>5, <2>1 DEF Computes
  <2> HIDE DEF WellFormed
  <2> QED
    BY <1>2, <1>3, <2>2
<1>6. CASE op = "approve"
  BY <1>4, <1>6 DEF Computes
<1>7. CASE op = "create"
  <2>1. PICK text \in Contents : new = Unapproved("READY", text)
    BY <1>7 DEF Computes
  <2> QED
    BY <1>1, <2>1
<1>8. CASE op = "delete"
  <2>1. new = Unapproved("DELETED", Never)
    BY <1>8 DEF Computes
  <2> QED
    BY <1>1, <2>1
<1>9. CASE op = "execute"
  BY <1>9 DEF Computes
<1> QED
  BY <1>5, <1>6, <1>7, <1>8, <1>9 DEF Computes

\* So what it commits is what it has computed.
LEMMA WrittenIsComputed ==
  ASSUME TypeInv, SerialInv, NEW c \in Clients, Ready(c)
  PROVE  /\ Written(c) = req[c].new
         /\ WellFormed(req[c].new)
         /\ WellFormed(req[c].old)
<1>1. /\ req[c] # Idle
      /\ req[c].sub \in Submissions
      /\ req[c].old \in Rows
      /\ req[c].new \in Rows
      /\ row[req[c].sub] = req[c].old
  BY ReadyIsPending, Pending DEF TypeInv, SerialInv
<1>2. Merge(req[c].old, req[c].old, req[c].new) = req[c].new
  BY <1>1 DEF Merge, Column, Rows
<1>3. WellFormed(req[c].old)
  BY <1>1 DEF SerialInv
<1>4. WellFormed(req[c].new)
  <2>1. CASE Sent(req[c])
    BY <1>1, <1>3, <2>1, StatusNames DEF Sent, WellFormed, Rows
  <2>2. CASE Computes(req[c].op, req[c].old, req[c].new)
    BY <1>1, <1>3, <2>2, ComputesWellFormed
  <2> QED
    BY <1>1, <2>1, <2>2 DEF TypeInv, RequestShape
<1> QED
  BY <1>1, <1>2, <1>3, <1>4 DEF Written

LEMMA SerialInvStep ==
  ASSUME \A c, d \in Clients : c = d
  PROVE  TypeInv /\ SerialInv /\ [Next]_vars => SerialInv'
<1> SUFFICES ASSUME TypeInv, SerialInv, [Next]_vars
             PROVE  SerialInv'
  OBVIOUS
<1>0. TypeOK
  BY DEF TypeInv
<1>1. ASSUME NEW c \in Clients, Begins(c)
      PROVE  SerialInv'
  <2>1. PICK op \in Ops, s \in Submissions, new \in Rows :
          Begin(c, op, s, new) /\ (op = "create" => LiveOf(For[s]) = {})
    BY <1>1 DEF Begins
  <2>2. /\ \A d \in Clients : req'[d].op = op /\ req'[d].sub = s /\ req'[d].old = row[s]
        /\ row' = row
    BY <1>0, <2>1 DEF Begin, TypeOK
  <2> QED
    BY <2>1, <2>2 DEF SerialInv, LiveOf
<1>2. ASSUME NEW c \in Clients, NEW outcome \in DOMAIN SubmissionAfter, Send(c, outcome)
      PROVE  SerialInv'
  <2>1. req[c] # Idle /\ row' = row
    BY <1>2 DEF Send, Idle
  <2> QED
    BY <1>2, <2>1, SendStep DEF SerialInv
<1>3. ASSUME NEW c \in Clients, Commit(c)
      PROVE  SerialInv'
  <2>1. \A d \in Clients : req'[d] = Idle
    BY <1>0, <1>3 DEF Commit, TypeOK
  <2>2. \A s \in Submissions : row'[s] = IF s = req[c].sub THEN req[c].new ELSE row[s]
    BY <1>0, <1>3, WrittenIsComputed DEF Commit, TypeOK
  <2> QED
    BY <1>3, <2>1, <2>2, WrittenIsComputed DEF SerialInv, Commit
<1>4. ASSUME NEW c \in Clients, Abort(c)
      PROVE  SerialInv'
  BY <1>0, <1>4 DEF Abort, SerialInv, TypeOK
<1>5. CASE UNCHANGED <<row, req>>
  BY <1>5 DEF SerialInv, LiveOf
<1> QED
  BY <1>0, <1>1, <1>2, <1>3, <1>4, <1>5, StepShape
     DEF Environment, MoveOpportunity, Qualify, Reprice, vars

LEMMA SerialInvariant ==
  ASSUME \A c, d \in Clients : c = d
  PROVE  Spec => [](TypeInv /\ GateInv /\ OneLive /\ SerialInv)
<1>1. Init => SerialInv
  BY TablesAreClosed DEF Init, SerialInv, WellFormed, Unapproved
<1>2. Init => OneLive
  BY TablesAreClosed DEF Init, OneLive, Unapproved
<1> QED
  BY <1>1, <1>2, TypeInvInit, TypeInvStep, SerialInvStep, OneLiveStep, GateInvariant, PTL DEF Spec

-----------------------------------------------------------------------------
(***************************************************************************)
(* Requests taken one at a time follow the table.                          *)
(***************************************************************************)

\* What one request may do to the status of a submission.
Moved(from, to) ==
  \/ to = from
  \/ from = "ABSENT" /\ to = "READY"
  \/ from \in SubmissionStatuses /\ to \in Workflow!Reachable(from)
  \/ from \in SubmissionStatuses /\ to = "DELETED"

LEMMA ReachableByEdges ==
  /\ \A from \in SubmissionStatuses : \A to :
       to \in Transitions[from] => to \in Workflow!Reachable(from)
  /\ \A from, via \in SubmissionStatuses : \A to :
       via \in Transitions[from] /\ to \in Transitions[via] => to \in Workflow!Reachable(from)
<1>1. Workflow!Transitions = Transitions
  BY DEF Workflow!Transitions, Transitions
<1> QED
  BY <1>1 DEF Workflow!Reachable

LEMMA ComputesMoves ==
  ASSUME NEW op, NEW old \in Rows, NEW new \in Rows, Computes(op, old, new)
  PROVE  Moved(old.status, new.status)
<1>1. \A status, text : Unapproved(status, text).status = status
  BY DEF Unapproved
<1>2. \A status : [old EXCEPT !.status = status].status = status
  BY DEF Rows
<1>3. \A text : [old EXCEPT !.text = text].status = old.status
  BY DEF Rows
<1>4. CASE op = "create"
  BY <1>1, <1>4 DEF Computes, Moved
<1>5. CASE op = "delete"
  BY <1>1, <1>5 DEF Computes, Moved
<1>6. CASE op = "approve"
  BY <1>6 DEF Computes, Moved, Rows
<1>7. CASE op = "execute"
  BY <1>7 DEF Computes, Moved
<1>8. CASE op = "update"
  <2>1. /\ "IN_PROGRESS" \in Transitions["PENDING_APPROVAL"] \cap Transitions["READY"]
        /\ "PENDING_APPROVAL" \in Transitions["IN_PROGRESS"]
        /\ "PUBLISHED" \in Transitions["SUBMITTED"] \cap Transitions["VERIFICATION_PENDING"]
        /\ "VERIFIED" \in Transitions["PUBLISHED"]
        /\ "VERIFICATION_PENDING" \in Transitions["SUBMITTED"] \cap Transitions["PUBLISHED"]
    BY DEF Transitions
  <2>2. CASE old.status = "PENDING_APPROVAL" /\ \E text : new = Unapproved("IN_PROGRESS", text)
    BY <1>1, <2>1, <2>2, ReachableByEdges, StatusNames DEF Moved
  <2>3. CASE \E text : new = [old EXCEPT !.text = text]
    BY <1>3, <2>3 DEF Moved
  <2>4. CASE /\ old.status \in SubmissionStatuses
             /\ \E target \in Transitions[old.status] : new = [old EXCEPT !.status = target]
    BY <1>2, <2>4, ReachableByEdges DEF Moved
  <2>5. CASE /\ old.status \in {"READY", "IN_PROGRESS"}
             /\ new = [old EXCEPT !.status = "PENDING_APPROVAL"]
    BY <1>2, <2>1, <2>5, ReachableByEdges, StatusNames DEF Moved
  <2>6. CASE /\ old.status \in {"SUBMITTED", "VERIFICATION_PENDING", "PUBLISHED"}
             /\ \/ new = [old EXCEPT !.status = "VERIFIED"]
                \/ new = [old EXCEPT !.status = "VERIFICATION_PENDING"]
                \/ new = old
    <3>1. /\ old.status \in SubmissionStatuses
          /\ new.status \in {"VERIFIED", "VERIFICATION_PENDING", old.status}
      BY <1>2, <2>6, StatusNames
    <3>2. CASE new.status = "VERIFIED"
      BY <2>1, <2>6, <3>1, <3>2, ReachableByEdges, StatusNames DEF Moved
    <3>3. CASE new.status = "VERIFICATION_PENDING"
      BY <2>1, <2>6, <3>1, <3>3, ReachableByEdges DEF Moved
    <3> QED
      BY <3>1, <3>2, <3>3 DEF Moved
  <2>7. \/ old.status = "PENDING_APPROVAL" /\ \E text : new = Unapproved("IN_PROGRESS", text)
        \/ \E text : new = [old EXCEPT !.text = text]
        \/ /\ old.status \in SubmissionStatuses
           /\ \E target \in Transitions[old.status] : new = [old EXCEPT !.status = target]
        \/ /\ old.status \in {"READY", "IN_PROGRESS"}
           /\ new = [old EXCEPT !.status = "PENDING_APPROVAL"]
        \/ /\ old.status \in {"SUBMITTED", "VERIFICATION_PENDING", "PUBLISHED"}
           /\ \/ new = [old EXCEPT !.status = "VERIFIED"]
              \/ new = [old EXCEPT !.status = "VERIFICATION_PENDING"]
              \/ new = old
    BY <1>8 DEF Computes
  <2> QED
    BY <2>2, <2>3, <2>4, <2>5, <2>6, <2>7
<1> QED
  BY <1>4, <1>5, <1>6, <1>7, <1>8 DEF Computes

LEMMA SentMoves ==
  ASSUME NEW r, r.old \in Rows, Sent(r)
  PROVE  Moved(r.old.status, r.new.status)
<1>1. /\ Transitions["PENDING_APPROVAL"] = {"SUBMITTED", "IN_PROGRESS", "REJECTED"}
      /\ "FAILED" \in Transitions["IN_PROGRESS"]
      /\ {"PUBLISHED", "VERIFICATION_PENDING"} \subseteq Transitions["SUBMITTED"]
  BY DEF Transitions
<1>2. r.new.status \in {"SUBMITTED", "FAILED", "PUBLISHED", "VERIFICATION_PENDING"}
  BY DEF Sent, Rows
<1> QED
  BY <1>1, <1>2, ReachableByEdges, StatusNames DEF Sent, Moved

\* Requests taken one at a time implement the abstract workflow: every step of
\* theirs is one of its moves, or leaves the status alone.
THEOREM SerialImplementsWorkflow ==
  ASSUME \A c, d \in Clients : c = d
  PROVE  Spec => ImplementsWorkflow
<1> DEFINE Stage == [s \in Submissions |-> row[s].status]
<1>1. Init => Workflow!WorkflowInit
  BY DEF Init, Unapproved, Workflow!WorkflowInit
<1>2. TypeInv /\ SerialInv /\ [Next]_vars => [Workflow!WorkflowNext]_Stage
  <2> SUFFICES ASSUME TypeInv, SerialInv, [Next]_vars
               PROVE  [Workflow!WorkflowNext]_Stage
    OBVIOUS
  <2>1. ASSUME NEW c \in Clients, Commit(c)
        PROVE  [Workflow!WorkflowNext]_Stage
    <3>1. req[c] # Idle /\ Ready(c)
      BY <2>1, ReadyIsPending DEF Commit
    <3>2. PICK s \in Submissions : s = req[c].sub
      BY <3>1, Pending DEF TypeInv
    <3>3. row' = [row EXCEPT ![s] = req[c].new]
      BY <2>1, <3>1, <3>2, WrittenIsComputed DEF Commit
    <3>4. row[s] = req[c].old
      BY <3>1, <3>2 DEF SerialInv
    <3>5. PICK to : to = req[c].new.status
      OBVIOUS
    <3>6. Moved(row[s].status, to)
      BY <3>1, <3>4, <3>5, Pending, ComputesMoves, SentMoves DEF TypeInv, RequestShape
    <3>7. Stage' = [Stage EXCEPT ![s] = to]
      BY <3>3, <3>5 DEF TypeInv, TypeOK
    <3>8. CASE to = row[s].status
      BY <3>7, <3>8
    <3>9. CASE to # row[s].status
      BY <3>6, <3>7, <3>9
         DEF Moved, Workflow!WorkflowNext, Workflow!Start, Workflow!Move, Workflow!Remove,
             Workflow!SubmissionStatuses, Workflow!Transitions, SubmissionStatuses, Transitions
    <3> QED
      BY <3>8, <3>9
  <2>2. CASE UNCHANGED row
    BY <2>2
  <2> QED
    BY <2>1, <2>2, StepShape
       DEF TypeInv, Begins, Begin, Send, Abort, Environment, MoveOpportunity, Qualify, Reprice, vars
<1> QED
  BY <1>1, <1>2, SerialInvariant, PTL DEF Spec, ImplementsWorkflow, Workflow!WorkflowSpec


\* Taken one at a time, requests leave a terminal status alone: what revives a
\* verified or rejected submission is the overlap of two (TerminalIsFinal,
\* submissions/workflow.py).
THEOREM SerialTerminalIsFinal ==
  ASSUME \A c, d \in Clients : c = d
  PROVE  Spec => TerminalIsFinal
<1> DEFINE Stage == [s \in Submissions |-> row[s].status]
           Stays == \A s \in Submissions :
                      row[s].status \in {"VERIFIED", "REJECTED"} =>
                        row'[s].status \in {row[s].status, "DELETED"}
<1>1. TypeInv /\ TypeInv' /\ [Workflow!WorkflowNext]_Stage => [Stays]_vars
  <2> SUFFICES ASSUME TypeInv, TypeInv', [Workflow!WorkflowNext]_Stage
               PROVE  Stays
    OBVIOUS
  <2>1. \A s \in Submissions : Stage[s] = row[s].status /\ Stage'[s] = row'[s].status
    OBVIOUS
  <2>2. \A s \in Submissions : Stage[s] \in {"VERIFIED", "REJECTED"} =>
          Stage'[s] \in {Stage[s], "DELETED"}
    <3>1. CASE UNCHANGED Stage
      BY <3>1
    <3>2. ASSUME NEW s \in Submissions, NEW to, Stage' = [Stage EXCEPT ![s] = to],
                 Stage[s] \in {"VERIFIED", "REJECTED"} => to = "DELETED"
          PROVE  \A x \in Submissions : Stage[x] \in {"VERIFIED", "REJECTED"} =>
                   Stage'[x] \in {Stage[x], "DELETED"}
      BY <3>2
    <3>3. ASSUME NEW s \in Submissions, Workflow!Start(s)
          PROVE  /\ Stage' = [Stage EXCEPT ![s] = "READY"]
                 /\ Stage[s] \notin {"VERIFIED", "REJECTED"}
      BY <3>3 DEF Workflow!Start
    <3>4. ASSUME NEW s \in Submissions, Workflow!Move(s)
          PROVE  \E to : /\ Stage' = [Stage EXCEPT ![s] = to]
                         /\ Stage[s] \notin {"VERIFIED", "REJECTED"}
      <4>1. Workflow!Transitions["VERIFIED"] = {} /\ Workflow!Transitions["REJECTED"] = {}
        BY DEF Workflow!Transitions
      <4> QED BY <3>4, <4>1 DEF Workflow!Move, Workflow!Reachable
    <3>5. ASSUME NEW s \in Submissions, Workflow!Remove(s)
          PROVE  Stage' = [Stage EXCEPT ![s] = "DELETED"]
      BY <3>5 DEF Workflow!Remove
    <3> HIDE DEF Stage
    <3> QED BY <3>1, <3>2, <3>3, <3>4, <3>5 DEF Workflow!WorkflowNext
  <2> QED BY <2>1, <2>2
<1>2. Spec => [][Workflow!WorkflowNext]_Stage
  BY SerialImplementsWorkflow, PTL DEF ImplementsWorkflow, Workflow!WorkflowSpec
<1>3. Spec => [][Stays]_vars
  BY <1>1, <1>2, SerialInvariant, PTL
<1> QED
  BY <1>3, PTL DEF TerminalIsFinal

-----------------------------------------------------------------------------
(***************************************************************************)
(* Requests taken one at a time are refused by the service.                *)
(***************************************************************************)

\* A request makes no row that needs an approver without one.
LEMMA ComputesApproved ==
  ASSUME NEW op, NEW old \in Rows, NEW new \in Rows, Computes(op, old, new),
         old.status \in ApprovalRequired => old.by # NoOne,
         new.status \in ApprovalRequired
  PROVE  new.by # NoOne
<1>1. \A status, text : Unapproved(status, text).status = status
  BY DEF Unapproved
<1>2. \A status : /\ [old EXCEPT !.status = status].status = status
                  /\ [old EXCEPT !.status = status].by = old.by
  BY DEF Rows
<1>3. \A text : /\ [old EXCEPT !.text = text].status = old.status
                /\ [old EXCEPT !.text = text].by = old.by
  BY DEF Rows
<1>4. \A status \in {"READY", "IN_PROGRESS", "PENDING_APPROVAL", "DELETED"} :
        status \notin ApprovalRequired
  BY DEF ApprovalRequired
<1>5. {"SUBMITTED", "VERIFICATION_PENDING", "PUBLISHED"} \subseteq ApprovalRequired
  BY DEF ApprovalRequired
<1>6. CASE op = "create"
  BY <1>1, <1>4, <1>6 DEF Computes
<1>7. CASE op = "delete"
  <2>1. new.status = "DELETED"
    BY <1>7 DEF Computes, Unapproved
  <2> QED
    BY <1>4, <2>1
<1>8. CASE op = "approve"
  <2>1. PICK user : /\ new = [old EXCEPT !.by = user, !.at = old.text]
                    /\ old.status = "PENDING_APPROVAL"
    BY <1>8 DEF Computes
  <2>2. new.status = "PENDING_APPROVAL"
    BY <2>1 DEF Rows
  <2> QED
    BY <1>4, <2>2
<1>9. CASE op = "execute"
  BY <1>9 DEF Computes
<1>10. CASE op = "update"
  <2>1. \/ \E text : new = Unapproved("IN_PROGRESS", text)
        \/ \E text : new = [old EXCEPT !.text = text]
        \/ \E status : /\ status \in ApprovalRequired => old.by # NoOne
                       /\ new = [old EXCEPT !.status = status]
        \/ new = old
    BY <1>4, <1>5, <1>10 DEF Computes
  <2>2. CASE \E text : new = Unapproved("IN_PROGRESS", text)
    BY <1>1, <1>4, <2>2
  <2>3. CASE \E text : new = [old EXCEPT !.text = text]
    BY <1>3, <2>3
  <2>4. CASE \E status : /\ status \in ApprovalRequired => old.by # NoOne
                        /\ new = [old EXCEPT !.status = status]
    BY <1>2, <2>4
  <2> QED
    BY <2>1, <2>2, <2>3, <2>4
<1> QED
  BY <1>6, <1>7, <1>8, <1>9, <1>10 DEF Computes

\* Only a creation, or an update of a failed submission, makes a live one of
\* what was not live.
LEMMA ComputesLive ==
  ASSUME NEW op, NEW old \in Rows, NEW new \in Rows, Computes(op, old, new),
         op # "create"
  PROVE  /\ old.status \in SubmissionStatuses
         /\ new.status \in Live =>
              \/ old.status \in Live
              \/ op = "update" /\ old.status = "FAILED"
<1>1. old.status \in SubmissionStatuses
  BY StatusNames DEF Computes
<1>2. CASE op = "delete"
  <2>1. new.status = "DELETED"
    BY <1>2 DEF Computes, Unapproved
  <2> QED
    BY <1>1, <2>1, TablesAreClosed
<1>3. CASE old.status = "REJECTED" /\ op # "delete"
  <2>1. Transitions["REJECTED"] = {}
    BY DEF Transitions
  <2> QED
    BY <1>3, <2>1 DEF Computes
<1>4. CASE old.status = "FAILED" /\ op # "delete"
  BY <1>1, <1>4 DEF Computes
<1>5. CASE old.status \notin {"REJECTED", "FAILED"}
  BY <1>1, <1>5 DEF Live, Retryable
<1> QED
  BY <1>2, <1>3, <1>4, <1>5

\* Taken one at a time, requests are refused by their own checks: the database
\* only refuses to revive a failed submission, and to create under a pricing
\* that has just been corrected.
THEOREM SerialRefusedByService ==
  ASSUME \A c, d \in Clients : c = d
  PROVE  Spec => []RefusedByService
<1>1. TypeInv /\ GateInv /\ OneLive /\ SerialInv => RefusedByService
  <2> SUFFICES ASSUME TypeInv, GateInv, OneLive, SerialInv,
                      NEW c \in Clients, Ready(c),
                      ~(req[c].op = "update" /\ req[c].old.status = "FAILED"),
                      ~(req[c].op = "create" /\ ~free[For[req[c].sub]])
               PROVE  Allowed(c)
    BY DEF RefusedByService
  <2> DEFINE s == req[c].sub
             old == req[c].old
             new == req[c].new
             op == req[c].op
  <2>1. /\ req[c] # Idle
        /\ s \in Submissions
        /\ old \in Rows
        /\ new \in Rows
        /\ row[s] = old
    BY ReadyIsPending, Pending DEF TypeInv, SerialInv
  <2>2. Computes(op, old, new) \/ Sent(req[c])
    BY <2>1 DEF TypeInv, RequestShape
  <2>3. Written(c) = new /\ WellFormed(new)
    BY WrittenIsComputed
  <2>4. old.status \in ApprovalRequired => old.by # NoOne
    BY <2>1 DEF GateInv
  <2>5. Sent(req[c]) => /\ old.status = "PENDING_APPROVAL"
                        /\ new.by = old.by
                        /\ old.by # NoOne
                        /\ op = "executed"
    BY <2>1 DEF Sent, Rows
  <2>6. new.status \in ApprovalRequired => new.by # NoOne
    BY <2>1, <2>2, <2>4, <2>5, ComputesApproved
  <2>7. new.status \in Live /\ op # "create" => old.status \in Live
    BY <2>1, <2>2, <2>5, ComputesLive, StatusNames DEF Live, Retryable
  <2>8. op # "create" => old.status \in SubmissionStatuses
    BY <2>1, <2>2, <2>5, ComputesLive, StatusNames
  <2>9. LiveIsUnique(s, new)
    BY <2>1, <2>7 DEF LiveIsUnique, LiveOf, OneLive, SerialInv
  <2> QED
    BY <2>1, <2>3, <2>6, <2>8, <2>9, TablesAreClosed
       DEF Allowed, ApprovalCheck, WellFormed, Exists, Live
<1> QED
  BY <1>1, SerialInvariant, PTL

=============================================================================
