SPECIFICATION Spec
CONSTANTS
  Submissions = {s1, s2}
  o1 = o1
  Opportunities <- MCOpportunities
  For <- MCFor
  Clients = {c1, c2}
  Approvers = {u1}
  NoOne = NoOne
  Contents = {d1, d2}
  Titled = {d1, d2}
  Never = Never
  MaxMeddling = 0
SYMMETRY Symmetry
INVARIANT ApprovalGate
INVARIANT SentHadApproval
CHECK_DEADLOCK FALSE
