SPECIFICATION Spec
CONSTANTS
  Submissions = {s1}
  o1 = o1
  Opportunities <- MCOpportunities
  For <- MCFor
  Clients = {c1}
  Approvers = {u1}
  NoOne = NoOne
  Contents = {d1, d2}
  Titled = {d1, d2}
  Never = Never
  MaxMeddling = 0
INVARIANT SentWasApproved
CHECK_DEADLOCK FALSE
