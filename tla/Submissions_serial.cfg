SPECIFICATION Spec
CONSTANTS
  Submissions = {s1, s2}
  o1 = o1
  Opportunities <- MCOpportunities
  For <- MCFor
  Clients = {c1}
  Approvers = {u1}
  NoOne = NoOne
  Contents = {d1, d2}
  Titled = {d1}
  Never = Never
  MaxMeddling = 3
SYMMETRY Symmetry
INVARIANT TypeOK
INVARIANT RefusedByService
PROPERTY ImplementsWorkflow
CHECK_DEADLOCK FALSE
