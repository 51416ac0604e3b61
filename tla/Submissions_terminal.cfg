SPECIFICATION Spec
CONSTANTS
  Submissions = {s1}
  o1 = o1
  Opportunities <- MCOpportunities
  For <- MCFor
  Clients = {c1, c2}
  Approvers = {u1}
  NoOne = NoOne
  Contents = {d1}
  Titled = {d1}
  Never = Never
  MaxMeddling = 0
PROPERTY TerminalIsFinal
CHECK_DEADLOCK FALSE
