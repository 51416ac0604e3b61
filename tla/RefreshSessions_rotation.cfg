SPECIFICATION Spec
CONSTANTS
  f1 = f1
  f2 = f2
  g1 = g1
  u1 = u1
  u2 = u2
  Users <- MCUsers
  Families <- MCFamilies
  Owner <- MCOwner
  Tokens = {t1, t2, t3}
  NoFamily = NoFamily
  Clients = {c1, c2}
SYMMETRY Symmetry
INVARIANT OneValidToken
