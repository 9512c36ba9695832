SPECIFICATION SpecH
CONSTANTS
  u1 = u1
  u2 = u2
  u3 = u3
  u4 = u4
  u5 = u5
  q1 = q1
  q2 = q2
  NoUser = NoUser
  User = {u1, u2, u3, u4, u5}
  StartScore <- Trusted
  Deletable = {}
  Request = {q1}
  Price = {30000}
  Official = {18000}
  Photo = {TRUE}
  Place = {"near"}
  BackDate = {0}
  Pause = {2}
  PoolSize = 5
  MaxCalls = 5
  MaxTime = 2
  MaxFailures = 0
PROPERTIES
  AnomalyNeedsConfirmations
SYMMETRY Alike
