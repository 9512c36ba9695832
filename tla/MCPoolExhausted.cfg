SPECIFICATION FairSpec
CONSTANTS
  u1 = u1
  u2 = u2
  u3 = u3
  u4 = u4
  u5 = u5
  q1 = q1
  q2 = q2
  NoUser = NoUser
  User = {u1, u2, u3}
  StartScore <- Fresh
  Deletable = {}
  Request = {q1, q2}
  Price = {18000}
  Official = {}
  Photo = {FALSE}
  Place = {"near"}
  BackDate = {0}
  Pause = {}
  PoolSize = 2
  MaxCalls = 3
  MaxTime = 0
  MaxFailures = 0
PROPERTIES
  EveryCallEnds
CHECK_DEADLOCK FALSE
