\* Two requests, one behind the other, over a restart.
SPECIFICATION FairSpec
CONSTANTS
  o = o
  v = v
  q1 = q1
  q2 = q2
  Peer = {o, v}
  RoleOf <- MCRoleOf
  Request = {q1, q2}
  Tolerance = 1
  MaxTimeout = 2
  SendTimeout = 1
  MaxCalls = 1
  Window = 1
  MaxBoots = 1
INVARIANTS
  HoldBound
  TrueMeansDelivered
  CopiesBound
PROPERTIES
  EveryRequestEnds
