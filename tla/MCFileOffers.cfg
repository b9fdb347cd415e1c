\* Offers of an operator and of a viewer over two windows of the limiter.
SPECIFICATION FairSpec
CONSTANTS
  oper = oper
  viewer = viewer
  t1 = t1
  t2 = t2
  t3 = t3
  Peer = {oper, viewer}
  Operator = {oper}
  Self = "self"
  Transfer = {t1, t2, t3}
  OwnerOf <- MCOwnerOf
  MaxCalls = 3
  Window = 2
  MaxActive = 2
  Timeout = 2
  MaxNow = 4
  MaxArrivals <- MCMaxArrivals
INVARIANTS
  TypeOK
  BegunBound
  LimitedByOwnOffers
PROPERTIES
  WaitEnds
