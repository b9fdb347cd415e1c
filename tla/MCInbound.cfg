\* Replay protection and rate limit of the Telegram receive path.
\* Entries expire at the end of the run; before that, a third nonce of a peer
\* is recorded only by evicting its oldest one.
\* The clock stops at MaxNow; updates can still be handled, so no deadlock.
SPECIFICATION Spec
CONSTANTS
  p1 = p1
  t1 = t1
  t2 = t2
  own = own
  empty = empty
  Peer = {p1}
  Text = {t1, t2}
  Cut <- cuts
  Nonce <- nonces
  NonceAt <- nonceAt
  Milli = 2
  Tolerance = 1
  TTL = 4
  CacheMax = 2
  MaxCalls = 2
  Window = 3
  Skew = 1
  MaxNow = 5
SYMMETRY Symmetry
INVARIANTS
  OncePerForm
  RateBound
  ForgetsOnlyStale
  IInv
PROPERTIES
  ImplementsOnceDelivery
