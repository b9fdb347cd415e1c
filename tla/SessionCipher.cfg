SPECIFICATION CipherSpec
CONSTANTS
  Cipher = {c1, c2}
  Prefix = {p1, p2}
  NoPrefix = noprefix
  CounterLimit = 3
INVARIANTS
  NonceUnique
  RefusedOnlyIfUsed
  AtMostOnce
PROPERTY ImplementsOnceDelivery
