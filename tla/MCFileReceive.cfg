\* Three transfers, of which two may be active, with every fault.
SPECIFICATION Spec
CONSTANTS
  t1 = t1
  t2 = t2
  t3 = t3
  a = a
  b = b
  Tid = {t1, t2, t3}
  Name = {a, b}
  Byte = {1, 2}
  NameOf <- MCNameOf
  ContentOf <- MCContentOf
  ChunkSize = 2
  MaxSize = 3
  MaxActive = 2
  Leftovers <- MCLeftovers
INVARIANTS
  TypeOK
  ActiveBound
  CompleteFileIntact
  OwnBytesInPlace
