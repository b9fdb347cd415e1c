\* What a resume offset means, for one transfer.
SPECIFICATION Spec
CONSTANTS
  t1 = t1
  t2 = t2
  t3 = t3
  a = a
  b = b
  Tid = {t1}
  Name = {a}
  Byte = {1, 2}
  NameOf <- SoleNameOf
  ContentOf <- SoleContentOf
  ChunkSize = 2
  MaxSize = 3
  MaxActive = 1
  Leftovers <- MCLeftovers
INVARIANTS
  ResumePrefixValid
