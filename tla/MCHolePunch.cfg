SPECIFICATION Spec
CONSTANTS
  A = A
  B = B
  C = C
  a1 = a1
  a2 = a2
  b1 = b1
  c1 = c1
  End <- ends
  Attempt <- attempts
  owner <- owners
  target <- targets
  AtLocal <- locals
  RecvLoop = RecvLoop
  Nobody = Nobody
INVARIANTS
  TypeOK
  SuccessIsAnswered
  ReaderIsLive
PROPERTY PunchSucceeds
CHECK_DEADLOCK FALSE
