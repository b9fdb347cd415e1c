\* Batches of at most two out of three updates, so that a batch can be full,
\* partial or empty; three processes, so that a redelivered batch can be cut
\* off and redelivered again.  A system whose last process has ended stops.
SPECIFICATION FairSpec
CONSTANTS
  Limit = 2
  Cap = 3
  MaxId = 3
  MaxBoots = 3
INVARIANTS
  NothingLost
  RedeliveryBound
  InOrder
PROPERTIES
  ImplementsCommittedLog
  EventuallyHandled
CHECK_DEADLOCK FALSE
