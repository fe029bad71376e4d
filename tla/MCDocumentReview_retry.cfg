SPECIFICATION RetrySpec
CONSTANTS
  w1 = w1
  Worker = {w1}
  NoWorker = NoWorker
  MaxReview = 2
  MaxFaults = 3
  Decisions <- ApproveOnly
  DocumentKind = "plain"
  DataMoves = TRUE
  SessionsDie = TRUE
INVARIANTS
  ResumableUntilSuperseded
PROPERTIES
  LockReleased
  ApprovalCompletes
