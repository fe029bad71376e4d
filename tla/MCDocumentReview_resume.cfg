SPECIFICATION Spec
CONSTANTS
  w1 = w1
  Worker = {w1}
  NoWorker = NoWorker
  MaxReview = 1
  MaxFaults = 1
  Decisions <- Both
  DocumentKind = "dataset"
  DataMoves = FALSE
  SessionsDie = FALSE
INVARIANTS
  InterruptedApprovalResumable
