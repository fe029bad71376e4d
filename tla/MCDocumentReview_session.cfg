SPECIFICATION Spec
CONSTANTS
  w1 = w1
  w2 = w2
  Worker = {w1, w2}
  NoWorker = NoWorker
  MaxReview = 2
  MaxFaults = 1
  Decisions <- Both
  DocumentKind = "dataset"
  DataMoves = TRUE
  SessionsDie = TRUE
SYMMETRY WorkerSymmetry
INVARIANTS
  HeldMoneyNeedsApproval
  ApprovalAppliedOnce
PROPERTY
  MovedOnlyOutside
