SPECIFICATION Spec
CONSTANTS
  w1 = w1
  w2 = w2
  Worker = {w1, w2}
  NoWorker = NoWorker
  MaxReview = 2
  MaxFaults = 2
  Decisions <- Both
  DocumentKind = "dataset"
  DataMoves = FALSE
  SessionsDie = FALSE
SYMMETRY WorkerSymmetry
INVARIANTS
  TypeOK
  HeldMoneyNeedsApproval
  ApprovalAppliedOnce
  VisibleMatchesDecision
  ApprovedIsLatest
  OneExecutor
PROPERTY
  DecidedOnce
