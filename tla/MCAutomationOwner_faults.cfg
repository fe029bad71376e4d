SPECIFICATION Spec
CONSTANTS
  Run = {r1, r2}
  NoRun = NoRun
  Request = {q1}
  Slot = {s1, s2}
  NoSlot = NoSlot
  Outcome = {"succeeded", "failed", "raised"}
  Ticks = TRUE
  FaultKinds = {"request", "crash", "cancel", "timeout", "database",
                "lost", "session"}
  MaxFaults = 2
SYMMETRY Symmetry
INVARIANTS
  TypeOK
  AcceptedIsLaunched
  HubAgrees
PROPERTIES
  TicksOnOwnClock
  ReceiptFinal
  NeverRerun
  KeepsPromise
