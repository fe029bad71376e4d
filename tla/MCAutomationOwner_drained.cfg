SPECIFICATION Spec
CONSTANTS
  Run = {r1}
  NoRun = NoRun
  Request = {q1, q2}
  Slot = {s1, s2}
  NoSlot = NoSlot
  Outcome = {"succeeded", "failed", "skipped", "raised"}
  Ticks = TRUE
  FaultKinds = {"cancel"}
  MaxFaults = 1
INVARIANTS
  FencedIsDrained
