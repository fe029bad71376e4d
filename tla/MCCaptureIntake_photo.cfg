CONSTANTS
    d1 = d1
    receipt = receipt
    other = other
    Draft = {d1}
    Content = {receipt, other}
    ContentOf <- Photo
    Tab = {u1, u2}
    Capture = {c1, c2, c3}
    NoDraft = NoDraft
    NoCapture = NoCapture
    Document = {x1, x2}
    NoDocument = NoDocument
    NoContent = NoContent
    FaultKinds = {"network", "tab", "sign-in", "crash", "disk", "database", "unanswered"}
    MaxFaults = 2
SPECIFICATION Spec
INVARIANTS PhotoKept
CHECK_DEADLOCK FALSE
