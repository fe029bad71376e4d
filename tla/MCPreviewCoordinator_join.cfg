CONSTANTS
    Request = {r1, r2, r3}
    Writer = {w1}
    Preview = {p1, p2}
    NoPreview = NoPreview
    Limit = 1
    Saved = 1
    MaxVersion = 0
SPECIFICATION Spec
SYMMETRY Symmetry
INVARIANTS OnlyOwnCancellation
CHECK_DEADLOCK FALSE
