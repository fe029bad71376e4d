CONSTANTS
    Request = {r1, r2}
    Writer = {w1, w2}
    Preview = {p1}
    NoPreview = NoPreview
    Limit = 1
    Saved = 1
    MaxVersion = 2
SPECIFICATION FairSpec
INVARIANTS TypeOK Fresh QueuedIsWanted NobodyStranded
PROPERTIES KeepsPromise StartedIsDelivered Answered
CHECK_DEADLOCK FALSE
