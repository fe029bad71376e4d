CONSTANTS
    Syncer = {s1, s2}
    NoSyncer = NoSyncer
    t1 = t1
    t2 = t2
    a1 = a1
    a2 = a2
    Txn = {t1, t2}
    Account = {a1, a2}
    AccountOf <- Owner
    MaxVersion = 2
    MaxChanges = 2
    PageSize = 1
    PageLimit = 3
    RestartLimit = 1
    FaultKinds = {"provider", "database", "unanswered", "unrecorded", "session", "crash"}
    MaxFaults = 1
SPECIFICATION FairSpec
INVARIANTS TypeOK ShowsCursor ScanIsOwed HealthyOwesNothing
PROPERTIES KeepsPromise AccountsGoForward CatchesUp ScanIsMade
CHECK_DEADLOCK FALSE
