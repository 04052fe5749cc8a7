SPECIFICATION MCSpec
CONSTANTS
    NoJob = NoJob
    NoKey = NoKey
    c1 = c1
    Calls = {c1, c2}
    DemoCalls = {c1, c2}
    Keys = {k1}
    Fingerprints = {f1, f2}
    Workers = {w1, w2}
    Reconcilers = {p1}
    MaxAttempts = 2
    MaxActive = 1
    MaxPerDay = 2
    MaxFaults = 1
    MaxTimeouts = 1
INVARIANTS  AuditedOnce PublishedIsCheckpointed
PROPERTIES ImplementsLifecycle QuotaRaceOnly ExecutedJobEnds
CHECK_DEADLOCK FALSE
