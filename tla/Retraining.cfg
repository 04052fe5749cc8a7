SPECIFICATION MCSpec
CONSTANTS
    NoScope = NoScope
    e1 = e1
    s1 = s1
    Scopes = {s1, s2}
    Evaluations = {e1, e2}
    Passes = {p1}
    Workers = {w1}
    MaxAttempts = 1
    MaxActive = 1
    MaxPerDay = 1
    MaxPerWeek = 1
    BatchSize = 1
    MaxFaults = 2
INVARIANTS RequestsAgreeWithJobs
PROPERTIES LimitsRaceOnly RequestedOnceEnds
CHECK_DEADLOCK FALSE
