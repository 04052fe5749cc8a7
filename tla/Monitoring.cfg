SPECIFICATION MCSpec
CONSTANTS
    Psi <- MCPsi
    Warning = 100
    Critical = 250
    RateWarning = 100
    FailureWarning = 50
    FailureCritical = 100
    Minimum = 2
    MaxEvents = 2
    MaxLabels = 2
    c1 = c1
    Callers = {c1, c2}
    Versions = {v1}
    Aliases = 1
    Reports <- MCReports
    None = None
    MaxWindow = 2
    MaxDisturbances = 1
INVARIANT AlertsFollowEvaluations ReportsAreSound
CHECK_DEADLOCK FALSE
PROPERTY EvaluationsEnd
