SPECIFICATION MCSpec
CONSTANTS
    Scale = 10
    MinimumR2 = 0
    MinimumRmseImprovement = 1
    MinimumAccuracy = 0
    MinimumF1Improvement = 0
    Missing = Missing
    NoIncumbent = NoIncumbent
    NoVersion = NoVersion
    TaskType = "regression"
    Evidence <- MCEvidence
    Requests = {q1, q2, q3}
    Versions = {v1, v2}
    Reconcilers = {p1}
    MaxFaults = 0
    Bound = 0
    q1 = q1
    v1 = v1
PROPERTY ChampionWasChallenger
CHECK_DEADLOCK FALSE
