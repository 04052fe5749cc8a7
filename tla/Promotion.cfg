SPECIFICATION MCSpec
CONSTANTS
    Scale = 5
    MinimumR2 = 1
    MinimumRmseImprovement = 1
    MinimumAccuracy = 1
    MinimumF1Improvement = 1
    Missing = Missing
    NoIncumbent = NoIncumbent
    NoVersion = NoVersion
    TaskType = "regression"
    Evidence <- MCEvidence
    Requests = {q1, q2}
    Versions = {v1, v2}
    Reconcilers = {p1}
    MaxFaults = 1
    Bound = 5
    q1 = q1
    v1 = v1
INVARIANTS AuditsAreTruthful HolderIsGoverned PoliciesAreOrdered
PROPERTIES OutcomeIsFinal EveryAuditSettles
CHECK_DEADLOCK FALSE
