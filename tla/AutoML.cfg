SPECIFICATION MCSpec
CONSTANTS
    None = None
    c1 = c1
    Clients = {u1}
    Coordinators = {c1, c2}
    WorkerCount = 2
    TrialBudget = 2
    MaxConcurrent = 2
    SlotCount = 1
    MaxAttempts = 2
    Scores = {1, 2}
    MaxDisturbances = 1
INVARIANT StudyIsSound
PROPERTY LoneStudyEnds
CHECK_DEADLOCK FALSE
