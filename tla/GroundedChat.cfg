SPECIFICATION MCSpec
CONSTANTS
    None = None
    Clients = {c1, c2}
    Workers = {w1}
    Versions = {v1, v2}
    MaxBuilds = 2
    MaxRequests = 4
    MaxAttached = 2
    MaxEnqueueAttempts = 1
    MaxFaults = 1
    Asks = {a1, a2}
    Keys = {k1}
    Contents = {"q"}
    MaxText = 8
    MaxSize = 4
INVARIANT IndexIsSound NothingIsCutAway
PROPERTY AnswersAreFinal WorkEnds
CHECK_DEADLOCK FALSE
