SPECIFICATION MCSpec
CONSTANTS
    NoUpload = NoUpload
    NoContent = NoContent
    u1 = u1
    c1 = c1
    w1 = w1
    Uploads = {u1, u2}
    Contents = {c1, c2}
    Kind = "document_collection"
    Workers = {w1, w2}
    Passes = {p1}
    MaxRetries = 1
    MaxEnqueues = 2
    MaxFaults = 1
INVARIANTS DatasetsAreConsistent
PROPERTIES SettledIsFinal ImplementsHistory VersionsEnd
CHECK_DEADLOCK FALSE
