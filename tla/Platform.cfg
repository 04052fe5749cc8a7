SPECIFICATION MCSpec
CONSTANTS
    None = None
    Legacy = Legacy
    ann = ann
    c1 = c1
    r1 = r1
    Users = {ann, bob}
    Companies = {c1, c2}
    Names = {n1}
    Stops = {0, 10, 14, 22}
    RowTables = {"datasets", "automl_trials", "prediction_events", "model_reference_profiles"}
    MaxRows = 2
    Requests = {r1, r2}
    Roles = {"admin", "operator"}
    MaxTokens = 3
    MaxResets = 1
    MaxChanges = 3
    Limit = 2
    Window = 2
    Second = 3
    MaxTime = 8
    f1 = f1
    m1 = m1
    s1 = s1
    wide = wide
    Factories = {f1, f2}
    Machines = {m1, m2}
    Sensors = {s1, s2}
    Limits = {1, 2, 3}
    MaxWrites = 2
    Imports = {i1}
    Mappings = {wide, long}
    NotANumber = NotANumber
    MaxStored = 2
    k1 = k1
    k2 = k2
    UploadKeys = {k1, k2}
    UploadFiles <- MCFiles
    Bad = Bad
    j1 = j1
    Jobs = {j1, j2}
    MaxReadings = 1
CONSTRAINT Bounds
INVARIANT SchemaIsSound DataStopsAreKnown SessionsAreSound  ImportsAreSound UploadsAreSound
PROPERTY AccountsAreGoverned EditsAreOrdered
CHECK_DEADLOCK FALSE
