SPECIFICATION MCSpec
CONSTANTS
    ada = ada
    omar = omar
    None = None
    Users = {ada, omar}
    Role <- MCRole
    Actions = {a1}
    Tabs = {t1, t2}
    Shifts = {s1, s2}
    Desks = {d1, d2}
    Levels = {"high"}
    MaxEvents = 4
    MaxVersion = 2
    MaxElapsed = 1
    Calls = {p1, p2}
    Keys = {k1}
    NoKey = NoKey
    Batch = 2
    MaxStarted = 2
CONSTRAINT Apart
SYMMETRY Symmetry
INVARIANT WorkIsRecorded OncePerCooldown 
PROPERTY ResolvedStays 
