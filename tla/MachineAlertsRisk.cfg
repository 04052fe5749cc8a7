SPECIFICATION Spec
CONSTANTS
    ada = ada
    omar = omar
    None = None
    Desks = {d1}
    Users = {ada, omar}
    Role <- MCRole
    MaxVersion = 3
    MaxElapsed = 2
INVARIANT RiskRaisesAlert
CHECK_DEADLOCK FALSE
