--------------------------- MODULE ModelMonitoring ---------------------------
(***************************************************************************)
(* Monitoring with constants and variables of its own, for modules that    *)
(* have it beside another component: training is requested for what its    *)
(* reports say.                                                            *)
(***************************************************************************)

CONSTANTS
    Psi(_, _), Warning, Critical, RateWarning, FailureWarning, FailureCritical, Minimum,
    MaxEvents, MaxLabels, Callers, Versions, Aliases, Reports, None, MaxWindow, MaxDisturbances

VARIABLES now, lock, evaluations, alerts, caller, spent

M == INSTANCE Monitoring

ASSUME MonitoringAssumption == M!MonitoringConstants

\* Alerts count and clear as the evaluations say, of which there is one for each version
\* and window (alert_service.py).
AlertsFollowEvaluations == M!AlertsFollowEvaluations
=============================================================================
