---------------------------- MODULE MachineAlerts ----------------------------
(***************************************************************************)
(* The alert of one machine and model version: raised by structured        *)
(* predictions (api/routes/pilot.py), worked on in the operations          *)
(* workspace (services/operations.py), acknowledged with the machine risk, *)
(* and acknowledged or resolved by the monitoring endpoints and the stale  *)
(* reconciliation (repositories/monitoring_alerts.py).                     *)
(*                                                                         *)
(* Predictions, transitions and risk acknowledgements read the row, decide *)
(* on what they read and write the columns they changed when they commit;  *)
(* the monitoring endpoints are single guarded updates.  The client sends  *)
(* the version it has last seen; a request with another one is refused     *)
(* and changes nothing.                                                    *)
(***************************************************************************)
EXTENDS Naturals, UnitOfWork

CONSTANTS
    Desks,       \* concurrent requests
    Users,
    Role,        \* Role[u]: the role of user u
    None,
    MaxVersion,  \* bound: the lifecycle version
    MaxElapsed   \* bound: cooldowns that end

VARIABLES
    alert,    \* the monitoring_alerts row with the machine's deduplication key
    desk,     \* the local state of every request
    elapsed,  \* cooldowns that have ended
    last      \* how the last risky prediction ended

vars == <<alert, desk, elapsed, last>>

Transitions == {"assign", "acknowledge", "start", "escalate", "resolve", "reopen"}

Statuses == {"open", "acknowledged", "in_progress", "escalated", "resolved"}

NoAlert == [status |-> "absent", occurrences |-> 0, cooling |-> FALSE,
            resolvedAt |-> FALSE, assigned |-> None, version |-> 0]

Free == [pc |-> "free", actor |-> None, kind |-> "none", read |-> NoAlert]

Exists == alert.status # "absent"

Init ==
    /\ alert = NoAlert
    /\ desk = [d \in Desks |-> Free]
    /\ elapsed = 0
    /\ last = "none"

Begin(d, record) == desk[d].pc = "free" /\ desk' = [desk EXCEPT ![d] = record]

Finish(d) == desk' = [desk EXCEPT ![d] = Free]

-----------------------------------------------------------------------------
(* Structured predictions. *)

\* The state of a score in hundredths; warning and critical ones are risky.
risk_state(score) ==
    IF score >= 85 THEN "critical" ELSE IF score >= 65 THEN "warning"
    ELSE IF score >= 40 THEN "observe" ELSE "normal"

\* The prediction and the look for an unresolved alert of the machine.
Predict(d) ==
    /\ \E score \in {0, 40, 65, 85} :
         /\ risk_state(score) \in {"warning", "critical"}
         /\ Begin(d, [Free EXCEPT !.pc = "predict",
                      !.read = IF alert.status = "resolved" THEN NoAlert ELSE alert])
    /\ UNCHANGED <<alert, elapsed, last>>

NewAlert == [NoAlert EXCEPT !.status = "open", !.occurrences = 1, !.cooling = TRUE,
                            !.version = 1]

RedetectedAlways(row) ==
    [row EXCEPT !.occurrences = @ + 1, !.cooling = TRUE]

\* The alert as the request leaves it: counted again once its cooldown is over.
Redetected(row) ==
    IF row.cooling THEN row ELSE [row EXCEPT !.occurrences = @ + 1, !.cooling = TRUE]

\* The alert and the assessment are stored in one transaction.  A new alert is
\* refused by the unique key when there is a row, also a resolved one.
StoreAssessment(d) ==
    /\ desk[d].pc = "predict"
    /\ LET read == desk[d].read
       IN IF read = NoAlert
          THEN \/ Exists /\ UNCHANGED alert
                  /\ last' = IF alert.status = "resolved" THEN "refused" ELSE "overtaken"
               \/ ~Exists /\ alert' = NewAlert /\ last' = "stored"
          ELSE last' = "stored" /\ alert' = Flush(alert, read, Redetected(read))
    /\ Finish(d)
    /\ UNCHANGED elapsed

\* An hour passes after a detection.
EndCooldown ==
    /\ alert.cooling /\ elapsed < MaxElapsed
    /\ alert' = [alert EXCEPT !.cooling = FALSE]
    /\ elapsed' = elapsed + 1
    /\ UNCHANGED <<desk, last>>

-----------------------------------------------------------------------------
(* The operations workspace. *)

MayEscalateAny(kind, row, actor) == row.status # "absent"

\* What the guards of a transition ask of the row and of the actor.
May(kind, row, actor) ==
    LET operator == Role[actor] = "operator"
    IN CASE kind = "assign" -> ~operator /\ row.status # "resolved"
         [] kind = "acknowledge" -> /\ row.status \in {"open", "escalated"}
                                    /\ operator => row.assigned \in {None, actor}
         [] kind = "start" -> /\ row.status = "acknowledged"
                              /\ operator => row.assigned = actor
         [] kind = "escalate" -> row.status # "resolved"
         [] kind = "resolve" -> ~operator /\ row.status # "resolved"
         [] kind = "reopen" -> ~operator /\ row.status = "resolved"

\* The row after a transition; assignee is the user named by an assignment.
Moved(kind, row, actor, assignee) ==
    [CASE kind = "assign" -> [row EXCEPT !.assigned = assignee]
       [] kind = "acknowledge" ->
            [row EXCEPT !.status = "acknowledged",
                        !.assigned = IF @ = None THEN actor ELSE @]
       [] kind = "start" -> [row EXCEPT !.status = "in_progress"]
       [] kind = "escalate" -> [row EXCEPT !.status = "escalated"]
       [] kind = "resolve" -> [row EXCEPT !.status = "resolved", !.resolvedAt = TRUE]
       [] kind = "reopen" -> [row EXCEPT !.status = "open", !.resolvedAt = FALSE]
     EXCEPT !.version = @ + 1]

\* The request with the current version reads the row and passes the guards.
OpenTransition(d) ==
    /\ Exists /\ alert.version < MaxVersion
    /\ \E kind \in Transitions, actor \in Users :
         /\ May(kind, alert, actor)
         /\ Begin(d, [pc |-> "transition", kind |-> kind, actor |-> actor, read |-> alert])
    /\ UNCHANGED <<alert, elapsed, last>>

transition_alert(d) ==
    /\ desk[d].pc = "transition"
    /\ \E assignee \in Users :
         alert' = Flush(alert, desk[d].read,
                        Moved(desk[d].kind, desk[d].read, desk[d].actor, assignee))
    /\ Finish(d)
    /\ UNCHANGED <<elapsed, last>>

-----------------------------------------------------------------------------
(* The machine risk and the monitoring endpoints. *)

\* acknowledge_machine_risk, of an assessment that is linked to the alert.
OpenRisk(d) ==
    /\ Exists
    /\ Begin(d, [Free EXCEPT !.pc = "risk", !.read = alert])
    /\ UNCHANGED <<alert, elapsed, last>>

acknowledge_machine_risk(d) ==
    /\ desk[d].pc = "risk"
    /\ LET read == desk[d].read
       IN alert' = Flush(alert, read, IF read.status = "open"
                                      THEN [read EXCEPT !.status = "acknowledged"] ELSE read)
    /\ Finish(d)
    /\ UNCHANGED <<elapsed, last>>

acknowledge_monitoring_alert ==
    /\ alert.status = "open"
    /\ alert' = [alert EXCEPT !.status = "acknowledged"]
    /\ UNCHANGED <<desk, elapsed, last>>

\* The administrator's resolve and the reconciliation of stale alerts.
resolve_monitoring_alert ==
    /\ Exists /\ alert.status # "resolved"
    /\ alert' = [alert EXCEPT !.status = "resolved", !.resolvedAt = TRUE]
    /\ UNCHANGED <<desk, elapsed, last>>

-----------------------------------------------------------------------------

Next ==
    \/ EndCooldown \/ acknowledge_monitoring_alert \/ resolve_monitoring_alert
    \/ \E d \in Desks :
         \/ Predict(d) \/ StoreAssessment(d)
         \/ OpenTransition(d) \/ transition_alert(d)
         \/ OpenRisk(d) \/ acknowledge_machine_risk(d)

Spec == Init /\ [][Next]_vars

-----------------------------------------------------------------------------

TypeOK ==
    /\ alert \in [status : Statuses \cup {"absent"}, occurrences : 0 .. (MaxElapsed + 1),
                  cooling : BOOLEAN, resolvedAt : BOOLEAN, assigned : Users \cup {None},
                  version : 0 .. MaxVersion]
    /\ elapsed \in 0 .. MaxElapsed
    /\ last \in {"none", "stored", "overtaken", "refused"}

\* Predictions that find the cooldown over at once count one occurrence between
\* them: an alert never counts more detections than cooldowns have ended.
OncePerCooldown == Exists => alert.occurrences <= 1 + elapsed

\* A resolved alert stays resolved until someone reopens it, unless a request had
\* read the row before it was resolved.
ResolvedStays ==
    [][alert.status = "resolved" /\ alert'.status # "resolved" =>
        \E d \in Desks :
            /\ desk'[d] # desk[d]
            /\ desk[d].kind = "reopen" \/ desk[d].read.status # "resolved"]_vars

\* A warning or critical prediction raises an alert or finds one that is being
\* worked on: it is not refused because an earlier alert was resolved.
RiskRaisesAlert == last # "refused"
=============================================================================
