------------------------------ MODULE Monitoring ------------------------------
(***************************************************************************)
(* Monitoring evaluations and the alerts of model versions                 *)
(* (ml/monitoring/evaluation_service.py, alert_service.py, scheduled.py,   *)
(* maintenance.py and their repositories).  Scheduled runs and requests of *)
(* people evaluate a version over a window.  An evaluation is one database *)
(* transaction: it inserts its row, upserts the alerts of the conditions   *)
(* it detects, resolves those of the other types and commits.              *)
(*                                                                         *)
(* A step is one statement.  A statement sees the committed rows and those *)
(* of its own transaction; it waits for the rows and the keys another open *)
(* transaction has written, and the database ends one of the transactions  *)
(* that wait for each other.  Clocks are not modelled: an interval ends, a *)
(* lease or a retention period passes at some time.                        *)
(***************************************************************************)
EXTENDS MonitoringReports, Relation

CONSTANTS
    Callers,         \* processes: the worker's runs and the API's requests
    Versions,        \* registered model versions
    Aliases,         \* number of configured name and alias pairs of a run
    Reports,         \* the reports that the inputs of a window can give
    None,
    MaxWindow,       \* bound: scheduling intervals
    MaxDisturbances  \* bound: crashes, expired leases, retention passes, and
                     \* alerts that people or maintenance change

\* The owner of no lock is no process.
MonitoringConstants ==
    /\ None \notin Callers
    /\ Aliases \in Nat /\ MaxWindow \in Nat \ {0} /\ MaxDisturbances \in Nat

Windows == 1 .. MaxWindow

VARIABLES
    now,          \* the interval that the clock is in
    lock,         \* the monitoring_job_locks row of every window
    evaluations,  \* model_monitoring_evaluations rows, in commit order
    alerts,       \* the monitoring_alerts row of every version and type
    caller,       \* the local state of every process
    spent         \* disturbances so far

vars == <<now, lock, evaluations, alerts, caller, spent>>

Keys == Versions \X AlertTypes

NoLock == [owner |-> None, expired |-> FALSE]

\* An alert that was never created.
NoAlert == [status |-> "absent", occurrences |-> 0, evaluation |-> 0]

Unresolved(row) == row.status \in {"open", "acknowledged"}

Idle == [pc |-> "idle", window |-> 0, lease |-> "none", todo |-> 0, seen |-> {},
         version |-> None, report |-> None, saw |-> 0, detect |-> {}, type |-> None,
         found |-> FALSE, clear |-> {}, writes |-> {}, result |-> 0]

\* The rows of caller c's transaction: <<type, row>> pairs.
Written(c) == {w[1] : w \in caller[c].writes}

\* The transaction of c, between its first and its last statement.
Open(c) == caller[c].pc \in {"read", "write", "clear", "clearing"}

\* Rows kept by retention are not deleted; a deleted row leaves its place empty.
Live(i) == ~evaluations[i].deleted

EvaluationOf(version, window) ==
    {i \in DOMAIN evaluations :
        Live(i) /\ evaluations[i].version = version /\ evaluations[i].window = window}

-----------------------------------------------------------------------------

Init ==
    /\ now = 1 /\ spent = 0
    /\ lock = [w \in Windows |-> NoLock]
    /\ evaluations = <<>>
    /\ alerts = [k \in Keys |-> NoAlert]
    /\ caller = [c \in Callers |-> Idle]

\* The time of a run's window is floored to the interval the clock is in.
Tick ==
    /\ now < MaxWindow
    /\ now' = now + 1
    /\ UNCHANGED <<lock, evaluations, alerts, caller, spent>>

Set(c, record) == caller' = [caller EXCEPT ![c] = record]

\* Scheduled(me): me is the state of a run, not of a request.
Scheduled(me) == me.lease # "none"

\* Where the process goes when an evaluation is over: a request to its answer, a
\* run to its next alias, over the retraining policy if a report that is a reason
\* to train again was returned.
After(me, result, report) ==
    IF ~Scheduled(me) THEN Idle
    ELSE LET next == [Idle EXCEPT !.pc = "next", !.window = me.window, !.lease = me.lease,
                                  !.todo = me.todo, !.seen = me.seen]
         IN IF result = 0 \/ retraining_trigger(report) = "none" THEN next
            ELSE [next EXCEPT !.pc = "retrain", !.result = result]

\* A message is delivered, by the scheduler or again after a crash: the run takes
\* the lock of its window or ends without an evaluation.
Acquire(r) ==
    /\ caller[r].pc = "idle"
    /\ LET free == lock[now] = NoLock \/ lock[now].expired
       IN /\ lock' = IF free THEN [lock EXCEPT ![now] = [owner |-> r, expired |-> FALSE]]
                     ELSE lock
          /\ Set(r, IF free THEN [Idle EXCEPT !.pc = "next", !.window = now,
                                              !.lease = "live", !.todo = Aliases]
                    ELSE Idle)
    /\ UNCHANGED <<now, evaluations, alerts, spent>>

\* The look for an evaluation of the window, then the inputs and their report.
StartEvaluation(c, record) ==
    LET existing == EvaluationOf(record.version, record.window)
    IN IF existing # {}
       THEN LET i == CHOOSE i \in existing : TRUE
            IN Set(c, After(record, i, evaluations[i].report))
       ELSE \E report \in Reports :
              Set(c, [record EXCEPT !.pc = "insert", !.report = report,
                                    !.saw = Len(evaluations)])

\* The next alias of a run: it resolves to a version, or the registry fails.  A
\* version is evaluated once in a run.
NextAlias(r) ==
    /\ caller[r].pc = "next" /\ caller[r].todo > 0
    /\ LET rest == [caller[r] EXCEPT !.todo = @ - 1]
       IN \/ Set(r, rest)
          \/ \E version \in Versions \ caller[r].seen :
               StartEvaluation(r, [rest EXCEPT !.seen = @ \cup {version}, !.version = version])
    /\ UNCHANGED <<now, lock, evaluations, alerts, spent>>

\* A request for an evaluation of a window up to now.
Request(q) ==
    /\ caller[q].pc = "idle"
    /\ \E version \in Versions, window \in 1 .. now :
         StartEvaluation(q, [Idle EXCEPT !.version = version, !.window = window])
    /\ UNCHANGED <<now, lock, evaluations, alerts, spent>>

-----------------------------------------------------------------------------
(* The transaction. *)

\* Another transaction has inserted the same version and window and is open.
InsertWaits(c) ==
    {d \in Callers \ {c} : Open(d) /\ caller[d].version = caller[c].version
                                   /\ caller[d].window = caller[c].window}

\* Transactions that hold the alert row, or the new key, of c's version and type.
RowHeldBy(c, type) ==
    {d \in Callers \ {c} : caller[d].version = caller[c].version /\ type \in Written(d)}

KeepsRows(c) == [After(caller[c], 0, None) EXCEPT !.version = caller[c].version,
                                                  !.writes = caller[c].writes]

\* The rollback of a failed evaluation: the transaction and its locks are gone.
Fail(c) == After(caller[c], 0, None)

NoDuplicate(c) == {}

\* The row that the unique key and the unique window refuse, if there is one.
Duplicate(c) == EvaluationOf(caller[c].version, caller[c].window)

\* create: an existing row is returned after the rollback.
Insert(c) ==
    /\ caller[c].pc = "insert" /\ InsertWaits(c) = {}
    /\ Set(c, IF Duplicate(c) # {}
              THEN LET i == CHOOSE i \in Duplicate(c) : TRUE
                   IN After(caller[c], i, evaluations[i].report)
              ELSE LET detected == conditions(caller[c].report)
                   IN [caller[c] EXCEPT !.pc = IF detected = {} THEN "clear" ELSE "read",
                                        !.detect = detected])
    /\ UNCHANGED <<now, lock, evaluations, alerts, spent>>

\* get_by_deduplication for a detected type, in the order of a frozen set.
Read(c) ==
    /\ caller[c].pc = "read"
    /\ \E type \in caller[c].detect :
         Set(c, [caller[c] EXCEPT !.pc = "write", !.type = type,
                 !.found = alerts[<<caller[c].version, type>>] # NoAlert])
    /\ UNCHANGED <<now, lock, evaluations, alerts, spent>>

DetectedTwice(row, evaluation) ==
    [status |-> "open", occurrences |-> row.occurrences + 2, evaluation |-> evaluation]

\* The row after a detection; evaluation is the place the row will have.
Detected(row, evaluation) ==
    [status |-> "open", occurrences |-> row.occurrences + 1, evaluation |-> evaluation]

\* The place is known at the commit; until then it is 0.
redetectFrom(c, row) == Detected([row EXCEPT !.occurrences = caller[c].saw], 0)

\* redetect: the count is raised by the statement, on the row as it is then.
redetect(c, row) == Detected(row, 0)

\* redetect of the alert that was found, or create: the unique deduplication key
\* refuses an alert that another transaction created in between.
Write(c) ==
    /\ caller[c].pc = "write" /\ RowHeldBy(c, caller[c].type) = {}
    /\ LET row == alerts[<<caller[c].version, caller[c].type>>]
           rest == caller[c].detect \ {caller[c].type}
       IN Set(c, IF ~caller[c].found /\ row # NoAlert
                 THEN Fail(c)
                 ELSE [caller[c] EXCEPT !.pc = IF rest = {} THEN "clear" ELSE "read",
                         !.detect = rest, !.type = None, !.found = FALSE,
                         !.writes = @ \cup {<<caller[c].type, redetect(c, row)>>}])
    /\ UNCHANGED <<now, lock, evaluations, alerts, spent>>

ClearsOpen(row) == row.status = "open"

\* The WHERE clause of resolve_types and of resolve.
Clears(row) == Unresolved(row)

\* resolve_types, for all types that were not detected: the rows it finds ...
Clear(c) ==
    /\ caller[c].pc = "clear"
    /\ Set(c, [caller[c] EXCEPT !.pc = "clearing",
               !.clear = {type \in AlertTypes \ conditions(caller[c].report) :
                            Clears(alerts[<<caller[c].version, type>>])}])
    /\ UNCHANGED <<now, lock, evaluations, alerts, spent>>

\* ... are locked one after the other and tested again.
ClearRow(c) ==
    /\ caller[c].pc = "clearing"
    /\ \E type \in caller[c].clear :
         LET row == alerts[<<caller[c].version, type>>]
         IN /\ RowHeldBy(c, type) = {}
            /\ Set(c, [caller[c] EXCEPT !.clear = @ \ {type},
                       !.writes = IF Clears(row)
                                  THEN @ \cup {<<type, [row EXCEPT !.status = "resolved"]>>}
                                  ELSE @])
    /\ UNCHANGED <<now, lock, evaluations, alerts, spent>>

Commit(c) ==
    /\ caller[c].pc = "clearing" /\ caller[c].clear = {}
    /\ LET me == caller[c]
           place == Len(evaluations) + 1
           row(type) == (CHOOSE w \in me.writes : w[1] = type)[2]
       IN /\ evaluations' = Append(evaluations,
                [version |-> me.version, window |-> me.window, report |-> me.report,
                 saw |-> me.saw, referenced |-> FALSE, deleted |-> FALSE])
          /\ alerts' = [k \in Keys |->
                IF k[1] = me.version /\ k[2] \in Written(c)
                THEN IF row(k[2]).evaluation = 0
                     THEN [row(k[2]) EXCEPT !.evaluation = place] ELSE row(k[2])
                ELSE alerts[k]]
          /\ Set(c, After(me, place, me.report))
    /\ UNCHANGED <<now, lock, spent>>

\* The transactions that c waits for.
WaitsFor(c) ==
    CASE caller[c].pc = "insert" -> InsertWaits(c)
      [] caller[c].pc = "write" -> RowHeldBy(c, caller[c].type)
      [] caller[c].pc = "clearing" -> UNION {RowHeldBy(c, t) : t \in caller[c].clear}
      [] OTHER -> {}

\* c waits, over others, for itself.
InCycle(c) ==
    TransitiveClosure([p \in Callers \X Callers |-> p[2] \in WaitsFor(p[1])], Callers)[c, c]

\* The database ends a transaction of a cycle.
Deadlock(c) ==
    /\ WaitsFor(c) # {} /\ InCycle(c)
    /\ Set(c, Fail(c))
    /\ UNCHANGED <<now, lock, evaluations, alerts, spent>>

-----------------------------------------------------------------------------
(* The rest of a run. *)

\* The retraining policy records a request or an audit that refers to the
\* evaluation, or fails; a reference to a row that retention deleted fails.
Retrain(r) ==
    /\ caller[r].pc = "retrain"
    /\ LET i == caller[r].result
       IN \/ /\ Live(i)
             /\ evaluations' = [evaluations EXCEPT ![i].referenced = TRUE]
          \/ UNCHANGED evaluations
    /\ Set(r, [caller[r] EXCEPT !.pc = "next", !.result = 0])
    /\ UNCHANGED <<now, lock, alerts, spent>>

releaseAny(r) == [lock EXCEPT ![caller[r].window] = NoLock]

\* release_lock: by key and owner.
release_lock(r) ==
    IF lock[caller[r].window].owner = r
    THEN [lock EXCEPT ![caller[r].window] = NoLock] ELSE lock

Release(r) ==
    /\ caller[r].pc = "next" /\ caller[r].todo = 0
    /\ lock' = release_lock(r)
    /\ Set(r, Idle)
    /\ UNCHANGED <<now, evaluations, alerts, spent>>

-----------------------------------------------------------------------------
(* People and maintenance. *)

Disturb == spent < MaxDisturbances /\ spent' = spent + 1

Untouched(k) == \A c \in Callers : caller[c].version # k[1] \/ k[2] \notin Written(c)

Acknowledge ==
    /\ Disturb
    /\ \E k \in Keys :
         /\ alerts[k].status = "open" /\ Untouched(k)
         /\ alerts' = [alerts EXCEPT ![k].status = "acknowledged"]
    /\ UNCHANGED <<now, lock, evaluations, caller>>

Resolve ==
    /\ Disturb
    /\ \E k \in Keys :
         /\ Clears(alerts[k]) /\ Untouched(k)
         /\ alerts' = [alerts EXCEPT ![k].status = "resolved"]
    /\ UNCHANGED <<now, lock, evaluations, caller>>

\* resolve_stale, of the alerts that were not detected for the configured hours.
ResolveStale ==
    /\ Disturb
    /\ \E old \in SUBSET {k \in Keys : Clears(alerts[k])} :
         /\ old # {} /\ \A k \in old : Untouched(k)
         /\ alerts' = [k \in Keys |->
                IF k \in old THEN [alerts[k] EXCEPT !.status = "resolved"] ELSE alerts[k]]
    /\ UNCHANGED <<now, lock, evaluations, caller>>

\* delete_before: old evaluations that no request or audit refers to.
Retain ==
    /\ Disturb
    /\ \E old \in DOMAIN evaluations :
         /\ Live(old) /\ ~evaluations[old].referenced
         /\ evaluations' = [evaluations EXCEPT ![old].deleted = TRUE]
    /\ UNCHANGED <<now, lock, alerts, caller>>

-----------------------------------------------------------------------------
(* Faults. *)

\* A process dies: its transaction is rolled back, the lock of a run stays.
Crash(c) ==
    /\ caller[c].pc # "idle"
    /\ Disturb
    /\ Set(c, Idle)
    /\ UNCHANGED <<now, lock, evaluations, alerts>>

\* The lease of a lock passes while its run is still at work, or dead.
Expire ==
    /\ Disturb
    /\ \E w \in Windows :
         /\ lock[w] # NoLock /\ ~lock[w].expired
         /\ lock' = [lock EXCEPT ![w].expired = TRUE]
         /\ caller' = [c \in Callers |->
                IF c = lock[w].owner /\ caller[c].lease = "live" /\ caller[c].window = w
                THEN [caller[c] EXCEPT !.lease = "expired"] ELSE caller[c]]
    /\ UNCHANGED <<now, evaluations, alerts>>

-----------------------------------------------------------------------------

Step(c) ==
    \/ Insert(c) \/ Read(c) \/ Write(c) \/ Clear(c) \/ ClearRow(c) \/ Commit(c)
    \/ Deadlock(c)
    \/ NextAlias(c) \/ Retrain(c) \/ Release(c)

Next ==
    \/ Tick \/ Acknowledge \/ Resolve \/ ResolveStale \/ Retain \/ Expire
    \/ \E c \in Callers : Acquire(c) \/ Request(c) \/ Step(c) \/ Crash(c)

\* A process that is alive runs on, and the database serves those that wait for a
\* row in turn.
Fairness == \A c \in Callers : SF_vars(Step(c))

Spec == Init /\ [][Next]_vars /\ Fairness

-----------------------------------------------------------------------------

TypeOK ==
    /\ now \in Windows /\ spent \in 0 .. MaxDisturbances
    /\ lock \in [Windows -> [owner : Callers \cup {None}, expired : BOOLEAN]]
    /\ \A i \in DOMAIN evaluations :
         /\ evaluations[i].version \in Versions /\ evaluations[i].window \in Windows
         /\ evaluations[i].report \in Reports /\ evaluations[i].saw \in 0 .. (i - 1)
    /\ \A k \in Keys :
         /\ alerts[k].status \in {"absent", "open", "acknowledged", "resolved"}
         /\ alerts[k].occurrences \in 0 .. Len(evaluations)
         /\ alerts[k].evaluation \in 0 .. Len(evaluations)
    /\ \A c \in Callers : Scheduled(caller[c]) => caller[c].window \in Windows
                                               /\ caller[c].todo \in 0 .. Aliases

\* However runs that outlived their lease, redelivered runs and requests overlap, a
\* version is evaluated once for a window.
OneEvaluation ==
    \A i, j \in DOMAIN evaluations :
        Live(i) /\ Live(j) /\ evaluations[i].version = evaluations[j].version
        /\ evaluations[i].window = evaluations[j].window => i = j

\* An alert counts every evaluation that detected its condition, and no other:
\* none is lost between transactions that detect it at once, and none is counted
\* for an evaluation that failed or was returned a second time.
OccurrencesMatch ==
    \A k \in Keys :
        alerts[k].occurrences =
            Cardinality({i \in DOMAIN evaluations :
                evaluations[i].version = k[1] /\ k[2] \in conditions(evaluations[i].report)})

\* A later evaluation resolves the conditions it clears: no alert is unresolved
\* that an evaluation did not detect which began after the one that last did.
LaterClears ==
    \A k \in Keys : Unresolved(alerts[k]) =>
        ~ \E i \in DOMAIN evaluations :
            /\ evaluations[i].version = k[1]
            /\ evaluations[i].saw >= alerts[k].evaluation
            /\ k[2] \notin conditions(evaluations[i].report)

\* Two runs work on a window at once only when a lease has passed: a run that
\* ends late does not give away the lock of its successor.
LeaseExcludes ==
    \A r, s \in Callers :
        /\ r # s /\ caller[r].window = caller[s].window
        => ~(caller[r].lease = "live" /\ caller[s].lease = "live")

\* Alerts count and clear as the evaluations say, of which there is one for each
\* version and window.
AlertsFollowEvaluations ==
    TypeOK /\ OneEvaluation /\ OccurrencesMatch /\ LaterClears /\ LeaseExcludes

\* Every evaluation comes to an end, although the transactions wait for each
\* other's rows in orders that differ.
EvaluationsEnd == \A c \in Callers : caller[c].pc # "idle" ~> caller[c].pc = "idle"
=============================================================================
