---------------------------- MODULE TrainingJobs ----------------------------
(***************************************************************************)
(* Background training jobs: submission (ml/jobs/service.py), execution    *)
(* (ml/jobs/worker.py and the actor of ml/jobs/tasks.py) and stale-job     *)
(* recovery (ml/jobs/reconcile.py) over the conditional updates of         *)
(* repositories/ai_governance.py.                                          *)
(*                                                                         *)
(* The database commits are the atomic steps.  Every column of a job row   *)
(* that some guard reads is kept; error codes, messages and timestamps are *)
(* not, except that "older than the cutoff" is the age "old".   A job is  *)
(* named by the submit call that created it.  A registered model version   *)
(* is named by the job and the attempt that trained it: an attempt trains  *)
(* at most once, so the pair is as good a name as MLflow's number.         *)
(*                                                                         *)
(* Definitions that no other uses (TrainedAlways, RetriesOneShort, ...)    *)
(* are faulty variants of the definition that follows them; each one makes *)
(* a property below fail.                                                  *)
(***************************************************************************)
EXTENDS Naturals, FiniteSets

CONSTANTS
    Calls,          \* submit requests; the job a call creates bears its name
    NoJob,          \* not a job
    DemoCalls,      \* the calls made by the public-demo user
    Keys,           \* idempotency scopes: user, algorithm, task and key
    NoKey,          \* a request without Idempotency-Key
    Fingerprints,   \* hashes of the request payload
    Workers,        \* Dramatiq worker threads
    Reconcilers,    \* concurrent runs of python -m app.ml.jobs.reconcile
    MaxAttempts,    \* training_job_max_attempts
    MaxActive,      \* public_demo_training_max_active
    MaxPerDay,      \* public_demo_training_max_per_day
    MaxFaults,      \* bound: crashes, lost messages and repeated deliveries
    MaxTimeouts     \* bound: cutoffs that overtake a job still making progress

ASSUME NoJobAssumption == NoJob \notin Calls
ASSUME NoKeyAssumption == NoKey \notin Keys
ASSUME DemoAssumption == DemoCalls \subseteq Calls
ASSUME MaxAttemptsAssumption == MaxAttempts \in Nat \ {0}
ASSUME BoundsAssumption == /\ MaxActive \in Nat /\ MaxPerDay \in Nat
                           /\ MaxFaults \in Nat /\ MaxTimeouts \in Nat

VARIABLES
    row,            \* the training_jobs table
    key,            \* each call's idempotency scope
    fingerprint,    \* each call's payload hash
    call,           \* where each submit call stands, or its reply
    broker,         \* messages ready in Redis, per job and retry count
    worker,         \* what each worker thread is doing
    registry,       \* MLflow model versions
    candidate,      \* the version that holds the candidate alias
    profiles,       \* model versions with a reference profile
    audit,          \* training.succeeded and training.failed events per job
    recovery,       \* what each recovery command is doing
    faults,         \* faults so far
    timeouts        \* overtaking cutoffs so far

jobVars == <<row, audit>>
callVars == <<key, fingerprint, call>>
modelVars == <<registry, candidate, profiles>>
boundVars == <<faults, timeouts>>
vars == <<jobVars, callVars, broker, worker, modelVars, recovery, boundVars>>

-----------------------------------------------------------------------------
(* The state space *)

Attempts == 0 .. MaxAttempts

RetriesOneShort == 0 .. MaxAttempts - 2

\* The actor's max_retries is max_attempts - 1.
Retries == 0 .. MaxAttempts - 1

Terminal == {"succeeded", "failed", "cancelled"}
Statuses == {"absent", "queued", "running"} \cup Terminal

Row == [status : Statuses, attempts : Attempts, version : Nat,
        messageId : {"null", "stored"}, checkpoint : Attempts,
        age : {"recent", "old"}]

Steps == {"new", "quota", "create", "enqueue", "enqueue_failed", "persist"}
Replies == {"accepted", "existing", "conflict", "over_quota",
            "enqueue_error", "persistence_error", "lost"}

Version == [job : Calls, attempt : Attempts \ {0}]
NoVersion == [job |-> NoJob, attempt |-> 0]

WorkerState ==
    [pc : {"idle", "train", "checkpoint", "alias", "profile", "complete",
           "retry", "fail", "raise"},
     job : Calls \cup {NoJob}, version : Nat, attempt : Attempts,
     outcome : Attempts, draft : {"none", "built"}, retries : Retries]

Idle == [pc |-> "idle", job |-> NoJob, version |-> 0, attempt |-> 0,
         outcome |-> 0, draft |-> "none", retries |-> 0]

Target == [job : Calls, version : Nat]

RecoveryState == [pc : {"idle", "list", "enqueue", "persist"},
                  released : SUBSET Calls,
                  todo : SUBSET Target,
                  sent : SUBSET Target]

AtRest == [pc |-> "idle", released |-> {}, todo |-> {}, sent |-> {}]

NoRow == [status |-> "absent", attempts |-> 0, version |-> 0,
          messageId |-> "null", checkpoint |-> 0, age |-> "recent"]

NoEvents == [result \in {"succeeded", "failed"} |-> 0]

TypeOK ==
    /\ row \in [Calls -> Row]
    /\ key \in [Calls -> Keys \cup {NoKey}]
    /\ fingerprint \in [Calls -> Fingerprints]
    /\ call \in [Calls -> Steps \cup Replies]
    /\ broker \in [Calls -> [Retries -> Nat]]
    /\ worker \in [Workers -> WorkerState]
    /\ registry \in SUBSET Version
    /\ candidate \in Version \cup {NoVersion}
    /\ profiles \in SUBSET Version
    /\ audit \in [Calls -> [{"succeeded", "failed"} -> Nat]]
    /\ recovery \in [Reconcilers -> RecoveryState]
    /\ faults \in 0 .. MaxFaults
    /\ timeouts \in 0 .. MaxTimeouts

Init ==
    /\ row = [c \in Calls |-> NoRow]
    /\ key \in [Calls -> Keys \cup {NoKey}]
    /\ fingerprint \in [Calls -> Fingerprints]
    /\ call = [c \in Calls |-> "new"]
    /\ broker = [c \in Calls |-> [n \in Retries |-> 0]]
    /\ worker = [w \in Workers |-> Idle]
    /\ registry = {}
    /\ candidate = NoVersion
    /\ profiles = {}
    /\ audit = [c \in Calls |-> NoEvents]
    /\ recovery = [p \in Reconcilers |-> AtRest]
    /\ faults = 0
    /\ timeouts = 0

-----------------------------------------------------------------------------
(* The row changes of TrainingJobRepository.  Each bumps state_version;    *)
(* queued_at and started_at are written exactly where age is reset.        *)

CreatedRow == [NoRow EXCEPT !.status = "queued"]

Claimed(r) == [r EXCEPT !.status = "running", !.attempts = @ + 1,
                        !.version = @ + 1, !.age = "recent"]

Released(r) == [r EXCEPT !.status = "queued", !.version = @ + 1, !.age = "recent"]

Requeued(r) == [r EXCEPT !.status = "queued", !.messageId = "null",
                         !.version = @ + 1, !.age = "recent"]

Reset(r) == [r EXCEPT !.messageId = "null", !.version = @ + 1, !.age = "recent"]

Identified(r) == [r EXCEPT !.messageId = "stored", !.version = @ + 1]

MarkedPending(r) == [r EXCEPT !.version = @ + 1]

Checkpointed(r, outcome) == [r EXCEPT !.checkpoint = outcome, !.version = @ + 1]

Succeeded(r, outcome) == [r EXCEPT !.status = "succeeded",
                                   !.checkpoint = outcome, !.version = @ + 1]

Failed(r) == [r EXCEPT !.status = "failed", !.version = @ + 1]

Cancelled(r) == [r EXCEPT !.status = "cancelled", !.version = @ + 1]

\* The WHERE clause of claim_queued.
Claimable(r) == r.status = "queued" /\ r.attempts < MaxAttempts

MatchesStatus(j, expectedStatus, expectedVersion) == row[j].status = expectedStatus

\* The WHERE clause of _conditional_update with an expected version.
Matches(j, expectedStatus, expectedVersion) ==
    /\ row[j].status = expectedStatus
    /\ row[j].version = expectedVersion

\* The WHERE clauses of requeue_stale, fail_exhausted_stale and
\* list_orphaned_queued; an old row is one before the cutoff.
StaleRunning(r) == r.status = "running" /\ r.age = "old"
RequeueableForever(r) == StaleRunning(r)
Requeueable(r) == StaleRunning(r) /\ r.attempts < MaxAttempts
Exhausted(r) == StaleRunning(r) /\ r.attempts >= MaxAttempts
OrphanedUnidentified(r) == r.status = "queued" /\ r.age = "old" /\ r.messageId = "null"
Orphaned(r) == r.status = "queued" /\ r.age = "old"

Set(j, r) == row' = [row EXCEPT ![j] = r]

Record(j, result) == audit' = [audit EXCEPT ![j][result] = @ + 1]

Send(j, n) == broker' = [broker EXCEPT ![j][n] = @ + 1]

-----------------------------------------------------------------------------
(* TrainingJobService.submit and cancel *)

Goto(c, step) == call' = [call EXCEPT ![c] = step]

SameRequest(c) == {j \in Calls : /\ row[j].status # "absent"
                                 /\ key[j] = key[c] /\ key[c] # NoKey
                                 /\ fingerprint[j] = fingerprint[c]}

SameScope(c) == {j \in Calls : /\ row[j].status # "absent"
                               /\ key[j] = key[c]
                               /\ key[c] # NoKey}

\* _match_fingerprint, then _ensure_normal_submission_state.
ReplyFromExisting(c, j) ==
    IF fingerprint[j] # fingerprint[c] THEN "conflict"
    ELSE IF row[j].status = "queued" /\ row[j].messageId = "null"
         THEN "persistence_error" ELSE "existing"

Lookup(c) ==
    /\ call[c] = "new"
    /\ \/ \E j \in SameScope(c) : Goto(c, ReplyFromExisting(c, j))
       \/ /\ SameScope(c) = {}
          /\ Goto(c, IF c \in DemoCalls THEN "quota" ELSE "create")
    /\ UNCHANGED <<jobVars, key, fingerprint, broker, worker, modelVars,
                   recovery, boundVars>>

DemoJobs == {j \in DemoCalls : row[j].status # "absent"}
RunningDemoJobs == {j \in DemoJobs : row[j].status = "running"}

ActiveDemoJobs == {j \in DemoJobs : row[j].status \in {"queued", "running"}}

CheckQuota(c) ==
    /\ call[c] = "quota"
    /\ Goto(c, IF \/ Cardinality(ActiveDemoJobs) >= MaxActive
                  \/ Cardinality(DemoJobs) >= MaxPerDay
               THEN "over_quota" ELSE "create")
    /\ UNCHANGED <<jobVars, key, fingerprint, broker, worker, modelVars,
                   recovery, boundVars>>

\* The unique constraint on the idempotency scope turns a lost race into the
\* reply of the winner's job.
Create(c) ==
    /\ call[c] = "create"
    /\ \/ /\ SameScope(c) = {}
          /\ Set(c, CreatedRow)
          /\ Goto(c, "enqueue")
       \/ \E j \in SameScope(c) : /\ Goto(c, ReplyFromExisting(c, j))
                                  /\ UNCHANGED row
    /\ UNCHANGED <<audit, key, fingerprint, broker, worker, modelVars,
                   recovery, boundVars>>

\* A broker error leaves open whether Redis took the message.
Enqueue(c) ==
    /\ call[c] = "enqueue"
    /\ \/ Send(c, 0) /\ Goto(c, "persist")
       \/ Send(c, 0) /\ Goto(c, "enqueue_failed")
       \/ UNCHANGED broker /\ Goto(c, "enqueue_failed")
    /\ UNCHANGED <<jobVars, key, fingerprint, worker, modelVars, recovery,
                   boundVars>>

\* mark_failed without an expected version.
FailEnqueue(c) ==
    /\ call[c] = "enqueue_failed"
    /\ IF row[c].status = "queued" THEN Set(c, Failed(row[c])) ELSE UNCHANGED row
    /\ Goto(c, "enqueue_error")
    /\ UNCHANGED <<audit, key, fingerprint, broker, worker, modelVars,
                   recovery, boundVars>>

\* _record_queue_identifier_pending and _record_reconciliation_pending.
MarkPending(j, version) ==
    \/ UNCHANGED row
    \/ Matches(j, "queued", version) /\ Set(j, MarkedPending(row[j]))

\* set_queue_identifier expects the version the row was created with.
CanIdentify(j, version) == Matches(j, "queued", version) /\ row[j].messageId = "null"

PersistIdentifier(c) ==
    /\ call[c] = "persist"
    /\ \/ /\ CanIdentify(c, CreatedRow.version)
          /\ Set(c, Identified(row[c]))
          /\ Goto(c, "accepted")
       \/ /\ MarkPending(c, CreatedRow.version)
          /\ Goto(c, "persistence_error")
    /\ UNCHANGED <<audit, key, fingerprint, broker, worker, modelVars,
                   recovery, boundVars>>

Submit(c) == \/ Lookup(c) \/ CheckQuota(c) \/ Create(c)
             \/ Enqueue(c) \/ FailEnqueue(c) \/ PersistIdentifier(c)

\* cancel_queued is conditional on the status alone.
Cancel(j) ==
    /\ row[j].status = "queued"
    /\ Set(j, Cancelled(row[j]))
    /\ UNCHANGED <<audit, callVars, broker, worker, modelVars, recovery,
                   boundVars>>

-----------------------------------------------------------------------------
(* TrainingJobWorker.execute, one delivery *)

VersionOf(w) == [job |-> worker[w].job, attempt |-> worker[w].outcome]

Become(w, state) == worker' = [worker EXCEPT ![w] = state]

TrainedAlways(r) == TRUE
TrainedNever(r) == FALSE

\* _checkpointed_outcome: an earlier attempt's result is used again.
Trained(r) == r.checkpoint # 0

\* A delivery either claims the job or is acknowledged as a no-op.
Deliver(w, j, n) ==
    /\ worker[w].pc = "idle"
    /\ broker[j][n] > 0
    /\ broker' = [broker EXCEPT ![j][n] = @ - 1]
    /\ IF Claimable(row[j])
       THEN LET claimed == Claimed(row[j])
            IN /\ Set(j, claimed)
               /\ Become(w, [pc |-> IF Trained(claimed) THEN "alias" ELSE "train",
                             job |-> j,
                             version |-> claimed.version,
                             attempt |-> claimed.attempts,
                             outcome |-> claimed.checkpoint,
                             draft |-> IF Trained(claimed) THEN "none" ELSE "built",
                             retries |-> n])
       ELSE UNCHANGED <<row, worker>>
    /\ UNCHANGED <<audit, callVars, modelVars, recovery, boundVars>>

\* The three except clauses: transient errors are retried while attempts last.
Handle(w, error) ==
    Become(w, [worker[w] EXCEPT
                 !.pc = IF error = "transient" /\ worker[w].attempt < MaxAttempts
                        THEN "retry" ELSE "fail"])

\* A failing execution may already have registered its version.
Train(w) ==
    /\ worker[w].pc = "train"
    /\ LET trained == [job |-> worker[w].job, attempt |-> worker[w].attempt]
       IN \/ /\ registry' = registry \cup {trained}
             /\ Become(w, [worker[w] EXCEPT !.pc = "checkpoint",
                                            !.outcome = worker[w].attempt])
          \/ \E error \in {"validation", "transient", "unexpected"} :
                /\ registry' \in {registry, registry \cup {trained}}
                /\ Handle(w, error)
    /\ UNCHANGED <<jobVars, callVars, broker, candidate, profiles, recovery,
                   boundVars>>

Checkpoint(w) ==
    /\ worker[w].pc = "checkpoint"
    /\ \/ /\ Matches(worker[w].job, "running", worker[w].version)
          /\ Set(worker[w].job,
                 Checkpointed(row[worker[w].job], worker[w].outcome))
          /\ Become(w, [worker[w] EXCEPT !.pc = "alias", !.version = @ + 1])
       \/ /\ ~Matches(worker[w].job, "running", worker[w].version)
          /\ Become(w, Idle)
          /\ UNCHANGED row
       \/ /\ \E error \in {"transient", "unexpected"} : Handle(w, error)
          /\ UNCHANGED row
    /\ UNCHANGED <<audit, callVars, broker, modelVars, recovery, boundVars>>

\* A registry error leaves open whether the alias moved.
AssignAlias(w) ==
    /\ worker[w].pc = "alias"
    /\ \/ /\ candidate' = VersionOf(w)
          /\ Become(w, [worker[w] EXCEPT
                          !.pc = IF worker[w].draft = "built" THEN "profile" ELSE "complete"])
       \/ /\ candidate' \in {candidate, VersionOf(w)}
          /\ \E error \in {"validation", "transient", "unexpected"} :
                Handle(w, error)
    /\ UNCHANGED <<jobVars, callVars, broker, registry, profiles, recovery,
                   boundVars>>

\* Best effort: no failure here changes the job's fate.
PersistProfile(w) ==
    /\ worker[w].pc = "profile"
    /\ profiles' \in {profiles, profiles \cup {VersionOf(w)}}
    /\ Become(w, [worker[w] EXCEPT !.pc = "complete"])
    /\ UNCHANGED <<jobVars, callVars, broker, registry, candidate, recovery,
                   boundVars>>

Complete(w) ==
    /\ worker[w].pc = "complete"
    /\ IF Matches(worker[w].job, "running", worker[w].version)
       THEN /\ Set(worker[w].job,
                   Succeeded(row[worker[w].job], worker[w].outcome))
            /\ Record(worker[w].job, "succeeded")
       ELSE UNCHANGED jobVars
    /\ Become(w, Idle)
    /\ UNCHANGED <<callVars, broker, modelVars, recovery, boundVars>>

FailAnyway(w) ==
    /\ worker[w].pc = "fail"
    /\ Set(worker[w].job, Failed(row[worker[w].job]))
    /\ Record(worker[w].job, "failed")
    /\ Become(w, Idle)
    /\ UNCHANGED <<callVars, broker, modelVars, recovery, boundVars>>

Fail(w) ==
    /\ worker[w].pc = "fail"
    /\ IF Matches(worker[w].job, "running", worker[w].version)
       THEN /\ Set(worker[w].job, Failed(row[worker[w].job]))
            /\ Record(worker[w].job, "failed")
       ELSE UNCHANGED jobVars
    /\ Become(w, Idle)
    /\ UNCHANGED <<callVars, broker, modelVars, recovery, boundVars>>

Retry(w) ==
    /\ worker[w].pc = "retry"
    /\ IF Matches(worker[w].job, "running", worker[w].version)
       THEN /\ Set(worker[w].job, Released(row[worker[w].job]))
            /\ Become(w, [worker[w] EXCEPT !.pc = "raise"])
       ELSE /\ UNCHANGED row
            /\ Become(w, Idle)
    /\ UNCHANGED <<audit, callVars, broker, modelVars, recovery, boundVars>>

\* Dramatiq's Retries middleware: an actor that raises has its message sent
\* again until max_retries, which is MaxAttempts - 1; then it is dropped.
Resend(w) ==
    IF worker[w].retries + 1 \in Retries
    THEN Send(worker[w].job, worker[w].retries + 1)
    ELSE UNCHANGED broker

Raise(w) ==
    /\ worker[w].pc = "raise"
    /\ Resend(w)
    /\ Become(w, Idle)
    /\ UNCHANGED <<jobVars, callVars, modelVars, recovery, boundVars>>

Work(w) == \/ \E j \in Calls, n \in Retries : Deliver(w, j, n)
           \/ Train(w) \/ Checkpoint(w) \/ AssignAlias(w) \/ PersistProfile(w)
           \/ Complete(w) \/ Fail(w) \/ Retry(w) \/ Raise(w)

-----------------------------------------------------------------------------
(* StaleTrainingJobRecoveryService.reconcile *)

Step(p, state) == recovery' = [recovery EXCEPT ![p] = state]

\* One transaction.  A pass that finds nothing old changes nothing.
ReleaseStale(p) ==
    /\ recovery[p].pc = "idle"
    /\ \E j \in Calls : StaleRunning(row[j]) \/ Orphaned(row[j])
    /\ row' = [j \in Calls |-> IF Requeueable(row[j]) THEN Requeued(row[j])
                               ELSE IF Exhausted(row[j]) THEN Failed(row[j])
                               ELSE row[j]]
    /\ Step(p, [AtRest EXCEPT !.pc = "list",
                              !.released = {j \in Calls : Requeueable(row[j])}])
    /\ UNCHANGED <<audit, callVars, broker, worker, modelVars, boundVars>>

\* The released rows are read back, the aged queued rows are reset.
ResetOrphaned(p) ==
    /\ recovery[p].pc = "list"
    /\ row' = [j \in Calls |-> IF Orphaned(row[j]) THEN Reset(row[j]) ELSE row[j]]
    /\ Step(p, [recovery[p] EXCEPT
                  !.pc = "enqueue",
                  !.released = {},
                  !.todo = {[job |-> j, version |-> row'[j].version] :
                               j \in {i \in Calls : \/ i \in recovery[p].released
                                                    \/ Orphaned(row[i])}}])
    /\ UNCHANGED <<audit, callVars, broker, worker, modelVars, boundVars>>

\* An enqueue that fails ends the job; the rest of the loop goes on.
Resubmit(p, t) ==
    /\ recovery[p].pc = "enqueue"
    /\ t \in recovery[p].todo
    /\ \/ /\ Send(t.job, 0)
          /\ Step(p, [recovery[p] EXCEPT !.pc = "persist",
                                         !.todo = @ \ {t}, !.sent = {t}])
          /\ UNCHANGED row
       \/ /\ Send(t.job, 0) \/ UNCHANGED broker
          /\ IF Matches(t.job, "queued", t.version)
             THEN Set(t.job, Failed(row[t.job])) ELSE UNCHANGED row
          /\ Step(p, [recovery[p] EXCEPT !.todo = @ \ {t}])
    /\ UNCHANGED <<audit, callVars, worker, modelVars, boundVars>>

PersistReplacement(p, t) ==
    /\ recovery[p].pc = "persist"
    /\ t \in recovery[p].sent
    /\ \/ CanIdentify(t.job, t.version) /\ Set(t.job, Identified(row[t.job]))
       \/ MarkPending(t.job, t.version)
    /\ Step(p, [recovery[p] EXCEPT !.pc = "enqueue", !.sent = {}])
    /\ UNCHANGED <<audit, callVars, broker, worker, modelVars, boundVars>>

EndPass(p) ==
    /\ recovery[p].pc = "enqueue"
    /\ recovery[p].todo = {}
    /\ Step(p, AtRest)
    /\ UNCHANGED <<jobVars, callVars, broker, worker, modelVars, boundVars>>

Recover(p) == \/ ReleaseStale(p) \/ ResetOrphaned(p) \/ EndPass(p)
              \/ \E t \in recovery[p].todo : Resubmit(p, t)
              \/ \E t \in recovery[p].sent : PersistReplacement(p, t)

\* python -m app.ml.monitoring.reconcile supplies a missing profile.
ReconcileProfile(j) ==
    /\ row[j].status = "succeeded"
    /\ [job |-> j, attempt |-> row[j].checkpoint] \notin profiles
    /\ profiles' = profiles \cup {[job |-> j, attempt |-> row[j].checkpoint]}
    /\ UNCHANGED <<jobVars, callVars, broker, worker, registry, candidate,
                   recovery, boundVars>>

-----------------------------------------------------------------------------
(* Time and faults *)

Messages(j) == {n \in Retries : broker[j][n] > 0}

\* Nobody is going to move job j: only recovery can.
Stranded(j) ==
    \/ /\ row[j].status = "queued"
       /\ call[j] \notin {"enqueue", "enqueue_failed"}
       /\ Messages(j) = {}
       /\ \A w \in Workers : ~(worker[w].pc = "raise" /\ worker[w].job = j)
       /\ \A p \in Reconcilers : /\ j \notin recovery[p].released
                                 /\ \A t \in recovery[p].todo : t.job # j
    \/ /\ row[j].status = "running"
       /\ \A w \in Workers : ~(/\ worker[w].pc # "idle"
                               /\ worker[w].job = j
                               /\ worker[w].version = row[j].version)

\* A queued or running job passes the recovery cutoff.  That may overtake a
\* job that is merely slow, MaxTimeouts times in all.
Age(j) ==
    /\ row[j].status \in {"queued", "running"}
    /\ row[j].age = "recent"
    /\ row' = [row EXCEPT ![j].age = "old"]
    /\ \/ Stranded(j) /\ UNCHANGED timeouts
       \/ ~Stranded(j) /\ timeouts < MaxTimeouts /\ timeouts' = timeouts + 1
    /\ UNCHANGED <<audit, callVars, broker, worker, modelVars, recovery, faults>>

Fault == faults < MaxFaults /\ faults' = faults + 1

\* A worker dies or its actor raises.  Redis hands the unacknowledged message
\* out again, or Retries sends it once more.
LoseWorker(w) ==
    /\ Fault
    /\ worker[w].pc # "idle"
    /\ Send(worker[w].job, worker[w].retries) \/ Resend(w)
    /\ Become(w, Idle)
    /\ UNCHANGED <<jobVars, callVars, modelVars, recovery, timeouts>>

\* The broker takes a live worker for dead and delivers its message again.
Redeliver(w) ==
    /\ Fault
    /\ worker[w].pc # "idle"
    /\ Send(worker[w].job, worker[w].retries)
    /\ UNCHANGED <<jobVars, callVars, worker, modelVars, recovery, timeouts>>

LoseMessage(j, n) ==
    /\ Fault
    /\ broker[j][n] > 0
    /\ broker' = [broker EXCEPT ![j][n] = @ - 1]
    /\ UNCHANGED <<jobVars, callVars, worker, modelVars, recovery, timeouts>>

LoseCall(c) ==
    /\ Fault
    /\ call[c] \in Steps \ {"new"}
    /\ Goto(c, "lost")
    /\ UNCHANGED <<jobVars, key, fingerprint, broker, worker, modelVars,
                   recovery, timeouts>>

LoseRecovery(p) ==
    /\ Fault
    /\ recovery[p].pc # "idle"
    /\ Step(p, AtRest)
    /\ UNCHANGED <<jobVars, callVars, broker, worker, modelVars, timeouts>>

Environment ==
    \/ \E j \in Calls : Cancel(j) \/ ReconcileProfile(j) \/ Age(j) \/ LoseCall(j)
    \/ \E j \in Calls, n \in Retries : LoseMessage(j, n)
    \/ \E w \in Workers : LoseWorker(w) \/ Redeliver(w)
    \/ \E p \in Reconcilers : LoseRecovery(p)

Next == \/ \E c \in Calls : Submit(c)
        \/ \E w \in Workers : Work(w)
        \/ \E p \in Reconcilers : Recover(p)
        \/ Environment

Spec == Init /\ [][Next]_vars

\* Every request handler, worker thread and recovery command that can take a
\* step eventually takes it, and a job nobody will move passes its cutoff.
Fairness ==
    /\ \A c \in Calls : WF_vars(Submit(c))
    /\ \A w \in Workers : WF_vars(Work(w))
    /\ \A p \in Reconcilers : WF_vars(Recover(p))
    /\ \A j \in Calls : WF_vars(Age(j) /\ Stranded(j))

FairSpec == Spec /\ Fairness

-----------------------------------------------------------------------------
(* Properties *)

\* A queued job has an attempt left.  claim_queued refuses a job without one,
\* so a release, requeue or reset that ignored the limit would queue the job
\* for good.
QueuedIsClaimable ==
    \A j \in Calls : row[j].status = "queued" => row[j].attempts < MaxAttempts

\* Whatever was published about a model version, by whichever worker and
\* however late, is about the version its job keeps: the candidate alias and
\* the reference profiles never name a version that lost the race to be
\* checkpointed.
PublishedIsCheckpointed ==
    \A v \in profiles \cup ({candidate} \ {NoVersion}) :
        row[v.job].checkpoint = v.attempt

\* A finished job has exactly one training.succeeded event if it succeeded and
\* none otherwise, and at most one training.failed event, only if it failed:
\* redelivery, stale workers and recovery never audit twice.
AuditedOnce ==
    \A j \in Calls :
        /\ audit[j]["succeeded"] = IF row[j].status = "succeeded" THEN 1 ELSE 0
        /\ audit[j]["failed"] <= IF row[j].status = "failed" THEN 1 ELSE 0

\* Two calls never create two jobs in one idempotency scope, however their
\* lookups and inserts interleave.
OneJobPerScope ==
    \A i, j \in Calls :
        /\ i # j
        /\ row[i].status # "absent" /\ row[j].status # "absent"
        => key[i] # key[j] \/ key[i] = NoKey

\* The actor's max_retries is one less than max_attempts, and that is always
\* enough: no message is dropped while its job waits to be retried.
RetryIsResent ==
    \A w \in Workers : worker[w].pc = "raise" => worker[w].retries + 1 \in Retries

\* No job is lost in the queue or in it twice: a queued job can be claimed, the
\* message of a job that waits to be retried is sent again, and a scope has one job.
QueueIsSound == TypeOK /\ QueuedIsClaimable /\ RetryIsResent /\ OneJobPerScope

\* The job table, its optimistic versions and the external checkpoint together
\* implement one atomic lifecycle per job: a job starts at most MaxAttempts
\* times, only the attempt in progress has its result kept, only the first
\* result is kept, and no late writer moves a job that has ended.
EntryOf(r, events) == [status |-> r.status,
                       attempts |-> r.attempts,
                       checkpoint |-> r.checkpoint,
                       succeeded |-> events["succeeded"],
                       failed |-> events["failed"]]

Lifecycle == INSTANCE TrainingJobLifecycle WITH
    Jobs <- Calls,
    ledger <- [j \in Calls |-> EntryOf(row[j], audit[j])]

ImplementsLifecycle == Lifecycle!Spec

\* Every job ends, whatever messages, workers, handlers and recovery commands
\* are lost on the way.
EveryJobEnds ==
    \A j \in Calls : row[j].status # "absent" ~> row[j].status \in Terminal

-----------------------------------------------------------------------------
(* The inductive invariant *)

\* What a worker's copy of a job says about the row it was read from.  While
\* the version still matches, nothing has happened to the job; a kept result
\* is kept for good.
WorkerFits(s, r) ==
    /\ r.status # "absent"
    /\ s.retries < s.attempt /\ s.attempt <= r.attempts
    /\ s.version <= r.version
    /\ s.version = r.version => r.status = "running" /\ r.attempts = s.attempt
    /\ s.pc \in {"train", "checkpoint"} /\ s.version = r.version => r.checkpoint = 0
    /\ s.pc = "checkpoint" => s.outcome = s.attempt
    /\ s.pc \in {"alias", "profile", "complete"}
          => s.outcome # 0 /\ s.outcome = r.checkpoint
    /\ s.pc \in {"retry", "raise"} => s.attempt < MaxAttempts

WorkersFit ==
    \A w \in Workers : worker[w].pc # "idle" => /\ worker[w].job \in Calls
                                                /\ WorkerFits(worker[w], row[worker[w].job])

\* A message has been sent again at most once per attempt.
MessagesFit ==
    \A j \in Calls, n \in Retries : broker[j][n] > 0 => n <= row[j].attempts

RowFits(r) ==
    /\ r.status = "absent" => r.attempts = 0 /\ r.checkpoint = 0
    /\ r.status = "running" => r.attempts # 0
    /\ r.status = "succeeded" => r.checkpoint # 0

RowsFit ==
    \A c \in Calls : /\ RowFits(row[c])
                     /\ call[c] \in {"new", "quota", "create"}
                           => row[c].status = "absent"

IndInv == /\ TypeOK
          /\ RowsFit
          /\ WorkersFit
          /\ MessagesFit
          /\ QueuedIsClaimable
          /\ PublishedIsCheckpointed
          /\ AuditedOnce
          /\ OneJobPerScope
=============================================================================
