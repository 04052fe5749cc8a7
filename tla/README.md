# A TLA+ model of the enterprise AI platform

The platform trains, registers, promotes, monitors and retrains machine-learning
models for manufacturing companies. Its backend is a FastAPI application with
PostgreSQL, Redis/Dramatiq workers and MLflow. This directory models the parts in
which several processes change the same rows, registry entries or messages without
a common lock, and the algorithms whose result those processes act on. TLC checks
the models on small instances, and TLAPS proves most of the safety properties for
all instances.

Paths below are relative to `backend/app/` unless they start with `docs/` or
`backend/`.

## The system's parts

| Part | State | Operations | What is hard |
|---|---|---|---|
| Training jobs (`ml/jobs`, `repositories/ai_governance.py`) | `training_jobs` rows with an optimistic `state_version`, Redis messages, MLflow versions, the candidate alias, reference profiles, audit events | submit, cancel, execute one delivery, retry, recover stale jobs | at-least-once delivery, crashes between external and database effects, recovery racing a slow worker |
| Promotion (`ml/promotion`) | `model_promotion_audits`, the challenger and champion aliases | promote, reconcile pending audits | the registry and the database are not one transaction; check-then-act on aliases; reconciliation racing a live request |
| Controlled retraining (`ml/retraining`) | `model_retraining_requests`, their link to a training job, terminal audit events | evaluate, submit, synchronize, reconcile | unconditional updates from two processes, check-then-insert quotas |
| Datasets (`datasets`) | dataset versions and their processing state, the current-version pointer, stored objects | create version, process, retry, recover, archive | crash between commit and enqueue, versions ready out of order |
| AutoML (`services/automl*.py`) | studies, trials, execution slots with leases | coordinate, claim a trial and a slot, finish, reconcile, hand off the champion | lease expiry, lost dispatches, deadlines, cancellation |
| RAG (`services/rag.py`) | knowledge bases, index builds, conversations, messages | attach, build, cancel, recover, answer a message | cancellation and supersession during a long build, stale messages, stale sessions |
| Monitoring (`ml/monitoring`) | prediction events and outcomes, evaluations, alerts, a lease row | capture, evaluate, alert, schedule, retain | overlapping runs, row locks taken in different orders, deduplication |
| Machine alerts (`api/routes/pilot.py`, `services/operations.py`) | one alert per machine and model version | predict, transition, acknowledge | three writers with three protocols |
| Operations workspace (`services/operations.py`) | actions with timelines, shift handovers | assign, transition, note, hand over | read-check-commit on versions, audits in a transaction of their own |
| Accounts (`services/authentication.py`, `services/users.py`) | users, refresh tokens, reset tokens, audit trail | login, refresh, revoke, reset, demote | rotation races, the last administrator |
| Rate limit (`dependencies/rate_limit.py`) | a counter with an expiry in Redis | enforce | window boundaries, rounding, a store that fails |
| Plant and imports (`services/manufacturing.py`, `services/sensors.py`, `services/guided_data.py`) | factories, machines, sensors, data imports | create, edit, delete, map, validate, commit | rows written back without lock or version, validation that ages |
| Sensor uploads (`services/sensor_data_etl.py`) | upload jobs, readings | upload in chunks, single readings | duplicates that no constraint refuses |
| Schema (`backend/alembic`) | the database's tables, keys and rows | 22 upgrades and downgrades | order, data that a new constraint refuses |
| Everything else | independent rows, numerics, formatting, the frontend, deployment | | little that interleaves |

Parts interact through the database and the registry. A succeeded training job
supplies the evidence a promotion needs; a retraining request submits a training
job under an idempotency key derived from its own and follows that job to its end;
AutoML hands its champion to a training job; a monitoring evaluation is a reason to
retrain; the training worker itself calls the retraining synchronization after each
delivery; a knowledge base attaches dataset versions, which keeps their dataset from
being archived; predictions feed monitoring and raise machine alerts; every request
is made by a user whose tokens `Accounts` governs, on tables the migrations made.

## Conventions

In every module a step ends at a database commit or at a call of the registry, the
store or the broker, because those are the points between which other processes
run; in `Monitoring`, whose transactions wait for each other, a step is a statement.

Definitions keep the names of the functions they model where one function is one
action (`claim`, `cancel_message`, `login`).

A definition that no other uses and whose name extends the name of the definition
after it (`MatchesStatus` before `Matches`) is a faulty variant, the way a bug in
that code might look; with it in place of the correct one a property of the module
fails. They are there so that a property can be seen to say something.

*Scenes.* Where one instance with every process at once would be too large, the MC
module has a variable `scene` that never changes and restricts each behaviour to one
question (one job executes; two submissions race). Each scene says which processes
and faults it has, and no scene changes what a step does.

*Order instead of symmetry.* Where liveness is checked, symmetry sets are unsound;
interchangeable identifiers are instead used in order (`InOrder`, `SchemaInOrder`):
the first upload to begin is `u1`, the first call is `c1`, the first process to evaluate
is `c1`.

*Side by side.* `MCPlatform` and `MCOperations` check several modules that share no
row in one run, with a variable `part` that says which of them moves. Pure
algorithms stand beside a state machine in the same way: a variable `input` ranges
over the bounded inputs of the algorithm and, at one value, lets the system run.

*Conjunctions.* A run's property is often the conjunction of the named properties
of one component; the table of runs lists the parts, and the theorems prove them by
their parts.

## Modules

| Module | Models |
|---|---|
| `TrainingJobLifecycle` | the abstract specification: what the training-job subsystem promises about one job |
| `TrainingJobs` | submission, the worker, recovery, the queue, faults and time |
| `PromotionPolicy` | the two promotion policies as pure operators |
| `ModelPromotion` | promotion requests, audits, aliases and reconciliation |
| `Retraining` | retraining requests over `TrainingJobLifecycle` |
| `DatasetHistory` | the abstract specification: what the dataset subsystem promises about the versions of one dataset |
| `DatasetVersions` | the versions of one dataset: upload, processing, recovery, the current-version pointer, archiving |
| `AutoML` | one study: coordinator, trial workers, slots with leases, cancellation, reconciliation, the champion's job |
| `KnowledgeBases` | one knowledge base: attachments, index builds, worker, reconciliation |
| `GroundedChat` | a conversation on that knowledge base, composed with `KnowledgeBases` |
| `Chunking` | `chunk_text` as a pure function |
| `MonitoringReports` | profiles, drift, report status and alert conditions as pure operators |
| `Monitoring` | evaluations as transactions with row locks, their alerts, the scheduling lease; uses `MonitoringReports` |
| `ModelMonitoring` | an instance of `Monitoring` with constants and variables of its own, for the modules that have it beside others |
| `MachineAlerts` | the alert of one machine and model version and its three kinds of writers |
| `PredictionEvents` | capture, outcomes, the performance summary and retention |
| `UnitOfWork` | what a request's session does between its read and its commit; used by the five modules below |
| `Operations` | actions, notes, feedback, timelines and shift handovers |
| `Accounts` | users, sessions, password resets, administrators and the audit trail |
| `Plant` | factories, machines and sensors under overlapping requests |
| `GuidedImports` | the import of a file into that plant; extends `Plant` |
| `SensorUploads` | upload jobs and readings |
| `RateLimit` | one key of the fixed-window limiter |
| `SchemaOps` | the operations of a migration and what they do to a database |
| `MigrationChain` | the 22 revisions in those operations |
| `DeclaredSchema` | the schema that the ORM models declare |
| `SchemaMigrations` | upgrades and downgrades over a database with rows |
| `TrainingJobsProofs`, `ModelPromotionProofs`, `AutoMLProofs`, `GroundedChatProofs` | the theorems about the module they are named for and what it uses |
| `RetrainingProofs` | the theorems about `Retraining` and `Monitoring` |
| `DataProofs` | the theorems about `DatasetVersions` and `MonitoringReports` |
| `OperationsProofs` | the theorems about `Operations`, `MachineAlerts` and `PredictionEvents` |
| `PlatformProofs` | the theorems about `Accounts`, `Plant`, `GuidedImports`, `RateLimit`, `SensorUploads` and `SchemaMigrations` |
| `MC*` | instances for TLC |

### TrainingJobs

`row` is the `training_jobs` table reduced to the columns that guards read:
status, attempts, `state_version`, whether `queue_message_id` is null, the
checkpointed version, and whether the timestamp that matters (`queued_at` or
`started_at`) is before the recovery cutoff. `call` is the program counter of
each `submit` request, `worker` that of each Dramatiq thread with its copy of the
job, `recovery` that of each run of `python -m app.ml.jobs.reconcile`. `broker`
counts the ready messages of a job by how often they were retried.

* `Lookup`, `CheckQuota`, `Create`, `Enqueue`, `FailEnqueue`,
  `PersistIdentifier` are `TrainingJobService.submit`; `Cancel` is `cancel`.
* `Deliver` (claim or no-op), `Train`, `Checkpoint`, `AssignAlias`,
  `PersistProfile`, `Complete`, `Fail`, `Retry`, `Raise` are
  `TrainingJobWorker.execute` and the actor around it. Dramatiq's Retries
  middleware and Redis redelivery are external and modelled from their use.
* `ReleaseStale`, `ResetOrphaned`, `Resubmit`, `PersistReplacement`, `EndPass`
  are `StaleTrainingJobRecoveryService.reconcile`.
* `Age`, `LoseWorker`, `Redeliver`, `LoseMessage`, `LoseCall`, `LoseRecovery`
  are time and faults.

What training computes is not modelled: an attempt registers a version, named by
its job and attempt, or fails in one of the ways the worker distinguishes.

### PromotionPolicy and ModelPromotion

Metrics are integers over a common `Scale`, so that the division in the
regression policy is an exact comparison of products; the rounding of floating
point is not modelled. `Begin`, `ReadIncumbent`, `Decide`, `AssignAlias`,
`VerifyAlias`, `Finalize`, `CompleteFailed` are `ModelPromotionService.promote`,
`ListPending`, `Observe`, `Conclude` the reconciliation. `held` is a history
variable: every assignment the registry ever made.

### Retraining

A request, its idempotency key and its job share one name. The jobs move by
`TrainingJobLifecycle!Move`: retraining is checked against what the training-job
subsystem promises, which `TrainingJobs` is proved to keep. `JobsMove` moves any set of
jobs in one step, as one transaction of the recovery command does. `Evaluate` and
`Persist` are `_evaluate`; `Submit`, `SubmitFails`, `Attach`, `Undo`
are `resume_submission`; `Look`, `WriteTraining`, `WriteCandidate`, `Conclude`
are `synchronize`; `List`, `Advance`, `EndPass` the reconciliation command. Of the
policy checks only those that depend on other requests are kept (the active request,
the cooldown, the day and the week); the others, and an evaluation that is not to be
submitted, are one nondeterministic refusal.

### DatasetVersions

`dataset` is the row of one dataset, `row` its `dataset_versions` table, again
reduced to what guards read, `documents` the document records, `objects` the
object storage. An upload, its object and its version share one name.

* `Store`, `Register`, `Enqueue`, `Unqueue`, `Discard` are
  `DatasetService.create_version`; `Archive` is `archive_dataset`.
* `Attach` and `Detach` are the two operations of `services/rag.py` that matter
  to a dataset: attaching claims the same row an upload claims.
* `Deliver`, `Ingest`, `Finish`, `ReadAgain`, `Repoint`, `Fail`, `Release` are
  `DatasetProcessor.process`. `ReadAgain` is a read of its own because sessions
  do not expire what they loaded when they commit (`db/session.py`): the second
  attempt to move the pointer may see the dataset as it was.
* `FailExhausted`, `List`, `Reset`, `Reenqueue`, `EndPass` are
  `reconcile_stale`, run by a scheduled actor.
* `Age`, `LoseUpload`, `RaiseError`, `LoseWorker`, `LoseMessage`, `LosePass` are
  time and faults. `RaiseError` also stands for an error path that reads an entity
  the rollback before it has expired.

The conditional updates of the repository (`ClaimVersion`, `MarkReady`,
`ReleaseForRetry`, `MarkFailed`, `FailIfExhausted`, `Recover`) are functions of a
row, and the proofs have one lemma for each.

`DatasetHistory` is what remains without uploads, messages, claims and recovery: a
version is registered with the next number and content of its own, settles once, may
become the current one if its number is greater, and the dataset is archived when no
version is unsettled. A claim, a release or a reset changes nothing there (an unsettled
version may be worked on any number of times); one recovery statement may give up
several versions; `Finish` makes a version ready and current in one step, `Repoint` moves
the pointer later.

### AutoML

`study`, `trials` and `slots` are the three tables, `job` the training job of the
champion, `nudged` and `messages` the coordination and trial messages, `work` the
evaluations that workers have under way and `proc` the local state of the owner's
requests and of each coordination. The version of the study's row is replaced by
whether a process is `fresh`, which is all its comparisons tell.

* `create_study`, `cancel_study`, `CommitCancel` and `set_study_queue_identifier`
  are the owner's requests (`services/automl.py`).
* `CoordinatorStep` is one step of a coordination
  (`services/automl_execution.py`): read, start, materialize the trials, dispatch
  them one by one, pass the deadline, hand the champion to a training job, follow
  the job and finalize.
* `Skip`, `Claim`, `ClaimInvalid`, `Finish` are the trial worker with its slot and
  lease; `LeaseExpires` is the lease running out while the worker may still run.
* `Repair` is the periodic reconciliation (reclaim slots, requeue or fail trials,
  nudge studies).
* `MaterializationFails`, `CoordinatorDies`, `WorkerDies`, `DeadlinePasses`,
  `JobEnds` are failures and time.

Which configurations are sampled is not modelled; a trial evaluates to one of a few
scores or fails.

### KnowledgeBases, GroundedChat and Chunking

`kb`, `attached` and `builds` are the rows of one knowledge base, `queue` its
messages, `proc` the requests of its owner (attach, detach, build, cancel, archive),
the index workers and the reconciliation. Each write compares the version read; the
model keeps the version, because the worker's second read of the row, before it
publishes, returns what its session loaded at first.

`GroundedChat` adds one conversation: `answer` is the assistant's message of each
idempotency key, `ask` the requests of `submit_message` between their steps
(reserve the pair of messages, retrieve, generate, finish), with cancellation and
`fail_stale_messages`. What is retrieved is a set of pairs of a build and an indexed
version; embeddings, scores and the generated text are choices.

`Chunking` is `chunk_text`: positions of a text that is blank or not, cut at most a
chunk size apart, moved back to a blank, with an overlap.

### Monitoring, MonitoringReports, PredictionEvents and MachineAlerts

`Monitoring` has the evaluations of one or more model versions over scheduling
windows. `caller` is a scheduled run (acquire the lease, go through the aliases,
release) or a request (one version, one window). An evaluation is one transaction,
a statement at a time: insert the row (waiting for an open one with the same key, or
finding the existing one), read and write the alerts of the detected conditions,
clear the others, commit. `Deadlock` ends one of the transactions that wait in a
cycle. `Acknowledge`, `Resolve`, `ResolveStale`, `Retain`, `Expire`, `Crash` are what
people, maintenance, retention and failures do meanwhile. `saw` of an evaluation is
how many had been committed when it began.

`MonitoringReports` goes from the events of a window to the statuses of a report:
which reading counts as missing, in which bin it falls, when a class label is
unknown, the drift status against two thresholds and the conditions an alert is
raised for. The stability index is a parameter. A sum over profiles is written with a
recursive function over sets of indices (`SumFunction`), which the prover can unfold.
`HealthyWindowsAreCompared` says that a healthy report looked at events, profiled each
successful one, and had the minimum of finite readings of each feature and of the
predictions.

`PredictionEvents` has the capture that runs beside a prediction, outcomes with
optional external keys and their maturity, the performance summary, and retention by
batches. `MachineAlerts` has the alert that predictions raise and count, once per
cooldown, and the requests that assign, acknowledge, resolve or reopen it.

### Operations

`action` and `shift` are the two tables, `tab` and `desk` browser tabs with what
they show and have under way, `events` the number of timeline entries, `audited`
the entities with an audit entry. A request reads the row, checks it in Python and
writes its columns at its commit, so it may write columns over a row it has not seen
(`UnitOfWork` says which); the audit entry is a later transaction (`Audit`,
`AuditShift`), and a process may die before it.

### Accounts and RateLimit

A session is a refresh token. Every request reads and decides (`ReadLogin`,
`ReadRefresh`, `ReadPassword`, `ReadReset`, `ReadTarget`), then writes and commits,
then adds its audit entry. `parent` and `began` of a token are history: the token it
was rotated from and how many tokens there were when its request began.

`RateLimit` counts time in ticks, several to the second, because the store expires
keys by the millisecond and answers their time to live in rounded seconds. `passes`
holds the requests let through in the last window's length, `refused` the latest answer
429 and the wait it named.
`enforce_without_store` is the guard when the store fails: one kind of key fails
open, the other closed.

### Plant, GuidedImports and SensorUploads

A delete marks a row; a factory's machines go with it, a machine's sensors stay.
Requests write what they decided over whatever the row is by then. An import is
mapped, validated (a report about the plant at that time), confirmed and committed;
`overlapped` remembers the imports two requests worked on at once. `SensorUploads`
reads a file chunk by chunk and counts valid and invalid rows; only the code keeps
two readings of one sensor and time apart. A reading has the number `nth` among those
of its sensor, time and job in place of its identifier, so that readings that repeat
each other are still two.

### SchemaOps, MigrationChain, DeclaredSchema, SchemaMigrations

A database is its tables, the columns later migrations add, foreign keys with their
delete rules, unique and check constraints, NOT NULL columns and rows. Each revision
is a sequence of operations for `upgrade()` and one for `downgrade()`; a command runs
the scripts to a target in one transaction (`alembic/env.py`), stops at the first
operation that does not apply to the schema (`stopped = "schema"`) or that the rows
refuse (`"data"`), and changes nothing if it stops. Rows are inserted at the
revisions named in `Stops`. `Revised[k]` is an empty database after the first `k`
upgrades and `SchemaAt[k]` its schema. Two assumptions are computations on the scripts
as they are written, which TLC carries out whenever it starts the `platform` run:
`ChainAssumption`, that on an empty database each of the 22 upgrades runs and its
downgrade leads back to the schema before it, and `HeadAssumption`, that the upgrades
end at the schema the ORM models declare.

## What the runs check

| Run | Instance | Properties | Shows |
|---|---|---|---|
| `training_jobs` | scene "execution": 1 job, 2 attempts, 2 workers, 1 recovery command, 1 fault, 1 overtaking cutoff; scene "submission": 2 demo calls, a key or none, 2 payloads, a quota of 1 active and 2 a day | `QueueIsSound` (types, queued jobs have an attempt left, one job per scope, retries suffice), `AuditedOnce`, `PublishedIsCheckpointed`, `ImplementsLifecycle`, `QuotaRaceOnly`, `ExecutedJobEnds` | the rows implement `TrainingJobLifecycle`; events are exact; only the kept version is published; only a race exceeds the quota; the job ends |
| `promotion` | 2 requests, 2 versions, 1 reconciliation command, 1 fault; beside it all triples of snapshots with metrics up to 5 or missing | `AuditsAreTruthful`, `HolderIsGoverned`, `OutcomeIsFinal`, `EveryAuditSettles`, `PoliciesAreOrdered` | aliases are governed, audits truthful, final and in the end settled; accepting is transitive and not mutual |
| `retraining` | one evaluation; two that race in one scope; two in two scopes while cooldown, day and week pass; 1 command, 1 worker, 2 faults | `RequestsAgreeWithJobs`, `LimitsRaceOnly`, `RequestedOnceEnds` | a request's end, link and audit agree with its job; limits are exceeded by races only; a request ends for good |
| `datasets` | one upload with 2 workers, recovery, 1 retry, 2 enqueue attempts, 1 fault; two uploads with attach, detach and archive; two of which one is recovered late | `DatasetsAreConsistent`, `SettledIsFinal`, `ImplementsHistory`, `VersionsEnd` (`RecoveredSettles`, `OnlyUnheardStays`) | the rows implement `DatasetHistory`, so that the current version only moves forward and an archived dataset rests; documents belong to ready versions; a version that a worker took up settles |
| `automl` | 1 study of up to 2 trials, 1 slot, 2 workers, 2 attempts, 2 scores, 1 disturbance; or two coordinations on a study of 1 trial | `StudyIsSound` (`TypeOK`, `SlotsBoundTheTrials`, `ResultOfLastAttempt`, `CancelWins`, `EndsWithItsBest`), `LoneStudyEnds` | slots are never over-committed, no late result is believed, the study ends as its trials and its owner say |
| `knowledge_bases` | 2 dataset versions, 2 builds, 4 requests of 2 clients, 1 worker, 1 enqueue attempt, 1 fault; 2 chat requests on one key; beside it all texts of 8 positions with chunks up to 4 | `IndexIsSound` (`TypeOK`, `IndexingWhileBuilding`, `ServesWhatIsAttached`, `CitationsAreIndexed`), `AnswersAreFinal`, `WorkEnds` (`BuildsEnd`, `AnswersEnd`), `NothingIsCutAway` | what is served covers what is attached; answers are final and cite indexed chunks; builds and answers end |
| `monitoring` | 2 processes, 1 version, 2 windows, 2 reports, 1 disturbance; beside it 5,735 inputs of the report algorithms | `AlertsFollowEvaluations` (`TypeOK`, `OneEvaluation`, `OccurrencesMatch`, `LaterClears`, `LeaseExcludes`), `EvaluationsEnd`, `ReportsAreSound` (`ReadingsAreBinned`, `DriftIgnoresBatches`, `HealthyWindowsAreCompared`) | alerts count and clear as the evaluations say; every evaluation ends; reports do not hang on batching |
| `operations` | 2 tabs of 2 users on 1 action with 4 events, 2 desks on 2 shifts; or 2 requests on a machine's alert; or 2 calls on 2 predictions | `WorkIsRecorded` (`TypeOK`, `CompletionIsRecorded`, `TimelineIsComplete`, `OneActiveShift`, `HandoverIsSigned`), `OncePerCooldown`, `ResolvedStays`, `EventsAreAccounted` (`EachOutcomeCountsOnce`, `AttemptsAreAccounted`), `RetentionStopsForGood` | overlapping requests lose no record; an alert counts once per cooldown; no prediction is dropped silently |
| `platform` | schema: 4 targets, 2 rows of 4 tables; accounts: 2 requests, 2 users, 3 sessions or changes; limit: 2 requests in 2 seconds of 3 ticks, 8 ticks; imports: 2 requests, 2 writes, 1 import; uploads: 2 requests, 2 jobs | `SchemaIsSound` (`TypeOK`, `SchemaNeverStops`, `SchemaFollowsRevision`, `HeadIsDeclared`), `DataStopsAreKnown`, `SessionsAreSound` (`TypeOK`, `RotationIsLinear`, `TrailIsComplete`), `AccountsAreGoverned` (`RevocationReaches`, `AdministratorRemains`), `LimitIsSound` (`IntervalIsBounded`, `RetryAfterIsEnough`), `ImportsAreSound` (`TypeOK`, `ImportedOnce`), `EditsAreOrdered` (`OrphansComeLate`, `RangesAreOrdered`, `ValidationPredictsImport`, `FinishedStays`), `UploadsAreSound` (`TypeOK`, `ReadingsBackTheCounts`, `UploadsDoNotRepeat`) | what the rest stands on |

Three runs show that the code does not do what a document or a comment says;
`PROJECT.json` quotes each line:

* `promotion_stale_challenger`: the challenger alias can move between the check
  and the champion assignment, and a version that is no longer challenger becomes
  champion.
* `promotion_rejected_audit`: a rejected audit that was left pending can be
  reconciled to succeeded.
* `machine_alert_risk`: once the alert of a machine and model version was resolved,
  the unique key refuses every further warning or critical prediction for it.

More limits are visible in the models without a run of their own, because no
property that holds could be stated about them, or because the property that is
checked is stated with the exception:

* Training-job recovery goes by age alone. It may requeue a job whose worker still
  trains, so that two workers train it at once (the second result is refused); and
  it resets and resends queued jobs whose message identifier is stored as well as
  those without one.
* The demo quota and the retraining limits count rows in one step and insert in
  another (`CheckQuota`/`Create`, `Evaluate`/`Persist`), so concurrent calls can
  exceed them together. `QuotaRaceOnly` and `LimitsRaceOnly` say that nothing else
  does, except that a retraining request that had ended is revived by the late
  failure of its submission (`Undo`).
* `Conclude` in `Retraining` is conditional on the request alone, so the command
  and a worker can both record the end of one request: `events` may reach two.
* A dataset version whose first message was never sent, or was lost, stays pending:
  recovery takes up a pending version only with the error code of an earlier
  attempt (`OnlyUnheardStays`).
* A ready version need not become current, even if it is the newest: the second
  attempt to move the pointer may fail for a stale read, and there is no third.
* When an enqueue reports an error although the broker took the message, the object
  is deleted even if the version has become ready in the meantime.
* A cancelled study, or one that failed before its first trial ran, may keep queued
  trials.
* The completion summary of an action is lost when a request repeats the summary it
  read and a reopening that overlaps it cleared the column: the session writes only
  columns whose value changed (`services/operations.py`). The completion's time is
  never lost, which is what `CompletionIsRecorded` says.
* The timeline of a machine's alert may have an entry twice for requests that overlap.
* An older window that is evaluated later than a newer one resolves the alert the
  newer one raised: `LaterClears` orders evaluations by when they began, not by
  their windows.
* A password reset token can be used by two requests that overlap, and a refresh
  token rotated by two (`RotationIsLinear` says that this needs the overlap).
* Rejecting a row of a wide file leaves the cells before the offending one stored.
* Deleting a machine leaves its sensors live, and an edit that had read a live
  factory can put a machine into a deleted one (`OrphansComeLate`).
* An upload that crashes leaves its job in `PROCESSING`; one that is aborted may have
  counted readings that were rolled back.
* Downgrading 0015 and upgrading again puts the rows of all companies into one.

### Bounds

Every bound is a constant or a named constraint. Two of each kind of process suffice
for every race that the code's pairwise guards (an expected version, a status, a
unique key) are there to decide; two attempts make a first and a last one. One job,
study, knowledge base or action is enough for execution and recovery because they
share nothing but a quota, a slot or an alias, and where they do there are two. One
fault reaches every single point of failure, and the theorems below hold for any
number.

* `MaxTimeouts` bounds only cutoffs that overtake a job still in progress. In
  `Retraining` the count of terminal events stops at two, which stands for more.
* In `automl` the second attempt of a trial scores the lower value, which leaves
  every order of two trials' results, and a study without registration has one
  trial, because what registration adds begins when the last trial has ended.
* In `operations`, `Apart` lets the two halves of the workspace meet only in the
  count of open actions, which is all that they share.
* In `platform`, `SessionsOrChanges` lets sessions, resets, changes and requests
  under way be three together: a forked rotation takes three tokens, a refresh that
  races a revocation one token and two requests, the loss of the last administrator
  two changes. `Overlaps` lets two requests overlap on the plant or on an import, but
  not both at once. The clock of the rate limit covers a window, the next and the
  rounding between them; `FewRequests` lets one request more come than a window, or two,
  let through (neither bounds the theorem, which is about any number).
* In `monitoring` one version suffices because alerts of two versions share no row;
  two windows make an older and a newer evaluation; two conditions are enough for
  two transactions that take the alerts' rows in different orders.

Deadlock is not checked in the runs whose system can come to rest: calls, requests
and evaluations are finitely many, and when they are done and nothing is stale
nothing is left to do. A wait of everyone for everyone is instead excluded by the
liveness properties, in `monitoring` with the database's own deadlock detection as
an action.

### Fairness

* Request handlers, workers and commands take the step they can take: they are
  scheduled by an event loop or an operating system. Their deaths are separate,
  bounded actions. This is assumed in `training_jobs`, `promotion`, `retraining`,
  `datasets` and `automl`, in the scenes whose liveness is checked. In
  `knowledge_bases` no request and no worker has to make progress: only the
  reconciliation (`Reconcile`, `fail_stale_messages`) runs on.
* Recovery and reconciliation commands are started again and again. For training
  jobs this is the operator's runbook or cron entry that the documentation
  prescribes; for retraining there is also a scheduled actor, and for datasets,
  AutoML and knowledge bases only that.
* Time passes. In `TrainingJobs` only a job that nobody is going to move is sure
  to pass its cutoff; a cutoff that overtakes a job in progress may never come. In
  `DatasetVersions` every version in progress ages, whether or not a worker holds it.
  In `AutoML` deadlines and leases run out.
* In `Retraining` and `AutoML` training jobs end: `ExecutedJobEnds` is the reason.
* `Monitoring` alone assumes strong fairness: a statement that waits for a row is
  enabled again and again as other transactions end, and the database grants the row
  to those that wait in turn.

## What is proved

The modules `*Proofs` are checked by TLAPS. Every theorem is about the specification
a run checks (`Spec` of the component, or of its instance in an MC module) and holds
for every value of the constants that satisfies the assumptions named in the modules:
null values distinct from real ones, attempts at least one, bounds natural numbers,
and finite sets where something is counted. The bounds of TLC and its scenes are no
hypotheses, unless the specification itself is that of an MC module. What the theorems
do share with the models are their abstractions.

All proofs have one shape. The property is not inductive, because a process acts on
what it has read; the inductive invariant adds, for each step a process can be at,
what it knows: what it read that is still so, and what it may conclude from a version
that has not changed (`WorkersFit`, `Knows`, `RequestKnows`, `TabKnows`, `DeskKnows`,
`AskKnows`). One lemma per action shows what the action writes, and a few lemmas per
module show which changes of a row keep what the others know (`Lasts`, `Quiet`,
`Moved`, `Grows`).

**Training jobs** (`TrainingJobsProofs`). `IndInv` adds what each worker's copy says
about the row (as long as the versions agree, nothing has happened to the job; a worker
past the checkpoint holds the version the row keeps, which never changes), that a
message has been resent at most once per attempt, from which `max_attempts - 1` retries
suffice, and which rows are possible. From it follow `QueueSoundness` with its parts
`TypeCorrect`, `QueuedJobsAreClaimable`, `Idempotency` and `RetriesSuffice`,
`PublicationIsSafe`, `AuditIsExact`, `QuotaIsRaced`, and `LifecycleRefinement`: every
step of `TrainingJobs` is a step of `TrainingJobLifecycle` or leaves its ledger alone.
`QuotaIsRaced` needs that a submission about to create has counted fewer jobs than the
limits (`QuotaCounted`).

**Promotion** (`ModelPromotionProofs`). `IndInv` adds, for each step of a request, what
its audit says and that a version being finalized was held, and for each reconciliation
command that a held-back verdict was true when it was formed. From it follow
`HoldersAreGoverned`, `AuditsTellTheTruth` with its parts, and the action property
`OutcomesAreFinal`. `RegressionLadder`, `ClassificationLadder` and `PoliciesOrder` prove
for all integers what the run checks for small ones.

**Retraining** (`RetrainingProofs`). A request's end is written by agents that looked at
the job earlier, unconditionally; it is true because an agent that knows an end knows
the job's only end (`Knows`, over the refined lifecycle, in which ended jobs rest), and
because links are never taken back. `RequestAgreement` and `LimitsAreRaced` follow. `JobsAsPromised`
says that every behaviour of `Retraining` is one of `TrainingJobLifecycle` in its jobs,
and `LifecycleRefinement` that every behaviour of `TrainingJobs` is one too: what is
proved of retraining holds whatever steps the job subsystem takes of those it is proved to
take, those included that move several jobs at once, which the two scopes of the run do not
need. `LimitsAreRaced` needs what an evaluation has counted (`Counted`); its proof showed that two
evaluations that overlap are not the only way past a limit: a request that had ended can
be revived by the late failure of its submission, and `LimitsRaceOnly` says so.

**Datasets** (`DataProofs`). That the pointer moves strictly forward needs
that numbers differ and that the current version is ready and hence registered; that
registering disturbs no document and no settled version needs that an upload registers
once. Most actions change one row in a way the properties do not notice: `Quiet` says
which, one lemma per conditional update shows it, and `QuietKeeps` draws the conclusion
for all of them at once. `DatasetConsistency` and the action properties
`SettledVersionsAreFinal` and `PointerMovesForward` follow, and `HistoryRefined`: every
step of `DatasetVersions` is a step of `DatasetHistory` or leaves it alone. There a quiet
step is one in which the versions that fail in it, if any, are given up; registering,
becoming ready, moving the pointer and archiving are the steps with lemmas of their own.

**Profiles and drift** (`DataProofs`). For any readings, labels, edges and thresholds:
`ReadingsBinned` (the bins of ascending edges hold each finite reading once),
`SplitsOfColumns` and `SplitsOfLabels` (the drift of a column or of labels is the same
whether they come in one request or in two), `HealthyCompared`, and with them
`ReportsSoundAlways` for the property of the run. The library's induction theorems cannot
be instantiated, so induction on sets of indices goes by the least element of the set of
counterexamples (`NaturalsBySteps`, `SubsetsBySteps`); from it a sum is unique (`SumIs`),
counts of a concatenation add up (`CountOfBoth`), and a verdict depends on the sums alone
(`VerdictOfSums`, `LabelVerdictOfSums`). `SplitsOfLabels` has as hypothesis that a profile
keeps a count of each label; the code keeps the most frequent hundred, and with more
labels than that two requests may well drop different ones. The assumption on the
constants (`ReportsAssumption`) is that of the settings: a minimum and limits
of at least one, and at least as many labels kept as the inputs of the run have, two.

**Monitoring** (`RetrainingProofs`, over the instance `M` of `ModelMonitoring`). What an open
transaction has written is not in the tables yet, so the invariant is about the tables
as committed and, for each process, what it knows of them (`CallerKnows`): its version
and window have no committed evaluation (`Fresh`); what it has written is what it will
commit, because the others wait for its rows (`Outstanding`, `Disjoint`); and what it
neither detects nor will look at again is resolved, or was detected by an evaluation
committed after it began (`RestIsClear`). A commit then adds one to the occurrences of
an alert and one to the evaluations that detected it. `AlertsFollow` follows with all
its parts; for the lease, the owner in the row is the only live holder (`LeaseHeld`).
The assumption on the constants (`MonitoringConstants`, in `ModelMonitoring`) is that no
process is the null owner, that there is a window and that the other bounds are natural
numbers.

**AutoML** (`AutoMLProofs`). `IndInv` has the trials with their slots and evaluations
(`Rows`), the study with its champion and job (`Study`), what coordinations know
(`Processes`), and that nothing precedes the study. A live trial is in a slot of its own
because only `claim` fills a free one; late results fail because an attempt number never
comes back. `EndsWithItsBest` needs that what a coordination past the choice of the
champion has read lasts: ended trials stay ended. The proof failed at first for a study
that fails at its deadline while another coordination is about to insert its trials; the
exception in the property is that case. `StudySoundness` follows.

**Knowledge bases and chat** (`GroundedChatProofs`). The version of the knowledge base
ties each process's copy to the row: with the same version the status is the same, and
what a build indexed is what is attached (`Knows`). The count of
enqueue attempts keeps its type only because the settings limit it to 1 to 100, the
limit that the repository's statement has too. `IndexSoundness` composes it with the conversation, whose requests hold evidence of
succeeded builds, which no step touches again; `AnswersFinality` is the action property.
`ChunksCover` is about `Chunking`: for any text, any chunk size of at least one and any
overlap, every position that is not blank is in a chunk. The next chunk always starts
later, so the induction goes from the end of the text: if what is cut from every later
start covers the text from there, so does what is cut from this one.
`NothingCutAway` draws the conclusion for the run.

**Operations, machine alerts, prediction events** (`OperationsProofs`).
`WorkRecords`: an accepted request may write over a row it did not see, but only the
columns it changed, so the invariant says what those can be (`Changes`), and that the
timeline has room for what is under way (`Reserved`); for shifts, which of three changes
is under way and what the row has reached since (`Starts`, `Ends`, `Acknowledges`).
Times had to be modelled as versions rather than null or not: with a null flag alone a
completion that overlaps a reopening seemed to lose its time. `DetectionsAreCounted` and
`ResolutionStays` rest on what a request read (`Counted`); `EventsAccounting` names the
set of deleted times that the property only asserts to exist, and a bijection between
the four cells of the summary and the mature outcomes; `RetentionStops` is about the
oldest batch.

**Accounts, the plant and imports** (`PlatformProofs`). `SessionsSoundness` and
`AccountsGovernance` rest on what a refresh knows of its token (`RequestKnows`) and on
counting the requests that have an audit entry to write. `ImportsSoundness` and
`EditsOrder` are about the plant and imports of `MCPlatform`: any factories, machines,
sensors, requests and imports, with the one machine name, sensor name and file of that
instance. An import that two requests never overlapped on is written by one that read
the row as it is, and a report that does not block says that the rows are accepted as
long as the plant has not been written to (`SoundReport`).

**The rate limit** (`PlatformProofs`). `LimitSoundness`: with a key, what was counted since
its window began is in its count, and what was counted before belongs to one earlier
window, so that each part is within the limit; without a key the last window is over
(`CountsAreBounded`). Waiting as told is enough because the store rounds a time to live by
at most half a second, the code's limit of an hour cuts no wait short, and a refusal
belongs to the window that is there (`RefusalIsPast`). The assumption on the constants is
that of the settings: a limit and a window of at least one, a window of at most an hour.

**Uploads** (`PlatformProofs`). `UploadsSoundness` is about any jobs, files and keys. What a
request has read of a job is backed by readings too (`ReadIsBacked`), which makes the count
that it writes over the job right whichever request wrote in between; and while requests
have not overlapped, what an upload is about to store has keys that are not stored, and a
single reading was accounted for when it began (`AddsNoRepeat`). That the rows stored are as
many as the keys is a bijection (`NextRowsCount`).

**The schema** (`PlatformProofs`). `SchemaSoundness` is about any users, companies, names
and rows, where the run has a few. Whether an operation applies is decided by the schema
alone (`SchemaDecides`), and so is what it does to the schema (`EffectOnSchema`, over
`NextSchema`); hence a script runs on rows as it does without them, operation by
operation, or stops on data, but never on the schema (`StepsAlike`, `ScriptOnRows`; the
induction along a script goes by the least counterexample). The invariant is that the
schema is that of the revision, at every migration of a command under way too, and that
the transaction's copy is the database at the revision it began at (`SchemaInv`). What the
scripts do to an empty database is what is left, and the two assumptions state it.

Only model-checked:

* All liveness properties (`ExecutedJobEnds`, `EveryAuditSettles`, `RequestedOnceEnds`,
  `VersionsEnd`, `LoneStudyEnds`, `WorkEnds`, `EvaluationsEnd`): the prover does not
  reason about fairness.
* `DataStopsAreKnown`: which rows make which script stop. It would take what each of some
  120 operations does to the contents of rows, followed from the revision the rows were
  inserted at, and is checked for two rows of four tables, which suffice for every
  constraint that compares two rows of one table.

Every other safety property of a passing run is stated by a theorem.

## Not modelled

Numerics (training, statistics, embeddings), parsing and formatting, HTTP
schemas, authorization beyond what a modelled decision itself looks at, observability,
the frontend and deployment. The contents of a specification are its fingerprint. Of
datasets: the creation and naming of a dataset, the snapshot a training job takes of a
version, the branch for a dataset that no longer exists (nothing deletes one) and the
limit of 100 versions per recovery statement. Of AutoML: sampling. Of retraining: the
administration of policies and the comparison of metrics. Of monitoring: error metrics,
latency statistics and paging. Of imports: decoding, column suggestions and warnings
about outliers. Of the schema: indexes that are not unique, column types and server
defaults. `PROJECT.json` has the reason for each part that is left out. SQL isolation is
taken as the code uses it: each conditional UPDATE is atomic and a commit makes it
visible; where rows are locked for the rest of a transaction (`Monitoring`), the locks
are modelled.

## What comes next

1. `DataStopsAreKnown` for any rows: an invariant for each revision that says which columns
   the rows of the tables concerned have, and that no operation but those of 0011, 0015
   and its downgrade compares two of them.
2. The creation of datasets and the snapshot a training job takes of a version, which
   would join `DatasetVersions` to `TrainingJobs`.
