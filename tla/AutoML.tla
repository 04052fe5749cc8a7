------------------------------- MODULE AutoML -------------------------------
(***************************************************************************)
(* One AutoML study (services/automl.py, services/automl_execution.py,     *)
(* repositories/automl.py): its row, its trials and the execution slots,   *)
(* worked on by the owner's requests, by coordinations and trial workers   *)
(* that consume the queue, and by the periodic reconciliation.             *)
(*                                                                         *)
(* A step is a read, a transaction up to its commit, or a call of the      *)
(* broker.  The row of the study carries a version that every write raises *)
(* and that most writes compare with the one read; a process is `fresh'    *)
(* while no other process has written the row since it read it.  The rows  *)
(* of trials and slots have versions too; these are left out, because a    *)
(* write of a trial always changes its status, message or attempt count    *)
(* and none returns to an earlier row: equal rows have equal versions.     *)
(* A session keeps the rows it loaded (expire_on_commit=False), so a       *)
(* coordination works until its end on the study and trials it read first. *)
(* After a rollback the loaded rows are expired and the next use of one    *)
(* raises: the actor ends and its message is delivered again.              *)
(* Clocks are not modelled: a deadline or a lease passes at some time.     *)
(***************************************************************************)
EXTENDS Naturals, FiniteSets, FiniteSetsExt

CONSTANTS
    Clients,          \* concurrent requests of the owner
    Coordinators,     \* processes that consume coordination messages
    WorkerCount,      \* processes that consume trial messages
    None,
    TrialBudget,      \* trial_budget
    MaxConcurrent,    \* max_concurrent_trials
    SlotCount,        \* automl_global_execution_slots
    MaxAttempts,      \* max_attempts of a trial
    Scores,           \* primary metric values, larger ones better
    MaxDisturbances   \* bound: cancellations, crashes, failed broker calls, and
                      \* writes of an identifier that outdate a coordination

ASSUME AutoMLConstants ==
    /\ WorkerCount \in Nat /\ TrialBudget \in Nat \ {0} /\ MaxConcurrent \in Nat \ {0}
    /\ SlotCount \in Nat \ {0} /\ MaxAttempts \in Nat \ {0}
    /\ Scores \subseteq Nat \ {0}
    /\ MaxDisturbances \in Nat
    /\ None \notin 1 .. TrialBudget

VARIABLES
    study,      \* the automl_studies row
    trials,     \* the automl_trials rows
    slots,      \* the automl_execution_slots rows
    job,        \* the training job submitted for the champion
    nudged,     \* a coordination message is waiting
    messages,   \* the trials with a waiting message
    proc,       \* the local state of every request and coordination
    work,       \* the evaluations that trial workers perform
    spent       \* disturbances so far

vars == <<study, trials, slots, job, nudged, messages, proc, work, spent>>

Trials == 1 .. TrialBudget
Slots == 1 .. SlotCount
Procs == Clients \cup Coordinators

Ended == {"succeeded", "failed", "cancelled"}

StudyRow ==
    [status : {"absent", "queued", "running"} \cup Ended, register : BOOLEAN,
     cancel : BOOLEAN, deadline : {"unset", "ahead", "passed"},
     best : Trials \cup {None}, linked : BOOLEAN]

\* sent: the trial is queued and has a queue_message_id.  The identifier is kept
\* when the trial leaves the queue and cleared when it returns to it.
TrialRow ==
    [status : {"absent", "queued", "running"} \cup Ended, sent : BOOLEAN,
     attempts : 0 .. MaxAttempts, lease : {"none", "live", "expired"},
     score : Scores \cup {0}, scoredBy : 0 .. MaxAttempts]

NoTrial == [status |-> "absent", sent |-> FALSE, attempts |-> 0,
            lease |-> "none", score |-> 0, scoredBy |-> 0]

\* An evaluation: the trial a worker claimed, in which slot and attempt.
Evaluation == [trial : Trials, slot : Slots, attempt : 1 .. MaxAttempts]

NoTrials == [t \in Trials |-> NoTrial]

NoStudy == [status |-> "absent", register |-> FALSE, cancel |-> FALSE,
            deadline |-> "unset", best |-> None, linked |-> FALSE]

\* A process holds the study it read and, of the trials it listed, those it has
\* still to dispatch, each with the attempts it was listed with.
Process ==
    [pc : {"idle", "cancel", "start", "slots", "cancelled", "list", "relist", "materialize",
           "dispatch", "mark", "best", "succeed", "fail", "handoff", "link"},
     seen : StudyRow, todo : SUBSET [trial : Trials, attempts : 0 .. MaxAttempts],
     fresh : BOOLEAN]

Idle == [pc |-> "idle", seen |-> NoStudy, todo |-> {}, fresh |-> FALSE]

Reading(pc, row) == [pc |-> pc, seen |-> row, todo |-> {}, fresh |-> TRUE]

Init ==
    /\ study = NoStudy
    /\ trials = NoTrials
    /\ slots = <<>>
    /\ job = [status |-> "absent", trial |-> None]
    /\ nudged = FALSE
    /\ messages = {}
    /\ proc = [p \in Procs |-> Idle]
    /\ work = {}
    /\ spent = 0

Moves(p, new) == proc' = [proc EXCEPT ![p] = new]
To(p, pc) == proc' = [proc EXCEPT ![p].pc = pc]
Rest(p) == Moves(p, Idle)
At(p, pc) == proc[p].pc = pc
Disturbed == spent < MaxDisturbances /\ spent' = spent + 1

-----------------------------------------------------------------------------
(* The repository.                                                         *)

\* A write of the study outdates what the other processes have read of it.
Writes(p, row, new) ==
    /\ study' = row
    /\ proc' = [q \in Procs |-> IF q = p THEN new ELSE [proc[q] EXCEPT !.fresh = FALSE]]

AnyVersion(p) == study.status = "running"

\* The WHERE clause of conditionally_transition_study from running, with the
\* version the process holds.
StudyRuns(p) == study.status = "running" /\ proc[p].fresh

\* The WHERE clause of set_best_trial, link_champion_training_job and
\* update_study_error: the version alone.
StudyIs(p) == proc[p].fresh

\* mark_queued_trials_cancelled
QueuedCancelled ==
    [t \in Trials |->
        IF trials[t].status = "queued"
        THEN [trials[t] EXCEPT !.status = "cancelled", !.sent = FALSE]
        ELSE trials[t]]

Live == {t \in Trials : trials[t].status = "running" /\ trials[t].lease = "live"}

Lapsed(t) == trials[t].status = "running" /\ trials[t].lease = "expired"

\* The slots claim_trial_and_slot may take: free, or held by a lapsed trial.
FreeSlots ==
    {s \in DOMAIN slots : slots[s] = None \/ trials[slots[s]].lease = "expired"}

\* The conditions of claim_trial_and_slot.
Claimable(t) ==
    /\ trials[t].status = "queued" /\ trials[t].attempts < MaxAttempts
    /\ study.status = "running" /\ ~study.cancel /\ study.deadline # "passed"
    /\ Cardinality(Live) < MaxConcurrent
    /\ FreeSlots # {}

\* The rows claim_trial_and_slot writes.
ClaimedTrial(t) ==
    [trials EXCEPT ![t] = [trials[t] EXCEPT !.status = "running", !.lease = "live",
                                            !.attempts = trials[t].attempts + 1, !.sent = FALSE]]
ClaimedSlot(s, t) == [slots EXCEPT ![s] = t]

\* reclaim_expired_slots
ReclaimedSlots ==
    [s \in DOMAIN slots |->
        IF slots[s] # None /\ Lapsed(slots[s]) THEN None ELSE slots[s]]

OnlyRetriable ==
    [t \in Trials |->
        IF Lapsed(t) /\ trials[t].attempts < MaxAttempts
        THEN [trials[t] EXCEPT !.status = "queued", !.lease = "none"]
        ELSE trials[t]]

\* release_expired_trials and fail_exhausted_expired_trials
ReleasedTrials ==
    [t \in Trials |->
        IF ~Lapsed(t) THEN trials[t]
        ELSE IF trials[t].attempts < MaxAttempts
             THEN [trials[t] EXCEPT !.status = "queued", !.lease = "none"]
             ELSE [trials[t] EXCEPT !.status = "failed", !.lease = "none"]]

-----------------------------------------------------------------------------
(* Requests of the owner.                                                  *)

\* AutoMLService.create_study; requests under the same idempotency key replay it.
NewStudy(register) == [study EXCEPT !.status = "queued", !.register = register]

\* The route creates the study and sends the first coordination message, whose
\* failure is ignored.
create_study(u) ==
    /\ At(u, "idle") /\ study.status = "absent"
    /\ \E register \in BOOLEAN : study' = NewStudy(register)
    /\ \/ nudged' = TRUE /\ UNCHANGED spent
       \/ Disturbed /\ UNCHANGED nudged
    /\ UNCHANGED <<trials, slots, job, messages, proc, work>>

\* Whoever sent a coordination message, the route or the reconciliation, then
\* writes its identifier into the study (set_study_queue_identifier).  Apart
\* from the identifier, the write only outdates what the others have read.
set_study_queue_identifier ==
    /\ study.status \in {"queued", "running"} /\ \E p \in Procs : proc[p].fresh
    /\ Disturbed
    /\ proc' = [p \in Procs |-> [proc[p] EXCEPT !.fresh = FALSE]]
    /\ UNCHANGED <<study, trials, slots, job, nudged, messages, work>>

cancel_study(u) ==
    /\ At(u, "idle") /\ study.status # "absent" /\ Disturbed
    /\ Moves(u, Reading("cancel", study))
    /\ UNCHANGED <<study, trials, slots, job, nudged, messages, work>>

\* conditionally_transition_study from queued, request_study_cancellation from
\* running: the row must be in the version read.
MayCancel(u) ==
    /\ StudyIs(u) /\ ~proc[u].seen.cancel
    /\ proc[u].seen.status \in {"queued", "running"}

\* AutoMLService.cancel
CommitCancel(u) ==
    /\ At(u, "cancel")
    /\ IF MayCancel(u)
       THEN /\ Writes(u, [study EXCEPT !.cancel = TRUE,
                          !.status = IF @ = "queued" THEN "cancelled" ELSE @], Idle)
            /\ trials' = QueuedCancelled
       ELSE Rest(u) /\ UNCHANGED <<study, trials>>
    /\ UNCHANGED <<slots, job, nudged, messages, spent, work>>

-----------------------------------------------------------------------------
(* Coordination: AutoMLCoordinator.coordinate and its helpers.             *)

\* The coordination ends the study, unless it changed meanwhile.
Ends(c, status) ==
    IF StudyRuns(c) THEN Writes(c, [study EXCEPT !.status = status], Idle)
    ELSE Rest(c) /\ UNCHANGED study

Coordinate(c) ==
    /\ At(c, "idle") /\ nudged /\ nudged' = FALSE
    /\ IF study.status \in Ended THEN UNCHANGED proc
       ELSE Moves(c, Reading(IF study.status = "queued" THEN "start" ELSE "slots", study))
    /\ UNCHANGED <<study, trials, slots, job, messages, spent, work>>

StartStudy(c) ==
    /\ At(c, "start")
    /\ IF study.status = "queued" /\ proc[c].fresh
       THEN LET started == [study EXCEPT !.status = "running", !.deadline = "ahead"] IN
            Writes(c, started, Reading("slots", started))
       ELSE Rest(c) /\ UNCHANGED study
    /\ UNCHANGED <<trials, slots, job, nudged, messages, spent, work>>

SlotsFromZero(c) ==
    /\ At(c, "slots")
    /\ slots' = [s \in 0 .. SlotCount |-> IF s \in DOMAIN slots THEN slots[s] ELSE None]
    /\ trials' = trials
    /\ To(c, IF proc[c].seen.cancel THEN "cancelled" ELSE "list")
    /\ UNCHANGED <<study, job, nudged, messages, work, spent>>

\* initialize_slots, and the trials cancelled at a cancellation or deadline.
InitializeSlots(c) ==
    /\ At(c, "slots")
    /\ slots' = [s \in Slots |-> IF s \in DOMAIN slots THEN slots[s] ELSE None]
    /\ trials' = IF proc[c].seen.cancel \/ proc[c].seen.deadline = "passed"
                 THEN QueuedCancelled ELSE trials
    /\ To(c, IF proc[c].seen.cancel THEN "cancelled" ELSE "list")
    /\ UNCHANGED <<study, job, nudged, messages, work, spent>>

\* _finalize_cancellation: no trial of a cancelled study starts after the
\* listing, so it is one step with the write.
FinalizeCancellation(c) ==
    /\ At(c, "cancelled")
    /\ IF \E t \in Trials : trials[t].status = "running"
       THEN Rest(c) /\ UNCHANGED study ELSE Ends(c, "cancelled")
    /\ UNCHANGED <<trials, slots, job, nudged, messages, spent, work>>

With(rows, status) == {t \in Trials : rows[t].status = status}

\* The unsent trials within the capacity left by what runs and what is
\* dispatched; the others wait for another coordination.
ToDispatch(rows) ==
    LET queued == With(rows, "queued")
        unsent == {t \in queued : ~rows[t].sent}
        used == Cardinality(With(rows, "running") \cup (queued \ unsent))
        chosen == {t \in unsent :
            used + Cardinality({u \in unsent : u <= t}) <= MaxConcurrent}
    IN  {[trial |-> t, attempts |-> rows[t].attempts] : t \in chosen}

AllEnded(rows) == With(rows, "queued") \cup With(rows, "running") = {}

Succeeded(rows) == With(rows, "succeeded")

FirstChampion(rows) == {t \in Succeeded(rows) : \A u \in Succeeded(rows) : t <= u}

\* select_champion: the best metric, then the lowest trial number.
Champions(rows) ==
    {t \in Succeeded(rows) : \A u \in Succeeded(rows) :
        rows[t].score > rows[u].score \/ (rows[t].score = rows[u].score /\ t <= u)}

\* _finalize, once every trial listed has ended; an ended trial no longer
\* changes, so its row need not be remembered.
Finalizing(c, rows) ==
    [proc[c] EXCEPT !.pc = IF Champions(rows) = {} THEN "fail"
                           ELSE IF proc[c].seen.best = None THEN "best"
                           ELSE IF study.register THEN "handoff" ELSE "succeed"]

\* A coordination that lists a trial it can dispatch does so and ends: the
\* second listing returns the rows loaded before, that trial queued.
Dispatching(c, rows) ==
    IF ToDispatch(rows) # {}
    THEN [proc[c] EXCEPT !.pc = "dispatch", !.todo = ToDispatch(rows)]
    ELSE IF AllEnded(rows) THEN Finalizing(c, rows) ELSE Idle

\* list_all_trials; without rows, the second listing is a query of its own.
ListTrials(c) ==
    /\ At(c, "list")
    /\ IF trials = NoTrials
       THEN To(c, IF proc[c].seen.deadline = "passed" THEN "relist" ELSE "materialize")
       ELSE Moves(c, Dispatching(c, trials))
    /\ UNCHANGED <<study, trials, slots, job, nudged, messages, spent, work>>

Relist(c) ==
    /\ At(c, "relist")
    /\ Moves(c, IF AllEnded(trials) THEN Finalizing(c, trials) ELSE Idle)
    /\ UNCHANGED <<study, trials, slots, job, nudged, messages, spent, work>>

\* materialize_trials and create_trial
Materialized(count) ==
    [t \in Trials |-> IF t <= count THEN [NoTrial EXCEPT !.status = "queued"] ELSE NoTrial]

\* The trials are inserted in one transaction; (study, number) is unique, so a
\* second materialization raises.  Fewer trials than the budget: the search
\* space is exhausted, and update_study_error notes it if the version allows.
Materialize(c) ==
    /\ At(c, "materialize")
    /\ IF trials # NoTrials
       THEN Rest(c) /\ nudged' = TRUE /\ UNCHANGED <<study, trials>>
       ELSE \E count \in Trials :
            /\ trials' = Materialized(count)
            /\ IF count < TrialBudget /\ StudyIs(c)
               THEN Writes(c, study, Dispatching(c, trials'))
               ELSE Moves(c, Dispatching(c, trials')) /\ UNCHANGED study
            /\ UNCHANGED nudged
    /\ UNCHANGED <<slots, job, messages, spent, work>>

\* A search space that cannot be materialized is rolled back; the use of the
\* expired study in _fail_study then raises.
MaterializationFails(c) ==
    /\ At(c, "materialize") /\ Disturbed /\ Rest(c) /\ nudged' = TRUE
    /\ UNCHANGED <<study, trials, slots, job, messages, work>>

\* The trials are dispatched in the order of their numbers.
NextItem(c) == CHOOSE item \in proc[c].todo : \A other \in proc[c].todo : item.trial <= other.trial

Dispatched(c) ==
    LET rest == proc[c].todo \ {NextItem(c)} IN
    IF rest = {} THEN Rest(c)
    ELSE Moves(c, [proc[c] EXCEPT !.pc = "dispatch", !.todo = rest])

EnqueueTrial(c) ==
    /\ At(c, "dispatch")
    /\ \/ /\ messages' = messages \cup {NextItem(c).trial}
          /\ To(c, "mark") /\ UNCHANGED spent
       \/ Disturbed /\ Dispatched(c) /\ UNCHANGED messages
    /\ UNCHANGED <<study, trials, slots, job, nudged, work>>

\* The WHERE clause of set_trial_queue_identifier, for a trial listed unsent.
AsListed(item) ==
    LET row == trials[item.trial] IN
    row.status = "queued" /\ ~row.sent /\ row.attempts = item.attempts

MarkDispatched(c) ==
    /\ At(c, "mark")
    /\ IF AsListed(NextItem(c))
       THEN /\ trials' = [trials EXCEPT ![NextItem(c).trial].sent = TRUE]
            /\ Dispatched(c) /\ UNCHANGED nudged
       ELSE Rest(c) /\ nudged' = TRUE /\ UNCHANGED trials
    /\ UNCHANGED <<study, slots, job, messages, spent, work>>

SetBest(c) ==
    /\ At(c, "best")
    /\ IF StudyIs(c)
       THEN \E t \in Champions(trials) :
            LET row == [study EXCEPT !.best = t] IN
            Writes(c, row, [proc[c] EXCEPT !.seen = row,
                            !.pc = IF study.register THEN "handoff" ELSE "succeed"])
       ELSE Rest(c) /\ UNCHANGED study
    /\ UNCHANGED <<trials, slots, job, nudged, messages, spent, work>>

\* The end of _finalize, without registration.
Succeed(c) ==
    /\ At(c, "succeed") /\ Ends(c, "succeeded")
    /\ UNCHANGED <<trials, slots, job, nudged, messages, spent, work>>

\* _fail_study
FailStudy(c) ==
    /\ At(c, "fail") /\ Ends(c, "failed")
    /\ UNCHANGED <<trials, slots, job, nudged, messages, spent, work>>

\* What a linked job means for the study.
EndsWithJob(c) ==
    IF job.status \in {"absent", "active"} THEN Rest(c) /\ UNCHANGED study
    ELSE Ends(c, IF job.status = "succeeded" THEN "succeeded" ELSE "failed")

EndHandoff(c) ==
    /\ At(c, "handoff") /\ proc[c].seen.linked
    /\ EndsWithJob(c)
    /\ UNCHANGED <<trials, slots, job, nudged, messages, spent, work>>

\* _training_specification: the parameters of the best trial.
ChampionJob(row) == [status |-> "active", trial |-> row.best]

\* TrainingJobService.submit under the key automl-study-<id> replays the job
\* an earlier coordination submitted.
SubmitChampion(c) ==
    /\ At(c, "handoff") /\ ~proc[c].seen.linked /\ To(c, "link")
    /\ job' = IF job.status = "absent" THEN ChampionJob(proc[c].seen) ELSE job
    /\ UNCHANGED <<study, trials, slots, nudged, messages, spent, work>>

LinkChampion(c) ==
    /\ At(c, "link")
    /\ IF StudyIs(c) THEN Writes(c, [study EXCEPT !.linked = TRUE], Idle)
       ELSE Rest(c) /\ UNCHANGED study
    /\ UNCHANGED <<trials, slots, job, nudged, messages, spent, work>>

-----------------------------------------------------------------------------
(* Trial workers: AutoMLTrialWorker.execute.                               *)

Receive(t) == t \in messages /\ messages' = messages \ {t}

Skip(t) ==
    /\ Receive(t) /\ ~Claimable(t)
    /\ UNCHANGED <<study, trials, slots, job, nudged, proc, spent, work>>

Claim(t) ==
    /\ Cardinality(work) < WorkerCount /\ Receive(t) /\ Claimable(t)
    /\ trials' = ClaimedTrial(t)
    /\ slots' = ClaimedSlot(Min(FreeSlots), t)
    /\ work' = work \cup {[trial |-> t, slot |-> Min(FreeSlots),
                           attempt |-> trials[t].attempts + 1]}
    /\ UNCHANGED <<study, job, nudged, proc, spent>>

\* _cv_request refuses the trial: claim, failure and release are one
\* transaction.
ClaimInvalid(t) ==
    /\ Receive(t) /\ Claimable(t) /\ Disturbed
    /\ trials' = [trials EXCEPT ![t] = [trials[t] EXCEPT
            !.status = "failed", !.attempts = trials[t].attempts + 1, !.sent = FALSE]]
    /\ slots' = [slots EXCEPT ![Min(FreeSlots)] = None]
    /\ nudged' \in {TRUE, nudged}
    /\ UNCHANGED <<study, job, proc, work>>

AnySlot(e) == TRUE

\* The WHERE clause of release_slot; with the same trial in a later version
\* of the slot, the trial is in a later attempt.
HoldsSlot(e) == slots[e.slot] = e.trial

AnyAttempt(e) == trials[e.trial].status = "running"

\* The trial is still in the version the worker claimed.
HoldsTrial(e) ==
    trials[e.trial].status = "running" /\ trials[e.trial].attempts = e.attempt

Outcomes == {"result", "process_start_failed", "trial_timeout"}

\* The trial row an evaluation ends in.
FinishedTrial(e, outcome, score) ==
    LET row == [trials[e.trial] EXCEPT !.lease = "none"] IN
    IF study.cancel THEN [row EXCEPT !.status = "cancelled"]
    ELSE IF outcome = "result"
    THEN [row EXCEPT !.status = "succeeded", !.score = score, !.scoredBy = e.attempt]
    ELSE IF outcome = "process_start_failed" /\ row.attempts < MaxAttempts
    THEN [row EXCEPT !.status = "queued"]
    ELSE [row EXCEPT !.status = "failed"]

\* After the commit the worker sends a coordination message, or fails to; a
\* process that could not be started is tried again from the same message.
Finish(e) ==
    /\ e \in work /\ work' = work \ {e}
    /\ IF HoldsTrial(e) /\ HoldsSlot(e)
       THEN \E outcome \in Outcomes, score \in Scores :
            /\ outcome # "result" => score = Min(Scores)
            /\ LET row == FinishedTrial(e, outcome, score) IN
               /\ trials' = [trials EXCEPT ![e.trial] = row]
               /\ messages' = IF row.status = "queued"
                              THEN messages \cup {e.trial} ELSE messages
            /\ slots' = [slots EXCEPT ![e.slot] = None]
            /\ (nudged' = TRUE /\ UNCHANGED spent) \/ (UNCHANGED nudged /\ Disturbed)
       ELSE UNCHANGED <<trials, slots, messages, nudged, spent>>
    /\ UNCHANGED <<study, job, proc>>

-----------------------------------------------------------------------------
(* Reconciliation: AutoMLReconciler.reconcile.                             *)

Repair ==
    /\ slots' = ReclaimedSlots /\ trials' = ReleasedTrials
    /\ IF study.status \in {"queued", "running"}
       THEN (nudged' = TRUE /\ UNCHANGED spent) \/ (UNCHANGED nudged /\ Disturbed)
       ELSE UNCHANGED <<nudged, spent>>
    /\ UNCHANGED <<study, job, messages, proc, work>>

-----------------------------------------------------------------------------
(* The environment.                                                        *)

DeadlinePasses ==
    /\ study.deadline = "ahead" /\ study' = [study EXCEPT !.deadline = "passed"]
    /\ UNCHANGED <<trials, slots, job, nudged, messages, proc, spent, work>>

LeaseExpires(t) ==
    /\ t \in Live /\ trials' = [trials EXCEPT ![t].lease = "expired"]
    /\ UNCHANGED <<study, slots, job, nudged, messages, proc, spent, work>>

JobEnds ==
    /\ job.status = "active"
    /\ \E status \in {"succeeded", "failed"} : job' = [job EXCEPT !.status = status]
    /\ UNCHANGED <<study, trials, slots, nudged, messages, proc, spent, work>>

\* A coordination dies; the reconciliation will send another message.
CoordinatorDies(c) ==
    /\ ~At(c, "idle") /\ Disturbed /\ Rest(c)
    /\ UNCHANGED <<study, trials, slots, job, nudged, messages, work>>

\* A worker dies; the broker delivers its unacknowledged message again.
WorkerDies(e) ==
    /\ e \in work /\ Disturbed /\ work' = work \ {e}
    /\ messages' = messages \cup {e.trial}
    /\ UNCHANGED <<study, trials, slots, job, nudged, proc>>

-----------------------------------------------------------------------------

CoordinatorStep(c) ==
    \/ Coordinate(c) \/ StartStudy(c) \/ InitializeSlots(c)
    \/ FinalizeCancellation(c) \/ ListTrials(c)
    \/ Materialize(c) \/ EnqueueTrial(c) \/ MarkDispatched(c) \/ Relist(c)
    \/ SetBest(c) \/ Succeed(c) \/ FailStudy(c) \/ EndHandoff(c)
    \/ SubmitChampion(c) \/ LinkChampion(c)

Next ==
    \/ \E u \in Clients : create_study(u) \/ cancel_study(u) \/ CommitCancel(u)
    \/ \E c \in Coordinators :
        CoordinatorStep(c) \/ MaterializationFails(c) \/ CoordinatorDies(c)
    \/ \E t \in Trials : Skip(t) \/ Claim(t) \/ ClaimInvalid(t) \/ LeaseExpires(t)
    \/ \E e \in Evaluation : Finish(e) \/ WorkerDies(e)
    \/ set_study_queue_identifier \/ Repair \/ DeadlinePasses \/ JobEnds

Spec == Init /\ [][Next]_vars

\* The queue and the periodic reconciliation keep running,
\* evaluations end by their timeout, and time passes.
Fairness ==
    /\ \A c \in Coordinators : WF_vars(CoordinatorStep(c))
    /\ \A e \in Evaluation : WF_vars(Finish(e))
    /\ WF_vars(Repair)
    /\ WF_vars(DeadlinePasses)
    /\ \A t \in Trials : WF_vars(LeaseExpires(t))
    /\ WF_vars(JobEnds)

FairSpec == Spec /\ Fairness

-----------------------------------------------------------------------------
(* Properties.                                                             *)

TypeOK ==
    /\ study \in StudyRow
    /\ trials \in [Trials -> TrialRow]
    /\ DOMAIN slots \subseteq Slots /\ \A s \in DOMAIN slots : slots[s] \in Trials \cup {None}
    /\ job \in [status : {"absent", "active", "succeeded", "failed"},
                trial : Trials \cup {None}]
    /\ nudged \in BOOLEAN /\ messages \subseteq Trials /\ work \subseteq Evaluation
    /\ proc \in [Procs -> Process]

\* Every trial that runs under a live lease holds a slot of its own, a slot is
\* held only by a running trial, and no more trials than max_concurrent_trials
\* run at a time, whatever leases expire, are taken over or are reclaimed
\* (claim_trial_and_slot, release_slot, reclaim_expired_slots).
SlotsBoundTheTrials ==
    /\ \A s \in DOMAIN slots :
        slots[s] # None =>
            /\ trials[slots[s]].status = "running"
            /\ \A r \in DOMAIN slots : slots[r] = slots[s] => r = s
    /\ \A t \in Live : \E s \in DOMAIN slots : slots[s] = t
    /\ Cardinality(Live) <= MaxConcurrent

\* The metrics of a succeeded trial are those of its last attempt: a worker
\* whose lease was reclaimed cannot store the result of an older attempt.
ResultOfLastAttempt ==
    \A t \in Trials :
        trials[t].status = "succeeded" => trials[t].scoredBy = trials[t].attempts

\* Once the owner has cancelled, the study can only end as cancelled, whatever
\* a coordination had read before (request_study_cancellation).
CancelWins == study.cancel => study.status \in {"running", "cancelled"}

NoneStarted(rows) == \A t \in Trials : rows[t].attempts = 0

\* A study that ended by itself has no unfinished trial, unless it failed before
\* one was ever started: a coordination that found no trials before the deadline
\* inserts them even if another has failed the study since.  If it succeeded, its
\* best trial has the best metric of all, and with registration the job
\* trained from that very trial has succeeded (_finalize, _handoff).
EndsWithItsBest ==
    study.status \in {"succeeded", "failed"} =>
        /\ AllEnded(trials) \/ (study.status = "failed" /\ NoneStarted(trials))
        /\ study.status = "succeeded" =>
            /\ study.best \in Succeeded(trials)
            /\ \A t \in Succeeded(trials) : trials[t].score <= trials[study.best].score
            /\ study.register => job = [status |-> "succeeded", trial |-> study.best]

\* A study never runs more than it may, believes no late result, and ends as its
\* trials and its owner say.
StudyIsSound ==
    TypeOK /\ SlotsBoundTheTrials /\ ResultOfLastAttempt /\ CancelWins /\ EndsWithItsBest

\* Every study that is created ends, although messages are skipped or lost,
\* workers and coordinations crash, and rows change under them.
StudyEnds == study.status = "queued" ~> study.status \in Ended
=============================================================================
