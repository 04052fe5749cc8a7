----------------------------- MODULE Retraining -----------------------------
(***************************************************************************)
(* Controlled retraining of one registered model: policy evaluation and    *)
(* submission (ml/retraining/service.py), the synchronization of a request *)
(* with its training job and the reconciliation command                    *)
(* (ml/retraining/reconcile.py), over repositories/ai_retraining.py.       *)
(*                                                                         *)
(* The training jobs are those of TrainingJobLifecycle, the abstract       *)
(* specification that TrainingJobs implements: retraining is checked       *)
(* against what that component promises.  A request, its idempotency key   *)
(* and its job share one name, the scope: the unique constraint on the key *)
(* admits one request per scope, and the job's own idempotency key is      *)
(* derived from it.  The steps are database commits; each reads afresh.    *)
(*                                                                         *)
(* Definitions that no other uses (ReconcilableSubmitted, ...) are faulty  *)
(* variants of the definition that follows them; each one makes a property *)
(* below fail.                                                             *)
(***************************************************************************)
EXTENDS Naturals, Sequences, FiniteSets

CONSTANTS
    Scopes,         \* idempotency keys: version, trigger, window and policy
    NoScope,        \* not a scope
    Evaluations,    \* API calls and scheduled evaluations
    Passes,         \* concurrent runs of python -m app.ml.retraining.reconcile
    Workers,        \* training workers that synchronize after a delivery
    MaxAttempts,    \* training_job_max_attempts
    MaxActive,      \* the policy's maximum_active_requests
    MaxPerDay,      \* the policy's maximum_requests_per_day
    MaxPerWeek,     \* the policy's maximum_requests_per_week
    BatchSize,      \* retraining_reconciliation_batch_size
    MaxFaults       \* bound: processes that die and submissions that fail

ASSUME ScopesAssumption == IsFiniteSet(Scopes)
ASSUME NoScopeAssumption == NoScope \notin Scopes
ASSUME AgentsAssumption == /\ Evaluations \cap Passes = {}
                           /\ Workers \cap (Evaluations \cup Passes) = {}
ASSUME BoundsAssumption == /\ MaxAttempts \in Nat \ {0} /\ BatchSize \in Nat \ {0}
                           /\ MaxActive \in Nat /\ MaxPerDay \in Nat /\ MaxPerWeek \in Nat
                           /\ MaxFaults \in Nat

VARIABLES
    ledger,         \* the training jobs
    request,        \* the model_retraining_requests table
    order,          \* the scopes with a request, least recently updated first
    events,         \* retraining.completed and .failed events; 2 is "more than one"
    agent,          \* what each evaluation, pass and worker is doing
    todo,           \* what each pass has still to look at
    faults

vars == <<ledger, request, order, events, agent, todo, faults>>

Jobs == INSTANCE TrainingJobLifecycle WITH Jobs <- Scopes

Agents == Evaluations \cup Passes \cup Workers

-----------------------------------------------------------------------------
(* The state space *)

Ended == {"completed", "failed", "cancelled"}
Active == {"pending", "submitted", "training", "candidate_created"}

Modes == {"automatic", "manual"}

\* The cooldown after a request, its calendar day and its calendar week.
Windows == {"cooldown", "day", "week"}

\* windows: those that now is still in.
Request == [status : {"absent"} \cup Active \cup Ended,
            job : {"none", "linked"},
            result : 0 .. MaxAttempts,
            mode : Modes,
            windows : SUBSET Windows]

NoRequest == [status |-> "absent", job |-> "none", result |-> 0,
              mode |-> "manual", windows |-> {}]

JobStatuses == {"absent", "queued", "running", "succeeded", "failed", "cancelled"}

Entries == [status : JobStatuses, attempts : 0 .. MaxAttempts,
            checkpoint : 0 .. MaxAttempts, succeeded : 0 .. 1, failed : 0 .. 1]

\* seen is the ended job as the agent read it, mode the evaluation's; read are the
\* requests there were when it counted, and active those of them in progress.
Agent == [pc : {"new", "done", "idle", "persist", "submit", "attach", "undo",
                "training", "candidate", "conclude", "loop"},
          scope : Scopes \cup {NoScope},
          seen : Entries,
          mode : Modes,
          read : SUBSET Scopes,
          active : SUBSET Scopes]

At(pc) == [pc |-> pc, scope |-> NoScope, seen |-> Jobs!Absent, mode |-> "manual",
           read |-> {}, active |-> {}]

\* A listed request: the pass keeps the link it saw.
Item == [scope : Scopes, job : {"none", "linked"}]

TypeOK ==
    /\ ledger \in [Scopes -> Entries]
    /\ request \in [Scopes -> Request]
    /\ order \in Seq(Scopes)
    /\ events \in [Scopes -> 0 .. 2]
    /\ agent \in [Agents -> Agent]
    /\ todo \in [Passes -> Seq(Item)]
    /\ faults \in 0 .. MaxFaults

Init ==
    /\ Jobs!Init
    /\ request = [s \in Scopes |-> NoRequest]
    /\ order = <<>>
    /\ events = [s \in Scopes |-> 0]
    /\ agent = [a \in Agents |-> At(IF a \in Evaluations THEN "new" ELSE "idle")]
    /\ todo = [p \in Passes |-> <<>>]
    /\ faults = 0

-----------------------------------------------------------------------------
(* Helpers *)

Become(a, state) == agent' = [agent EXCEPT ![a] = state]

\* Where an agent goes when it is through with a request.
Rest(a) == At(IF a \in Evaluations THEN "done" ELSE IF a \in Passes THEN "loop" ELSE "idle")

\* The order without a scope, which is in it at most once.
Without(s) ==
    IF \E i \in DOMAIN order : order[i] = s
    THEN LET at == CHOOSE i \in DOMAIN order : order[i] = s
         IN SubSeq(order, 1, at - 1) \o SubSeq(order, at + 1, Len(order))
    ELSE order

\* Every write sets updated_at.
Write(s, r) ==
    /\ request' = [request EXCEPT ![s] = r]
    /\ order' = Append(Without(s), s)

Requested == {s \in Scopes : request[s].status # "absent"}

ActiveRequests == {s \in Scopes : request[s].status \in Active}

\* request_counts and the cooldown of _states see automatic requests only.
Automatic(window) == {s \in Scopes : /\ request[s].mode = "automatic"
                                     /\ window \in request[s].windows}

-----------------------------------------------------------------------------
(* RetrainingService._evaluate *)

\* maximum_active_requests, and the quotas of automatic requests.
WithinLimits(mode) ==
    /\ Cardinality(ActiveRequests) < MaxActive
    /\ mode = "automatic" => /\ Cardinality(Automatic("day")) < MaxPerDay
                             /\ Cardinality(Automatic("week")) < MaxPerWeek

EligibleOncePerDay(s, mode, override) ==
    /\ request[s].status = "absent"
    /\ Cardinality(ActiveRequests) < MaxActive
    /\ override = "none" => Automatic("cooldown") = {}
    /\ mode = "automatic" => Cardinality(Automatic("day")) < MaxPerDay

\* The checks of RetrainingPolicyEvaluator that depend on other requests.
Eligible(s, mode, override) ==
    /\ request[s].status = "absent"
    /\ WithinLimits(mode)
    /\ override = "none" => Automatic("cooldown") = {}

\* The other checks, which compare the trigger with the policy, and a request
\* to evaluate only, end the call as well.
Evaluate(a) ==
    /\ agent[a].pc = "new"
    /\ \/ \E s \in Scopes, mode \in Modes, override \in {"none", "admin"} :
             /\ override = "admin" => mode = "manual"
             /\ Eligible(s, mode, override)
             /\ Become(a, [At("persist") EXCEPT !.scope = s, !.mode = mode,
                                                !.read = Requested,
                                                !.active = ActiveRequests])
       \/ Become(a, At("done"))
    /\ UNCHANGED <<ledger, request, order, events, todo, faults>>

\* The request and the decision's audit are one transaction; the unique
\* constraint on the key hands a lost race the winner's request.
Persist(a) ==
    LET s == agent[a].scope
    IN /\ agent[a].pc = "persist"
       /\ IF request[s].status = "absent"
          THEN Write(s, [status |-> "pending", job |-> "none", result |-> 0,
                         mode |-> agent[a].mode, windows |-> Windows])
          ELSE UNCHANGED <<request, order>>
       /\ Become(a, IF request[s].job = "none" THEN [At("submit") EXCEPT !.scope = s]
                    ELSE At("done"))
       /\ UNCHANGED <<ledger, events, todo, faults>>

-----------------------------------------------------------------------------
(* RetrainingService.resume_submission *)

Fault == faults < MaxFaults /\ faults' = faults + 1

\* TrainingJobService.submit: a new job, or the job of the same key.  It
\* raises when the queue fails and for a queued job without a queue message.
Submit(a) ==
    LET s == agent[a].scope
    IN /\ agent[a].pc = "submit"
       /\ \/ /\ ledger[s] = Jobs!Absent
             /\ ledger' = [ledger EXCEPT ![s].status = "queued"]
             /\ \E pc \in {"attach", "undo"} : Become(a, [agent[a] EXCEPT !.pc = pc])
          \/ /\ ledger[s] # Jobs!Absent
             /\ Become(a, [agent[a] EXCEPT !.pc = "attach"])
             /\ UNCHANGED ledger
          \/ /\ ledger[s].status = "queued"
             /\ Become(a, [agent[a] EXCEPT !.pc = "undo"])
             /\ UNCHANGED ledger
       /\ UNCHANGED <<request, order, events, todo, faults>>

SubmitFailsSilently(a) ==
    /\ Fault
    /\ agent[a].pc = "submit"
    /\ Become(a, [agent[a] EXCEPT !.pc = "attach"])
    /\ UNCHANGED <<ledger, request, order, events, todo>>

\* A database error of submit or of attach_training_job.
SubmitFails(a) ==
    /\ Fault
    /\ agent[a].pc \in {"submit", "attach"}
    /\ Become(a, [agent[a] EXCEPT !.pc = "undo"])
    /\ UNCHANGED <<ledger, request, order, events, todo>>

\* attach_training_job is conditional on a pending request without a job.
Attach(a) ==
    LET s == agent[a].scope
    IN /\ agent[a].pc = "attach"
       /\ IF request[s].job = "none" /\ request[s].status = "pending"
          THEN Write(s, [request[s] EXCEPT !.job = "linked", !.status = "submitted"])
          ELSE UNCHANGED <<request, order>>
       /\ Become(a, Rest(a))
       /\ UNCHANGED <<ledger, events, todo, faults>>

\* A failed submission resets the status, whatever it has become, and raises:
\* out of the whole pass when a pass is submitting.
Undo(a) ==
    LET s == agent[a].scope
    IN /\ agent[a].pc = "undo"
       /\ Write(s, [request[s] EXCEPT !.status = "pending"])
       /\ IF a \in Passes
          THEN Become(a, At("idle")) /\ todo' = [todo EXCEPT ![a] = <<>>]
          ELSE Become(a, Rest(a)) /\ UNCHANGED todo
       /\ UNCHANGED <<ledger, events, faults>>

-----------------------------------------------------------------------------
(* RetrainingCompletionService.synchronize *)

\* What a look at the job and the request calls for.
Plan(e, r) ==
    IF r.status \in Ended THEN "none"
    ELSE IF e.status = "running" THEN "training"
    ELSE IF e.status = "succeeded"
         THEN IF r.status = "candidate_created" /\ r.result # 0
              THEN "conclude" ELSE "candidate"
    ELSE IF e.status \in {"failed", "cancelled"} THEN "conclude"
    ELSE "none"

Look(a, s) ==
    LET plan == Plan(ledger[s], request[s])
    IN Become(a, IF plan = "none" THEN Rest(a)
                 ELSE [At(plan) EXCEPT !.scope = s,
                                       !.seen = IF plan = "training" THEN @ ELSE ledger[s]])

WriteTraining(a) ==
    LET s == agent[a].scope
    IN /\ agent[a].pc = "training"
       /\ Write(s, [request[s] EXCEPT !.status = "training"])
       /\ Become(a, Rest(a))
       /\ UNCHANGED <<ledger, events, todo, faults>>

WriteCandidate(a) ==
    LET s == agent[a].scope
    IN /\ agent[a].pc = "candidate"
       /\ Write(s, [request[s] EXCEPT !.status = "candidate_created",
                                      !.result = agent[a].seen.checkpoint])
       /\ Become(a, [agent[a] EXCEPT !.pc = "conclude"])
       /\ UNCHANGED <<ledger, events, todo, faults>>

OutcomeCopied(e) == e.status
OutcomeUncancelled(e) == IF e.status = "succeeded" THEN "completed" ELSE "failed"

Outcome(e) == IF e.status = "succeeded" THEN "completed" ELSE e.status

\* The terminal status and its audit event are one transaction.
Conclude(a) ==
    LET s == agent[a].scope
        e == agent[a].seen
    IN /\ agent[a].pc = "conclude"
       /\ Write(s, [request[s] EXCEPT
                      !.status = Outcome(e),
                      !.result = IF e.status = "succeeded" THEN e.checkpoint ELSE @])
       /\ events' = [events EXCEPT ![s] = IF @ = 0 THEN 1 ELSE 2]
       /\ Become(a, Rest(a))
       /\ UNCHANGED <<ledger, todo, faults>>

-----------------------------------------------------------------------------
(* RetrainingReconciliationService.reconcile and the worker's own look *)

ReconcilableSubmitted(s) == request[s].status \in Active \ {"pending"}

Reconcilable(s) == request[s].status \notin Ended \cup {"absent"}

Due == {i \in DOMAIN order : Reconcilable(order[i])}

\* Places of order make a batch: those of the oldest requests that are due, and
\* of all of them if they fit.
IsBatch(places) ==
    /\ \A i \in DOMAIN places : places[i] \in Due
    /\ \A i, j \in DOMAIN places : i < j => places[i] < places[j]
    /\ \A due \in Due \ {places[i] : i \in DOMAIN places} :
          Len(places) = BatchSize /\ \A i \in DOMAIN places : places[i] < due

\* list_reconcilable, oldest update first, at most a batch.
List(p) ==
    /\ agent[p].pc = "idle"
    /\ \E size \in 1 .. BatchSize : \E places \in [1 .. size -> DOMAIN order] :
          /\ IsBatch(places)
          /\ todo' = [todo EXCEPT ![p] = [i \in 1 .. size |->
                                             [scope |-> order[places[i]],
                                              job |-> request[order[places[i]]].job]]]
    /\ Become(p, At("loop"))
    /\ UNCHANGED <<ledger, request, order, events, faults>>

\* A request listed without a job is submitted again, one with a job looked at.
Advance(p) ==
    /\ agent[p].pc = "loop"
    /\ todo[p] # <<>>
    /\ todo' = [todo EXCEPT ![p] = Tail(@)]
    /\ LET item == Head(todo[p])
       IN IF item.job = "none"
          THEN Become(p, [At("submit") EXCEPT !.scope = item.scope])
          ELSE Look(p, item.scope)
    /\ UNCHANGED <<ledger, request, order, events, faults>>

EndPass(p) ==
    /\ agent[p].pc = "loop"
    /\ todo[p] = <<>>
    /\ Become(p, At("idle"))
    /\ UNCHANGED <<ledger, request, order, events, todo, faults>>

\* After a delivery the training worker looks at the job's request.
WorkerLook(w, s) ==
    /\ agent[w].pc = "idle"
    /\ request[s].job = "linked"
    /\ Plan(ledger[s], request[s]) # "none"
    /\ Look(w, s)
    /\ UNCHANGED <<ledger, request, order, events, todo, faults>>

Synchronize(a) == WriteTraining(a) \/ WriteCandidate(a) \/ Conclude(a)

Resume(a) == Submit(a) \/ Attach(a) \/ Undo(a)

-----------------------------------------------------------------------------
(* Jobs, time and faults *)

\* How a job may go on.
Moves == [e \in Entries |-> {f \in Entries : Jobs!Move(e, f)}]

\* The training-job component moves jobs in the ways it promises, several of them in one
\* transaction of its recovery command.
JobsMove(moved) ==
    /\ \A s \in moved : ledger[s] # Jobs!Absent
    /\ \E next \in [moved -> UNION {Moves[ledger[s]] : s \in moved}] :
          /\ \A s \in moved : Jobs!Move(ledger[s], next[s])
          /\ ledger' = [s \in Scopes |-> IF s \in moved THEN next[s] ELSE ledger[s]]
    /\ UNCHANGED <<request, order, events, agent, todo, faults>>

JobMoves(s) == JobsMove({s})

\* The cooldown ends, or the day, or the week, which ends with a day.
Elapse(s, window) ==
    /\ window \in request[s].windows
    /\ window = "week" => "day" \notin request[s].windows
    /\ request' = [request EXCEPT ![s].windows = @ \ {window}]
    /\ UNCHANGED <<ledger, order, events, agent, todo, faults>>

\* A process dies or a database call fails.
Lose(a) ==
    /\ Fault
    /\ agent[a].pc \notin {"new", "done", "idle"}
    /\ Become(a, At(IF a \in Evaluations THEN "done" ELSE "idle"))
    /\ todo' = [p \in Passes |-> IF p = a THEN <<>> ELSE todo[p]]
    /\ UNCHANGED <<ledger, request, order, events>>

Act(a) == \/ a \in Evaluations /\ (Evaluate(a) \/ Persist(a))
          \/ a \in Passes /\ (List(a) \/ Advance(a) \/ EndPass(a))
          \/ Resume(a) \/ Synchronize(a)

Next == \/ \E a \in Agents : Act(a) \/ SubmitFails(a) \/ Lose(a)
        \/ \E w \in Workers, s \in Scopes : WorkerLook(w, s)
        \/ \E moved \in SUBSET Scopes \ {{}} : JobsMove(moved)
        \/ \E s \in Scopes, window \in Windows : Elapse(s, window)

Spec == Init /\ [][Next]_vars

\* Agents run to their end unless they die, the reconciliation command is run
\* again and again, and every job ends: TrainingJobs' EveryJobEnds.
Fairness == /\ \A a \in Agents : WF_vars(Act(a))
            /\ \A s \in Scopes : WF_vars(JobMoves(s))

FairSpec == Spec /\ Fairness

-----------------------------------------------------------------------------
(* Properties *)

\* What a request says at its end is what became of its job, with the model
\* version the job kept, however stale the look that wrote it was, and the end
\* was audited.
EndIsTruthful ==
    \A s \in Scopes :
        /\ request[s].status = "completed" => /\ ledger[s].status = "succeeded"
                                              /\ request[s].result = ledger[s].checkpoint
        /\ request[s].status \in {"failed", "cancelled"}
              => ledger[s].status = request[s].status
        /\ request[s].status \in Ended => events[s] # 0

\* A request is linked only to a job that was accepted, and any status past
\* pending has a linked job: no step of a lost race leaves a request that the
\* reconciliation command would neither submit nor synchronize.
LinkIsSound ==
    \A s \in Scopes :
        /\ request[s].job = "linked" => ledger[s].status # "absent"
        /\ request[s].status \notin {"absent", "pending"} => request[s].job = "linked"

\* A request, its job and its audit agree, in progress and at its end.
RequestsAgreeWithJobs == TypeOK /\ EndIsTruthful /\ LinkIsSound

\* A request exceeds the limits only if, since they were counted, another was
\* inserted or one that had ended is in progress again, set back by a failed
\* submission or a stale look: nothing counts them again at the insert.
LimitsRaceOnly ==
    [][\A a \in Evaluations :
        /\ agent[a].pc = "persist" /\ ~WithinLimits(agent[a].mode)
        /\ Requested' # Requested /\ agent'[a] # agent[a]
        => Requested \ agent[a].read # {} \/ ActiveRequests \ agent[a].active # {}]_vars

\* Every request ends for good: also the one that a failed submission set back
\* to pending after it had ended, and the one whose worker died.
EveryRequestEnds ==
    \A s \in Scopes : request[s].status # "absent" ~> [](request[s].status \in Ended)
=============================================================================
