------------------------ MODULE TrainingJobLifecycle ------------------------
(***************************************************************************)
(* What the training-job subsystem promises about each job, without        *)
(* workers, messages, versions or recovery: a job moves through its        *)
(* lifecycle in atomic steps, starts at most MaxAttempts times, keeps the  *)
(* result of exactly one attempt, the one then in progress, succeeds only  *)
(* with a kept result, and never leaves a terminal status.                 *)
(***************************************************************************)
EXTENDS Naturals

CONSTANTS Jobs, MaxAttempts

VARIABLE ledger

\* A job's status, the attempts it started, the attempt whose result it keeps
\* (0 for none), and the success and failure events recorded for it.
Entry(status, attempts, checkpoint, succeeded, failed) ==
    [status |-> status, attempts |-> attempts, checkpoint |-> checkpoint,
     succeeded |-> succeeded, failed |-> failed]

Absent == Entry("absent", 0, 0, 0, 0)

Init == ledger = [j \in Jobs |-> Absent]

Accept(e, f) == e = Absent /\ f = [e EXCEPT !.status = "queued"]

Start(e, f) ==
    /\ e.status = "queued" /\ e.attempts < MaxAttempts
    /\ f = Entry("running", e.attempts + 1, e.checkpoint, e.succeeded, e.failed)

\* Only the attempt in progress can have its result kept, and only the first.
Keep(e, f) ==
    /\ e.status = "running" /\ e.checkpoint = 0
    /\ f = [e EXCEPT !.checkpoint = e.attempts]

Yield(e, f) ==
    /\ e.status = "running" /\ e.attempts < MaxAttempts
    /\ f = [e EXCEPT !.status = "queued"]

Succeed(e, f) ==
    /\ e.status = "running" /\ e.checkpoint # 0
    /\ f = Entry("succeeded", e.attempts, e.checkpoint, e.succeeded + 1, e.failed)

\* The attempt in progress reports a failure.
GiveUp(e, f) ==
    /\ e.status = "running"
    /\ f = Entry("failed", e.attempts, e.checkpoint, e.succeeded, e.failed + 1)

\* The platform fails a job that could not be delivered, or that vanished in
\* its last attempt.
Abandon(e, f) ==
    /\ e.status = "queued" \/ (e.status = "running" /\ e.attempts = MaxAttempts)
    /\ f = [e EXCEPT !.status = "failed"]

Withdraw(e, f) == e.status = "queued" /\ f = [e EXCEPT !.status = "cancelled"]

Move(e, f) == \/ Accept(e, f) \/ Start(e, f) \/ Keep(e, f) \/ Yield(e, f)
              \/ Succeed(e, f) \/ GiveUp(e, f) \/ Abandon(e, f) \/ Withdraw(e, f)

\* One transaction of the recovery command may move several jobs.
Next == \E moved \in SUBSET Jobs :
            /\ \A j \in moved : Move(ledger[j], ledger'[j])
            /\ ledger' = [j \in Jobs |-> IF j \in moved THEN ledger'[j]
                                         ELSE ledger[j]]

Spec == Init /\ [][Next]_ledger
=============================================================================
