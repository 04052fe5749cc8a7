------------------------- MODULE TrainingJobsProofs -------------------------
(* Theorems about TrainingJobs, for every value of its constants. *)
EXTENDS MCTrainingJobs, FiniteSetTheorems, TLAPS

\* The row changes of the repository stay in the table's type.  The next
\* version is given a name so that each change is a plain update of fields.
LEMMA RowTypes ==
    ASSUME NEW r \in Row
    PROVE  /\ CreatedRow \in Row
           /\ Claimable(r) => Claimed(r) \in Row
           /\ Released(r) \in Row
           /\ Requeued(r) \in Row
           /\ Reset(r) \in Row
           /\ Identified(r) \in Row
           /\ MarkedPending(r) \in Row
           /\ \A o \in Attempts : Checkpointed(r, o) \in Row /\ Succeeded(r, o) \in Row
           /\ Failed(r) \in Row
           /\ Cancelled(r) \in Row
<1> DEFINE v == r.version + 1
           a == r.attempts + 1
<1>v. v \in Nat
  BY DEF Row
<1>a. Claimable(r) => a \in Attempts
  BY MaxAttemptsAssumption DEF Row, Attempts, Claimable
<1>1. CreatedRow \in Row
  BY MaxAttemptsAssumption DEF CreatedRow, NoRow, Row, Statuses, Attempts
<1> HIDE DEF v, a
<1> USE <1>v DEF Row, Statuses, Terminal
<1>2. a \in Attempts => [r EXCEPT !.status = "running", !.attempts = a,
                                  !.version = v, !.age = "recent"] \in Row
  OBVIOUS
<1>3. [r EXCEPT !.status = "queued", !.version = v, !.age = "recent"] \in Row
  OBVIOUS
<1>4. [r EXCEPT !.status = "queued", !.messageId = "null", !.version = v,
                !.age = "recent"] \in Row
  OBVIOUS
<1>5. [r EXCEPT !.messageId = "null", !.version = v, !.age = "recent"] \in Row
  OBVIOUS
<1>6. [r EXCEPT !.messageId = "stored", !.version = v] \in Row
  OBVIOUS
<1>7. [r EXCEPT !.version = v] \in Row
  OBVIOUS
<1>8. ASSUME NEW o \in Attempts
      PROVE  /\ [r EXCEPT !.checkpoint = o, !.version = v] \in Row
             /\ [r EXCEPT !.status = "succeeded", !.checkpoint = o,
                          !.version = v] \in Row
  OBVIOUS
<1>9. \A s \in {"failed", "cancelled"} :
        [r EXCEPT !.status = s, !.version = v] \in Row
  OBVIOUS
<1> QED
  BY <1>1, <1>2, <1>3, <1>4, <1>5, <1>6, <1>7, <1>8, <1>9, <1>a
     DEF v, a, Claimed, Released, Requeued, Reset, Identified, MarkedPending,
         Checkpointed, Succeeded, Failed, Cancelled

LEMMA SetType ==
    ASSUME row \in [Calls -> Row], NEW j \in Calls, NEW r \in Row, Set(j, r)
    PROVE  row' \in [Calls -> Row]
  BY DEF Set

LEMMA SendType ==
    ASSUME broker \in [Calls -> [Retries -> Nat]],
           NEW j \in Calls, NEW n \in Retries, Send(j, n)
    PROVE  broker' \in [Calls -> [Retries -> Nat]]
  BY DEF Send

LEMMA BecomeType ==
    ASSUME worker \in [Workers -> WorkerState],
           NEW w \in Workers, NEW s \in WorkerState, Become(w, s)
    PROVE  worker' \in [Workers -> WorkerState]
  BY DEF Become

LEMMA IdleType == Idle \in WorkerState
  BY MaxAttemptsAssumption DEF Idle, WorkerState, Attempts, Retries

LEMMA WorkerTypes ==
    ASSUME NEW s \in WorkerState
    PROVE  /\ \A step \in {"checkpoint", "alias", "profile", "complete", "retry",
                            "fail", "raise"} : [s EXCEPT !.pc = step] \in WorkerState
           /\ [s EXCEPT !.pc = "checkpoint", !.outcome = s.attempt] \in WorkerState
           /\ [s EXCEPT !.pc = "alias", !.version = @ + 1] \in WorkerState
<1> DEFINE v == s.version + 1
<1>v. v \in Nat
  BY DEF WorkerState
<1> HIDE DEF v
<1>1. [s EXCEPT !.pc = "alias", !.version = v] \in WorkerState
  BY <1>v DEF WorkerState
<1>2. \A step \in {"checkpoint", "alias", "profile", "complete", "retry",
                    "fail", "raise"} : [s EXCEPT !.pc = step] \in WorkerState
  BY DEF WorkerState
<1>3. [s EXCEPT !.pc = "checkpoint", !.outcome = s.attempt] \in WorkerState
  BY DEF WorkerState
<1> QED
  BY <1>1, <1>2, <1>3 DEF v

LEMMA HandleType ==
    ASSUME worker \in [Workers -> WorkerState], NEW w \in Workers, NEW e, Handle(w, e)
    PROVE  worker' \in [Workers -> WorkerState]
  BY WorkerTypes, BecomeType DEF Handle

-----------------------------------------------------------------------------
(* Every change of a row is a step of the abstract lifecycle or invisible to *)
(* it, and moves the version on.                                             *)

Events == [{"succeeded", "failed"} -> Nat]

StepOf(r, a, s, b) ==
    \/ EntryOf(s, b) = EntryOf(r, a) /\ s.version >= r.version
    \/ /\ Lifecycle!Move(EntryOf(r, a), EntryOf(s, b))
       /\ s.version > r.version \/ r.status = "absent"

LEMMA InvisibleChanges ==
    ASSUME NEW r \in Row, NEW a \in Events
    PROVE  /\ StepOf(r, a, r, a)
           /\ StepOf(r, a, Reset(r), a)
           /\ StepOf(r, a, Identified(r), a)
           /\ StepOf(r, a, MarkedPending(r), a)
           /\ StepOf(r, a, [r EXCEPT !.age = "old"], a)
<1> USE DEF StepOf, EntryOf, Row
<1>1. StepOf(r, a, r, a) /\ StepOf(r, a, [r EXCEPT !.age = "old"], a)
  OBVIOUS
<1>2. StepOf(r, a, Reset(r), a)
  BY DEF Reset
<1>3. StepOf(r, a, Identified(r), a) /\ StepOf(r, a, MarkedPending(r), a)
  BY DEF Identified, MarkedPending
<1> QED
  BY <1>1, <1>2, <1>3

LEMMA QueuedChanges ==
    ASSUME NEW r \in Row, NEW a \in Events, r.status = "queued"
    PROVE  /\ Claimable(r) => StepOf(r, a, Claimed(r), a)
           /\ StepOf(r, a, Failed(r), a)
           /\ StepOf(r, a, Cancelled(r), a)
<1> USE DEF StepOf, EntryOf, Row, Lifecycle!Move
<1>1. ASSUME Claimable(r) PROVE StepOf(r, a, Claimed(r), a)
  <2>1. /\ Claimed(r).status = "running" /\ Claimed(r).attempts = r.attempts + 1
        /\ Claimed(r).checkpoint = r.checkpoint /\ Claimed(r).version > r.version
    BY DEF Claimed
  <2>2. Lifecycle!Start(EntryOf(r, a), EntryOf(Claimed(r), a))
    BY <1>1, <2>1 DEF Claimable, Lifecycle!Start, Lifecycle!Entry
  <2> QED
    BY <2>1, <2>2
<1>2. StepOf(r, a, Failed(r), a)
  BY DEF Failed, Lifecycle!Abandon
<1>3. StepOf(r, a, Cancelled(r), a)
  BY DEF Cancelled, Lifecycle!Withdraw
<1> QED
  BY <1>1, <1>2, <1>3

LEMMA RunningChanges ==
    ASSUME NEW r \in Row, NEW a \in Events, r.status = "running"
    PROVE  /\ r.attempts < MaxAttempts => StepOf(r, a, Released(r), a)
           /\ r.attempts < MaxAttempts => StepOf(r, a, Requeued(r), a)
           /\ r.attempts >= MaxAttempts => StepOf(r, a, Failed(r), a)
           /\ r.checkpoint = 0 => StepOf(r, a, Checkpointed(r, r.attempts), a)
           /\ r.checkpoint # 0
                => StepOf(r, a, Succeeded(r, r.checkpoint), [a EXCEPT !["succeeded"] = @ + 1])
           /\ StepOf(r, a, Failed(r), [a EXCEPT !["failed"] = @ + 1])
<1> USE DEF StepOf, EntryOf, Row, Events, Lifecycle!Move
<1>1. r.attempts < MaxAttempts => StepOf(r, a, Released(r), a)
  BY DEF Released, Lifecycle!Yield
<1>2. r.attempts < MaxAttempts => StepOf(r, a, Requeued(r), a)
  BY DEF Requeued, Lifecycle!Yield
<1>3. r.attempts >= MaxAttempts => StepOf(r, a, Failed(r), a)
  BY MaxAttemptsAssumption DEF Attempts, Failed, Lifecycle!Abandon
<1>4. r.checkpoint = 0 => StepOf(r, a, Checkpointed(r, r.attempts), a)
  BY DEF Checkpointed, Lifecycle!Keep
<1>5. r.checkpoint # 0
        => StepOf(r, a, Succeeded(r, r.checkpoint), [a EXCEPT !["succeeded"] = @ + 1])
  <2> DEFINE s == Succeeded(r, r.checkpoint)
             b == [a EXCEPT !["succeeded"] = @ + 1]
  <2>1. /\ s.status = "succeeded" /\ s.attempts = r.attempts
        /\ s.checkpoint = r.checkpoint /\ s.version > r.version
    BY DEF Succeeded
  <2>2. b["succeeded"] = a["succeeded"] + 1 /\ b["failed"] = a["failed"]
    OBVIOUS
  <2> HIDE DEF b, s
  <2>3. r.checkpoint # 0 => Lifecycle!Succeed(EntryOf(r, a), EntryOf(s, b))
    BY <2>1, <2>2 DEF Lifecycle!Succeed, Lifecycle!Entry
  <2>4. r.checkpoint # 0 => StepOf(r, a, s, b)
    BY <2>1, <2>3
  <2> QED
    BY <2>4 DEF b, s
<1>6. StepOf(r, a, Failed(r), [a EXCEPT !["failed"] = @ + 1])
  <2> DEFINE s == Failed(r)
             b == [a EXCEPT !["failed"] = @ + 1]
  <2>1. /\ s.status = "failed" /\ s.attempts = r.attempts
        /\ s.checkpoint = r.checkpoint /\ s.version > r.version
    BY DEF Failed
  <2>2. b["failed"] = a["failed"] + 1 /\ b["succeeded"] = a["succeeded"]
    OBVIOUS
  <2> HIDE DEF b, s
  <2>3. Lifecycle!GiveUp(EntryOf(r, a), EntryOf(s, b))
    BY <2>1, <2>2 DEF Lifecycle!GiveUp, Lifecycle!Entry
  <2>4. StepOf(r, a, s, b)
    BY <2>1, <2>3
  <2> QED
    BY <2>4 DEF b, s
<1> QED
  BY <1>1, <1>2, <1>3, <1>4, <1>5, <1>6

LEMMA Creation ==
    ASSUME NEW r \in Row, r.status = "absent", r.attempts = 0, r.checkpoint = 0,
           NEW a \in Events, a["succeeded"] = 0, a["failed"] = 0
    PROVE  StepOf(r, a, CreatedRow, a)
  BY DEF StepOf, EntryOf, NoRow, CreatedRow, Lifecycle!Move, Lifecycle!Accept,
         Lifecycle!Absent, Lifecycle!Entry

Advances == \A j \in Calls : StepOf(row[j], audit[j], row'[j], audit'[j])

LEMMA SetAdvances ==
    ASSUME TypeOK, NEW k \in Calls, NEW r, Set(k, r), UNCHANGED audit,
           StepOf(row[k], audit[k], r, audit[k])
    PROVE  Advances
<1>1. /\ row'[k] = r
      /\ \A j \in Calls : j # k => row'[j] = row[j]
  BY DEF TypeOK, Set
<1>2. \A j \in Calls : StepOf(row[j], audit[j], row[j], audit[j])
  BY InvisibleChanges DEF TypeOK, Events
<1> QED
  BY <1>1, <1>2 DEF Advances

LEMMA StillAdvances ==
    ASSUME TypeOK, UNCHANGED jobVars
    PROVE  Advances
  BY InvisibleChanges DEF TypeOK, Events, Advances, jobVars

LEMMA AuditedAdvances ==
    ASSUME TypeOK, NEW k \in Calls, NEW r, NEW result \in {"succeeded", "failed"},
           Set(k, r), Record(k, result),
           StepOf(row[k], audit[k], r, [audit[k] EXCEPT ![result] = @ + 1])
    PROVE  Advances
<1>1. /\ row'[k] = r
      /\ \A j \in Calls : j # k => row'[j] = row[j]
  BY DEF TypeOK, Set
<1>2. /\ audit'[k] = [audit[k] EXCEPT ![result] = @ + 1]
      /\ \A j \in Calls : j # k => audit'[j] = audit[j]
  BY DEF TypeOK, Record
<1>3. \A j \in Calls : StepOf(row[j], audit[j], row[j], audit[j])
  BY InvisibleChanges DEF TypeOK, Events
<1> QED
  BY <1>1, <1>2, <1>3 DEF Advances

LEMMA PendingAdvances ==
    ASSUME TypeOK, NEW k \in Calls, NEW v, MarkPending(k, v), UNCHANGED audit
    PROVE  Advances
<1>1. StepOf(row[k], audit[k], MarkedPending(row[k]), audit[k])
  BY InvisibleChanges DEF TypeOK, Events
<1> QED
  BY <1>1, SetAdvances, StillAdvances DEF MarkPending, jobVars

LEMMA SubmitAdvances ==
    ASSUME TypeOK, RowsFit, AuditedOnce, NEW c \in Calls, Submit(c)
    PROVE  Advances
<1>t. row[c] \in Row /\ audit[c] \in Events
  BY DEF TypeOK, Events
<1>1. CASE Lookup(c) \/ CheckQuota(c) \/ Enqueue(c)
  BY <1>1, StillAdvances DEF Lookup, CheckQuota, Enqueue, jobVars
<1>2. CASE Create(c)
  <2>1. row[c].status = "absent" /\ row[c].attempts = 0 /\ row[c].checkpoint = 0
    BY <1>2 DEF RowsFit, RowFits, Create
  <2>2. audit[c]["succeeded"] = 0 /\ audit[c]["failed"] = 0
    BY <1>t, <2>1 DEF AuditedOnce, Events
  <2>3. StepOf(row[c], audit[c], CreatedRow, audit[c])
    BY <1>t, <2>1, <2>2, Creation
  <2> QED
    BY <1>2, <2>3, SetAdvances, StillAdvances DEF Create, jobVars
<1>3. CASE FailEnqueue(c)
  BY <1>3, <1>t, QueuedChanges, SetAdvances, StillAdvances DEF FailEnqueue, jobVars
<1>4. CASE PersistIdentifier(c)
  BY <1>4, <1>t, InvisibleChanges, SetAdvances, PendingAdvances DEF PersistIdentifier
<1> QED
  BY <1>1, <1>2, <1>3, <1>4 DEF Submit

LEMMA WorkAdvances ==
    ASSUME TypeOK, WorkersFit, NEW w \in Workers, Work(w)
    PROVE  Advances
<1> DEFINE j == worker[w].job
<1>1. CASE \E i \in Calls, n \in Retries : Deliver(w, i, n)
  <2> PICK i \in Calls, n \in Retries : Deliver(w, i, n)
    BY <1>1
  <2>1. CASE Claimable(row[i])
    <3>1. StepOf(row[i], audit[i], Claimed(row[i]), audit[i])
      BY <2>1, QueuedChanges DEF TypeOK, Events, Claimable
    <3> QED
      BY <2>1, <3>1, SetAdvances DEF Deliver
  <2>2. CASE ~Claimable(row[i])
    BY <2>2, StillAdvances DEF Deliver, jobVars
  <2> QED
    BY <2>1, <2>2
<1>2. CASE Train(w) \/ AssignAlias(w) \/ PersistProfile(w) \/ Raise(w)
  BY <1>2, StillAdvances DEF Train, AssignAlias, PersistProfile, Raise, jobVars
<1>3. CASE ~Matches(j, "running", worker[w].version)
           /\ (Checkpoint(w) \/ Complete(w) \/ Fail(w) \/ Retry(w))
  BY <1>3, StillAdvances DEF Checkpoint, Complete, Fail, Retry, jobVars
<1>4. ASSUME worker[w].pc # "idle", Matches(j, "running", worker[w].version)
      PROVE  /\ j \in Calls /\ row[j] \in Row /\ audit[j] \in Events
             /\ row[j].status = "running" /\ WorkerFits(worker[w], row[j])
             /\ worker[w].version = row[j].version
  BY <1>4 DEF TypeOK, Events, WorkersFit, Matches
<1>5. CASE Matches(j, "running", worker[w].version) /\ Checkpoint(w)
  <2>1. worker[w].pc = "checkpoint"
    BY <1>5 DEF Checkpoint
  <2>2. row[j].checkpoint = 0 /\ worker[w].outcome = row[j].attempts
    BY <1>4, <1>5, <2>1 DEF WorkerFits
  <2>3. StepOf(row[j], audit[j], Checkpointed(row[j], worker[w].outcome), audit[j])
    BY <1>4, <1>5, <2>1, <2>2, RunningChanges
  <2> QED
    BY <1>4, <1>5, <2>1, <2>3, SetAdvances, StillAdvances DEF Checkpoint, jobVars
<1>6. CASE Matches(j, "running", worker[w].version) /\ Complete(w)
  <2>1. worker[w].pc = "complete"
    BY <1>6 DEF Complete
  <2>2. worker[w].outcome = row[j].checkpoint /\ row[j].checkpoint # 0
    BY <1>4, <1>6, <2>1 DEF WorkerFits
  <2>3. StepOf(row[j], audit[j], Succeeded(row[j], worker[w].outcome),
               [audit[j] EXCEPT !["succeeded"] = @ + 1])
    BY <1>4, <1>6, <2>1, <2>2, RunningChanges
  <2> QED
    BY <1>4, <1>6, <2>1, <2>3, AuditedAdvances DEF Complete
<1>7. CASE Matches(j, "running", worker[w].version) /\ Fail(w)
  <2>1. worker[w].pc = "fail"
    BY <1>7 DEF Fail
  <2>2. StepOf(row[j], audit[j], Failed(row[j]), [audit[j] EXCEPT !["failed"] = @ + 1])
    BY <1>4, <1>7, <2>1, RunningChanges
  <2> QED
    BY <1>4, <1>7, <2>1, <2>2, AuditedAdvances DEF Fail
<1>8. CASE Matches(j, "running", worker[w].version) /\ Retry(w)
  <2>1. worker[w].pc = "retry"
    BY <1>8 DEF Retry
  <2>2. row[j].attempts < MaxAttempts
    BY <1>4, <1>8, <2>1 DEF WorkerFits
  <2>3. StepOf(row[j], audit[j], Released(row[j]), audit[j])
    BY <1>4, <1>8, <2>1, <2>2, RunningChanges
  <2> QED
    BY <1>4, <1>8, <2>1, <2>3, SetAdvances DEF Retry
<1> QED
  BY <1>1, <1>2, <1>3, <1>5, <1>6, <1>7, <1>8 DEF Work

LEMMA RecoverAdvances ==
    ASSUME TypeOK, NEW p \in Reconcilers, Recover(p)
    PROVE  Advances
<1>t. \A j \in Calls : row[j] \in Row /\ audit[j] \in Events
  BY DEF TypeOK, Events
<1>1. CASE ReleaseStale(p)
  <2>1. ASSUME NEW j \in Calls PROVE StepOf(row[j], audit[j], row'[j], audit'[j])
    <3>1. audit'[j] = audit[j]
      BY <1>1 DEF ReleaseStale
    <3>2. CASE Requeueable(row[j])
      BY <1>1, <1>t, <3>1, <3>2, RunningChanges
         DEF ReleaseStale, Requeueable, StaleRunning
    <3>3. CASE ~Requeueable(row[j]) /\ Exhausted(row[j])
      BY <1>1, <1>t, <3>1, <3>3, RunningChanges
         DEF ReleaseStale, Exhausted, StaleRunning
    <3>4. CASE ~Requeueable(row[j]) /\ ~Exhausted(row[j])
      BY <1>1, <1>t, <3>1, <3>4, InvisibleChanges DEF ReleaseStale
    <3> QED
      BY <3>2, <3>3, <3>4
  <2> QED
    BY <2>1 DEF Advances
<1>2. CASE ResetOrphaned(p)
  BY <1>2, <1>t, InvisibleChanges DEF ResetOrphaned, Advances
<1>3. CASE EndPass(p)
  BY <1>3, StillAdvances DEF EndPass
<1>4. CASE \E t \in recovery[p].todo : Resubmit(p, t)
  <2> PICK t \in recovery[p].todo : Resubmit(p, t)
    BY <1>4
  <2>1. t.job \in Calls
    BY DEF TypeOK, RecoveryState, Target
  <2> QED
    BY <1>t, <2>1, QueuedChanges, SetAdvances, StillAdvances
       DEF Resubmit, Matches, jobVars
<1>5. CASE \E t \in recovery[p].sent : PersistReplacement(p, t)
  <2> PICK t \in recovery[p].sent : PersistReplacement(p, t)
    BY <1>5
  <2>1. t.job \in Calls
    BY DEF TypeOK, RecoveryState, Target
  <2> QED
    BY <1>t, <2>1, InvisibleChanges, SetAdvances, PendingAdvances
       DEF PersistReplacement
<1> QED
  BY <1>1, <1>2, <1>3, <1>4, <1>5 DEF Recover

LEMMA EnvironmentAdvances ==
    ASSUME TypeOK, Environment
    PROVE  Advances
<1>t. \A j \in Calls : row[j] \in Row /\ audit[j] \in Events
  BY DEF TypeOK, Events
<1>1. ASSUME NEW j \in Calls, Cancel(j) PROVE Advances
  BY <1>1, <1>t, QueuedChanges, SetAdvances DEF Cancel
<1>2. ASSUME NEW j \in Calls, Age(j) PROVE Advances
  <2>1. Set(j, [row[j] EXCEPT !.age = "old"])
    BY <1>2 DEF Age, Set
  <2> QED
    BY <1>2, <1>t, <2>1, InvisibleChanges, SetAdvances DEF Age
<1>3. ASSUME UNCHANGED jobVars PROVE Advances
  BY <1>3, StillAdvances
<1> QED
  BY <1>1, <1>2, <1>3
     DEF Environment, ReconcileProfile, LoseCall, LoseMessage, LoseWorker,
         Redeliver, LoseRecovery

\* Whatever happens, every job takes a step of its lifecycle or none.
LEMMA NextAdvances ==
    ASSUME TypeOK, RowsFit, WorkersFit, AuditedOnce, [Next]_vars
    PROVE  Advances
<1>1. CASE UNCHANGED vars
  BY <1>1, StillAdvances DEF vars
<1> QED
  BY <1>1, SubmitAdvances, WorkAdvances, RecoverAdvances, EnvironmentAdvances DEF Next

-----------------------------------------------------------------------------
(* The parts of the inductive invariant that speak of one job follow from the *)
(* abstract lifecycle alone.                                                  *)

JobFits(r, a) ==
    /\ RowFits(r)
    /\ r.status = "queued" => r.attempts < MaxAttempts
    /\ a["succeeded"] = IF r.status = "succeeded" THEN 1 ELSE 0
    /\ a["failed"] <= IF r.status = "failed" THEN 1 ELSE 0

LEMMA StepKeepsFit ==
    ASSUME NEW r \in Row, NEW s \in Row, NEW a \in Events, NEW b \in Events,
           StepOf(r, a, s, b), JobFits(r, a)
    PROVE  JobFits(s, b)
<1>1. CASE EntryOf(s, b) = EntryOf(r, a)
  BY <1>1 DEF EntryOf, JobFits, RowFits
<1>2. CASE Lifecycle!Move(EntryOf(r, a), EntryOf(s, b))
  BY <1>2, MaxAttemptsAssumption
     DEF EntryOf, JobFits, RowFits, Row, Events, Attempts, Lifecycle!Move,
         Lifecycle!Accept, Lifecycle!Start, Lifecycle!Keep, Lifecycle!Yield,
         Lifecycle!Succeed, Lifecycle!GiveUp, Lifecycle!Abandon,
         Lifecycle!Withdraw, Lifecycle!Absent, Lifecycle!Entry
<1> QED
  BY <1>1, <1>2 DEF StepOf

\* What a worker that is not acting relies on.
Follows(r, s) ==
    /\ s.attempts >= r.attempts
    /\ r.status # "absent" => s.status # "absent" /\ s.version >= r.version
    /\ r.checkpoint # 0 => s.checkpoint = r.checkpoint
    /\ r.status # "absent" /\ s.version = r.version
          => /\ s.status = r.status
             /\ s.attempts = r.attempts
             /\ s.checkpoint = r.checkpoint

LEMMA StepFollows ==
    ASSUME NEW r \in Row, NEW s \in Row, NEW a \in Events, NEW b \in Events,
           StepOf(r, a, s, b), RowFits(r)
    PROVE  Follows(r, s)
<1>1. CASE EntryOf(s, b) = EntryOf(r, a) /\ s.version >= r.version
  BY <1>1 DEF EntryOf, Follows, Row, Attempts
<1>2. CASE /\ Lifecycle!Move(EntryOf(r, a), EntryOf(s, b))
           /\ s.version > r.version \/ r.status = "absent"
  BY <1>2, MaxAttemptsAssumption
     DEF EntryOf, Follows, RowFits, Row, Attempts, Lifecycle!Move,
         Lifecycle!Accept, Lifecycle!Start, Lifecycle!Keep, Lifecycle!Yield,
         Lifecycle!Succeed, Lifecycle!GiveUp, Lifecycle!Abandon,
         Lifecycle!Withdraw, Lifecycle!Absent, Lifecycle!Entry
<1> QED
  BY <1>1, <1>2 DEF StepOf

LEMMA FitsStays ==
    ASSUME NEW s \in WorkerState, NEW r \in Row, NEW t \in Row,
           WorkerFits(s, r), Follows(r, t)
    PROVE  WorkerFits(s, t)
  BY DEF WorkerFits, Follows, WorkerState, Row, Attempts, Retries

-----------------------------------------------------------------------------
(* Types *)

\* A busy worker's job and attempt name a model version.
LEMMA BusyTypes ==
    ASSUME TypeOK, WorkersFit, NEW w \in Workers, worker[w].pc # "idle"
    PROVE  /\ worker[w] \in WorkerState /\ worker[w].job \in Calls
           /\ worker[w].retries \in Retries
           /\ [job |-> worker[w].job, attempt |-> worker[w].attempt] \in Version
           /\ worker[w].pc \in {"alias", "profile"} => VersionOf(w) \in Version
<1>1. worker[w] \in WorkerState /\ worker[w].job \in Calls
  BY DEF TypeOK, WorkersFit
<1>2. worker[w].attempt \in Attempts \ {0}
  BY <1>1 DEF WorkersFit, WorkerFits, WorkerState, Attempts, Retries
<1>3. worker[w].pc \in {"alias", "profile"} => worker[w].outcome \in Attempts \ {0}
  BY <1>1 DEF WorkersFit, WorkerFits, WorkerState
<1>4. worker[w].retries \in Retries
  BY <1>1 DEF WorkerState
<1> QED
  BY <1>1, <1>2, <1>3, <1>4 DEF Version, VersionOf

LEMMA ResendType ==
    ASSUME TypeOK, NEW w \in Workers, worker[w].job \in Calls, Resend(w)
    PROVE  broker' \in [Calls -> [Retries -> Nat]]
  BY SendType DEF Resend, TypeOK

LEMMA SubmitType ==
    ASSUME TypeOK, NEW c \in Calls, Submit(c)
    PROVE  TypeOK'
<1> USE DEF TypeOK, jobVars, callVars, modelVars, boundVars
<1>1. CASE Lookup(c)
  BY <1>1 DEF Lookup, Goto, ReplyFromExisting, Steps, Replies
<1>2. CASE CheckQuota(c)
  BY <1>2 DEF CheckQuota, Goto, Steps, Replies
<1>3. CASE Create(c)
  <2>1. row' \in [Calls -> Row]
    BY <1>3, RowTypes, SetType DEF Create
  <2> QED
    BY <1>3, <2>1 DEF Create, Goto, ReplyFromExisting, Steps, Replies
<1>4. CASE Enqueue(c)
  <2>1. broker' \in [Calls -> [Retries -> Nat]]
    BY <1>4, SendType, MaxAttemptsAssumption DEF Enqueue, Retries
  <2> QED
    BY <1>4, <2>1 DEF Enqueue, Goto, Steps, Replies
<1>5. CASE FailEnqueue(c)
  <2>1. row' \in [Calls -> Row]
    BY <1>5, RowTypes, SetType DEF FailEnqueue
  <2> QED
    BY <1>5, <2>1 DEF FailEnqueue, Goto, Steps, Replies
<1>6. CASE PersistIdentifier(c)
  <2>1. row' \in [Calls -> Row]
    BY <1>6, RowTypes, SetType DEF PersistIdentifier, MarkPending
  <2> QED
    BY <1>6, <2>1 DEF PersistIdentifier, Goto, Steps, Replies
<1> QED
  BY <1>1, <1>2, <1>3, <1>4, <1>5, <1>6 DEF Submit

LEMMA DeliverType ==
    ASSUME TypeOK, NEW w \in Workers, NEW j \in Calls, NEW n \in Retries, Deliver(w, j, n)
    PROVE  TypeOK'
<1> USE DEF TypeOK, callVars, modelVars, boundVars
<1>1. broker' \in [Calls -> [Retries -> Nat]]
  BY DEF Deliver
<1>2. row' \in [Calls -> Row]
  BY RowTypes, SetType DEF Deliver
<1>3. worker' \in [Workers -> WorkerState]
  <2>1. CASE Claimable(row[j])
    <3> DEFINE claimed == Claimed(row[j])
    <3>1. claimed \in Row
      BY <2>1, RowTypes
    <3> HIDE DEF claimed
    <3> DEFINE s == [pc |-> IF Trained(claimed) THEN "alias" ELSE "train",
                     job |-> j,
                     version |-> claimed.version,
                     attempt |-> claimed.attempts,
                     outcome |-> claimed.checkpoint,
                     draft |-> IF Trained(claimed) THEN "none" ELSE "built",
                     retries |-> n]
    <3>2. s \in WorkerState
      BY <3>1 DEF WorkerState, Row
    <3>3. Become(w, s)
      BY <2>1 DEF Deliver, claimed
    <3> QED
      BY <3>2, <3>3, BecomeType
  <2>2. CASE ~Claimable(row[j])
    BY <2>2 DEF Deliver
  <2> QED
    BY <2>1, <2>2
<1> QED
  BY <1>1, <1>2, <1>3 DEF Deliver

LEMMA WorkType ==
    ASSUME TypeOK, WorkersFit, NEW w \in Workers, Work(w)
    PROVE  TypeOK'
<1> USE DEF TypeOK, jobVars, callVars, modelVars, boundVars
<1>1. CASE \E j \in Calls, n \in Retries : Deliver(w, j, n)
  BY <1>1, DeliverType
<1>2. CASE Train(w)
  <2>1. worker' \in [Workers -> WorkerState]
    BY <1>2, WorkerTypes, BecomeType, HandleType DEF Train
  <2>2. registry' \in SUBSET Version
    <3> DEFINE trained == [job |-> worker[w].job, attempt |-> worker[w].attempt]
    <3>1. trained \in Version
      BY <1>2, BusyTypes DEF Train
    <3>2. registry' = registry \/ registry' = registry \cup {trained}
      BY <1>2 DEF Train
    <3> HIDE DEF trained
    <3> QED
      BY <3>1, <3>2
  <2> QED
    BY <1>2, <2>1, <2>2 DEF Train
<1>3. CASE Checkpoint(w)
  <2>1. worker' \in [Workers -> WorkerState]
    BY <1>3, WorkerTypes, IdleType, BecomeType, HandleType DEF Checkpoint
  <2>2. row' \in [Calls -> Row]
    BY <1>3, BusyTypes, RowTypes, SetType DEF Checkpoint, WorkerState
  <2> QED
    BY <1>3, <2>1, <2>2 DEF Checkpoint
<1>4. CASE AssignAlias(w)
  <2>1. worker' \in [Workers -> WorkerState]
    BY <1>4, WorkerTypes, BecomeType, HandleType DEF AssignAlias
  <2>2. candidate' \in Version \cup {NoVersion}
    BY <1>4, BusyTypes DEF AssignAlias
  <2> QED
    BY <1>4, <2>1, <2>2 DEF AssignAlias
<1>5. CASE PersistProfile(w)
  <2>1. worker' \in [Workers -> WorkerState]
    BY <1>5, WorkerTypes, BecomeType DEF PersistProfile
  <2>2. profiles' \in SUBSET Version
    <3>1. VersionOf(w) \in Version
      BY <1>5, BusyTypes DEF PersistProfile
    <3>2. profiles' = profiles \/ profiles' = profiles \cup {VersionOf(w)}
      BY <1>5 DEF PersistProfile
    <3> QED
      BY <3>1, <3>2
  <2> QED
    BY <1>5, <2>1, <2>2 DEF PersistProfile
<1>6. CASE Complete(w) \/ Fail(w)
  <2>1. worker' \in [Workers -> WorkerState]
    BY <1>6, IdleType, BecomeType DEF Complete, Fail
  <2>2. row' \in [Calls -> Row]
    BY <1>6, BusyTypes, RowTypes, SetType DEF Complete, Fail, WorkerState
  <2>3. audit' \in [Calls -> [{"succeeded", "failed"} -> Nat]]
    BY <1>6 DEF Complete, Fail, Record
  <2> QED
    BY <1>6, <2>1, <2>2, <2>3 DEF Complete, Fail
<1>7. CASE Retry(w)
  <2>1. worker' \in [Workers -> WorkerState]
    BY <1>7, IdleType, WorkerTypes, BecomeType DEF Retry
  <2>2. row' \in [Calls -> Row]
    BY <1>7, BusyTypes, RowTypes, SetType DEF Retry
  <2> QED
    BY <1>7, <2>1, <2>2 DEF Retry
<1>8. CASE Raise(w)
  <2>1. worker' \in [Workers -> WorkerState]
    BY <1>8, IdleType, BecomeType DEF Raise
  <2>2. broker' \in [Calls -> [Retries -> Nat]]
    BY <1>8, BusyTypes, ResendType DEF Raise
  <2> QED
    BY <1>8, <2>1, <2>2 DEF Raise
<1> QED
  BY <1>1, <1>2, <1>3, <1>4, <1>5, <1>6, <1>7, <1>8 DEF Work

LEMMA StepType ==
    ASSUME recovery \in [Reconcilers -> RecoveryState],
           NEW p \in Reconcilers, NEW s \in RecoveryState, Step(p, s)
    PROVE  recovery' \in [Reconcilers -> RecoveryState]
  BY DEF Step

LEMMA RecoverType ==
    ASSUME TypeOK, NEW p \in Reconcilers, Recover(p)
    PROVE  TypeOK'
<1> USE DEF TypeOK, jobVars, callVars, modelVars, boundVars
<1>r. AtRest \in RecoveryState
  BY DEF AtRest, RecoveryState
<1>1. CASE ReleaseStale(p)
  <2>1. row' \in [Calls -> Row]
    BY <1>1, RowTypes DEF ReleaseStale
  <2>2. [AtRest EXCEPT !.pc = "list",
                       !.released = {j \in Calls : Requeueable(row[j])}]
          \in RecoveryState
    BY DEF AtRest, RecoveryState
  <2> QED
    BY <1>1, <2>1, <2>2, StepType DEF ReleaseStale
<1>2. CASE ResetOrphaned(p)
  <2>1. row' \in [Calls -> Row]
    BY <1>2, RowTypes DEF ResetOrphaned
  <2> DEFINE due == {[job |-> j, version |-> row'[j].version] :
                        j \in {i \in Calls : \/ i \in recovery[p].released
                                             \/ Orphaned(row[i])}}
  <2>2. due \in SUBSET Target
    BY <2>1 DEF Target, Row
  <2>3. Step(p, [recovery[p] EXCEPT !.pc = "enqueue", !.released = {}, !.todo = due])
    BY <1>2 DEF ResetOrphaned
  <2> HIDE DEF due
  <2>4. [recovery[p] EXCEPT !.pc = "enqueue", !.released = {}, !.todo = due]
          \in RecoveryState
    BY <2>2 DEF RecoveryState
  <2>5. recovery' \in [Reconcilers -> RecoveryState]
    BY <2>3, <2>4, StepType
  <2> QED
    BY <1>2, <2>1, <2>5 DEF ResetOrphaned
<1>3. CASE EndPass(p)
  BY <1>3, <1>r, StepType DEF EndPass
<1>4. CASE \E t \in recovery[p].todo : Resubmit(p, t)
  <2> PICK t \in recovery[p].todo : Resubmit(p, t)
    BY <1>4
  <2>1. recovery[p] \in RecoveryState /\ t \in Target /\ t.job \in Calls
    BY DEF RecoveryState, Target
  <2>2. row' \in [Calls -> Row]
    BY <2>1, RowTypes, SetType DEF Resubmit
  <2>3. broker' \in [Calls -> [Retries -> Nat]]
    <3>1. 0 \in Retries
      BY MaxAttemptsAssumption DEF Retries
    <3>2. Send(t.job, 0) \/ UNCHANGED broker
      BY DEF Resubmit
    <3> QED
      BY <2>1, <3>1, <3>2, SendType
  <2>4. /\ [recovery[p] EXCEPT !.pc = "persist", !.todo = @ \ {t}, !.sent = {t}]
             \in RecoveryState
        /\ [recovery[p] EXCEPT !.todo = @ \ {t}] \in RecoveryState
    BY <2>1 DEF RecoveryState
  <2>5. recovery' \in [Reconcilers -> RecoveryState]
    BY <2>4, StepType DEF Resubmit
  <2> QED
    BY <2>2, <2>3, <2>5 DEF Resubmit
<1>5. CASE \E t \in recovery[p].sent : PersistReplacement(p, t)
  <2> PICK t \in recovery[p].sent : PersistReplacement(p, t)
    BY <1>5
  <2>1. recovery[p] \in RecoveryState /\ t.job \in Calls
    BY DEF RecoveryState, Target
  <2>2. row' \in [Calls -> Row]
    BY <2>1, RowTypes, SetType DEF PersistReplacement, MarkPending
  <2>3. [recovery[p] EXCEPT !.pc = "enqueue", !.sent = {}] \in RecoveryState
    BY <2>1 DEF RecoveryState
  <2>4. recovery' \in [Reconcilers -> RecoveryState]
    BY <2>3, StepType DEF PersistReplacement
  <2> QED
    BY <2>2, <2>4 DEF PersistReplacement
<1> QED
  BY <1>1, <1>2, <1>3, <1>4, <1>5 DEF Recover

LEMMA EnvironmentType ==
    ASSUME TypeOK, RowsFit, WorkersFit, Environment
    PROVE  TypeOK'
<1> USE DEF TypeOK, jobVars, callVars, modelVars, boundVars
<1>1. ASSUME NEW j \in Calls, Cancel(j) PROVE TypeOK'
  BY <1>1, RowTypes, SetType DEF Cancel
<1>2. ASSUME NEW j \in Calls, ReconcileProfile(j) PROVE TypeOK'
  <2>1. [job |-> j, attempt |-> row[j].checkpoint] \in Version
    BY <1>2 DEF ReconcileProfile, RowsFit, RowFits, Version, Row
  <2> QED
    BY <1>2, <2>1 DEF ReconcileProfile
<1>3. ASSUME NEW j \in Calls, Age(j) PROVE TypeOK'
  <2>1. /\ row \in [Calls -> Row]
        /\ row' = [row EXCEPT ![j] = [row[j] EXCEPT !.age = "old"]]
    BY <1>3 DEF Age
  <2>2. [row[j] EXCEPT !.age = "old"] \in Row
    <3> HIDE DEF TypeOK
    <3>1. row[j] \in Row
      BY <2>1
    <3> QED
      BY <3>1 DEF Row
  <2>3. row' \in [Calls -> Row]
    <3> HIDE DEF TypeOK
    <3> QED
      BY <2>1, <2>2
  <2> QED
    BY <1>3, <2>3, BoundsAssumption DEF Age
<1>4. ASSUME NEW j \in Calls, LoseCall(j) PROVE TypeOK'
  BY <1>4, BoundsAssumption DEF LoseCall, Fault, Goto, Replies
<1>5. ASSUME NEW j \in Calls, NEW n \in Retries, LoseMessage(j, n) PROVE TypeOK'
  <2>1. broker' \in [Calls -> [Retries -> Nat]]
    BY <1>5 DEF LoseMessage
  <2> QED
    BY <1>5, <2>1, BoundsAssumption DEF LoseMessage, Fault
<1>6. ASSUME NEW w \in Workers, LoseWorker(w) PROVE TypeOK'
  <2>1. broker' \in [Calls -> [Retries -> Nat]]
    BY <1>6, BusyTypes, SendType, ResendType DEF LoseWorker
  <2>2. worker' \in [Workers -> WorkerState]
    BY <1>6, IdleType, BecomeType DEF LoseWorker
  <2> QED
    BY <1>6, <2>1, <2>2, BoundsAssumption DEF LoseWorker, Fault
<1>7. ASSUME NEW w \in Workers, Redeliver(w) PROVE TypeOK'
  <2>1. broker' \in [Calls -> [Retries -> Nat]]
    BY <1>7, BusyTypes, SendType DEF Redeliver
  <2> QED
    BY <1>7, <2>1, BoundsAssumption DEF Redeliver, Fault
<1>8. ASSUME NEW p \in Reconcilers, LoseRecovery(p) PROVE TypeOK'
  <2>1. recovery' \in [Reconcilers -> RecoveryState]
    BY <1>8, StepType DEF LoseRecovery, AtRest, RecoveryState
  <2> QED
    BY <1>8, <2>1, BoundsAssumption DEF LoseRecovery, Fault
<1> QED
  BY <1>1, <1>2, <1>3, <1>4, <1>5, <1>6, <1>7, <1>8 DEF Environment

LEMMA NextType ==
    ASSUME TypeOK, RowsFit, WorkersFit, [Next]_vars
    PROVE  TypeOK'
<1>1. CASE UNCHANGED vars
  BY <1>1 DEF TypeOK, vars, jobVars, callVars, modelVars, boundVars
<1> QED
  BY <1>1, SubmitType, WorkType, RecoverType, EnvironmentType DEF Next

-----------------------------------------------------------------------------
(* Rows, audits and replies *)

LEMMA NextJobsFit ==
    ASSUME TypeOK, TypeOK', RowsFit, AuditedOnce, QueuedIsClaimable, Advances
    PROVE  /\ AuditedOnce'
           /\ QueuedIsClaimable'
           /\ \A j \in Calls : RowFits(row'[j]) /\ Follows(row[j], row'[j])
<1>1. ASSUME NEW j \in Calls
      PROVE  JobFits(row'[j], audit'[j]) /\ Follows(row[j], row'[j])
  <2>1. /\ row[j] \in Row /\ row'[j] \in Row
        /\ audit[j] \in Events /\ audit'[j] \in Events
    BY DEF TypeOK, Events
  <2>2. JobFits(row[j], audit[j]) /\ RowFits(row[j])
    BY DEF RowsFit, AuditedOnce, QueuedIsClaimable, JobFits
  <2>3. StepOf(row[j], audit[j], row'[j], audit'[j])
    BY DEF Advances
  <2> QED
    BY <2>1, <2>2, <2>3, StepKeepsFit, StepFollows
<1> QED
  BY <1>1 DEF JobFits, AuditedOnce, QueuedIsClaimable

\* Only Create brings a row into being.
StaysAbsent == \A j \in Calls : row[j].status = "absent" => row'[j].status = "absent"

LEMMA SetStaysAbsent ==
    ASSUME TypeOK, NEW k \in Calls, NEW r, Set(k, r), row[k].status # "absent"
    PROVE  StaysAbsent
  BY DEF TypeOK, Set, StaysAbsent

LEMMA MarkPendingStaysAbsent ==
    ASSUME TypeOK, NEW k \in Calls, NEW v, MarkPending(k, v)
    PROVE  StaysAbsent
  BY SetStaysAbsent DEF MarkPending, Matches, StaysAbsent

LEMMA OthersStayAbsent ==
    ASSUME TypeOK, WorkersFit, [Next]_vars, \A c \in Calls : ~Create(c)
    PROVE  StaysAbsent
<1> USE DEF jobVars, Matches
<1>0. UNCHANGED row => StaysAbsent
  BY DEF StaysAbsent
<1>1. ASSUME NEW c \in Calls, Submit(c) PROVE StaysAbsent
  BY <1>0, <1>1, SetStaysAbsent, MarkPendingStaysAbsent
     DEF Submit, Lookup, CheckQuota, Enqueue, FailEnqueue, PersistIdentifier, CanIdentify
<1>2. ASSUME NEW w \in Workers, Work(w) PROVE StaysAbsent
  <2>1. ASSUME NEW i \in Calls, NEW n \in Retries, Deliver(w, i, n) PROVE StaysAbsent
    BY <1>0, <2>1, SetStaysAbsent DEF Deliver, Claimable
  <2>2. worker[w].pc # "idle" => worker[w].job \in Calls
    BY DEF WorkersFit
  <2>3. CASE Train(w) \/ AssignAlias(w) \/ PersistProfile(w) \/ Raise(w)
    BY <1>0, <2>3 DEF Train, AssignAlias, PersistProfile, Raise
  <2>4. CASE Checkpoint(w) \/ Complete(w)
    BY <1>0, <2>2, <2>4, SetStaysAbsent DEF Checkpoint, Complete
  <2>5. CASE Fail(w) \/ Retry(w)
    BY <1>0, <2>2, <2>5, SetStaysAbsent DEF Fail, Retry
  <2> QED
    BY <1>2, <2>1, <2>3, <2>4, <2>5 DEF Work
<1>3. ASSUME NEW p \in Reconcilers, Recover(p) PROVE StaysAbsent
  <2>1. CASE ReleaseStale(p)
    BY <2>1 DEF ReleaseStale, StaysAbsent, Requeueable, Exhausted, StaleRunning
  <2>2. CASE ResetOrphaned(p)
    BY <2>2 DEF ResetOrphaned, StaysAbsent, Orphaned
  <2>3. CASE EndPass(p)
    BY <1>0, <2>3 DEF EndPass
  <2>4. ASSUME NEW t \in recovery[p].todo, Resubmit(p, t) PROVE StaysAbsent
    <3>1. t.job \in Calls
      BY DEF TypeOK, RecoveryState, Target
    <3> QED
      BY <1>0, <2>4, <3>1, SetStaysAbsent DEF Resubmit
  <2>5. ASSUME NEW t \in recovery[p].sent, PersistReplacement(p, t) PROVE StaysAbsent
    <3>1. t.job \in Calls
      BY DEF TypeOK, RecoveryState, Target
    <3> QED
      BY <2>5, <3>1, SetStaysAbsent, MarkPendingStaysAbsent
         DEF PersistReplacement, CanIdentify
  <2> QED
    BY <1>3, <2>1, <2>2, <2>3, <2>4, <2>5 DEF Recover
<1>4. CASE Environment
  <2>1. ASSUME NEW j \in Calls, Cancel(j) PROVE StaysAbsent
    BY <2>1, SetStaysAbsent DEF Cancel
  <2>2. ASSUME NEW j \in Calls, Age(j) PROVE StaysAbsent
    BY <2>2 DEF Age, StaysAbsent, TypeOK
  <2> QED
    BY <1>0, <1>4, <2>1, <2>2
       DEF Environment, ReconcileProfile, LoseCall, LoseMessage, LoseWorker,
           Redeliver, LoseRecovery
<1>5. CASE UNCHANGED vars
  BY <1>0, <1>5 DEF vars
<1> QED
  BY <1>1, <1>2, <1>3, <1>4, <1>5 DEF Next

LEMMA NextScopes ==
    ASSUME TypeOK, RowsFit, WorkersFit, OneJobPerScope, [Next]_vars
    PROVE  /\ OneJobPerScope'
           /\ \A c \in Calls : call'[c] \in {"new", "quota", "create"}
                                 => row'[c].status = "absent"
<1>k. UNCHANGED key
  BY DEF Next, vars, Submit, Lookup, CheckQuota, Create, Enqueue, FailEnqueue,
         PersistIdentifier, Work, Deliver, Train, Checkpoint, AssignAlias,
         PersistProfile, Complete, Fail, Retry, Raise, Recover, ReleaseStale,
         ResetOrphaned, Resubmit, PersistReplacement, EndPass, Environment, Cancel,
         ReconcileProfile, Age, LoseCall, LoseMessage, LoseWorker, Redeliver,
         LoseRecovery, callVars
<1>1. ASSUME NEW c \in Calls, Create(c)
      PROVE  /\ OneJobPerScope'
             /\ \A d \in Calls : call'[d] \in {"new", "quota", "create"}
                                   => row'[d].status = "absent"
  <2>1. CASE UNCHANGED row
    BY <1>1, <1>k, <2>1 DEF Create, Goto, TypeOK, OneJobPerScope, RowsFit, ReplyFromExisting
  <2>2. CASE SameScope(c) = {} /\ Set(c, CreatedRow) /\ Goto(c, "enqueue")
    <3>1. \A d \in Calls : d # c => row'[d] = row[d] /\ call'[d] = call[d]
      BY <2>2 DEF Set, Goto, TypeOK
    <3>2. call'[c] = "enqueue"
      BY <2>2 DEF Goto, TypeOK
    <3>3. \A d \in Calls : row[d].status # "absent" => key[d] # key[c] \/ key[c] = NoKey
      BY <2>2 DEF SameScope
    <3> QED
      BY <1>k, <3>1, <3>2, <3>3 DEF OneJobPerScope, RowsFit
  <2> QED
    BY <1>1, <2>1, <2>2 DEF Create
<1>2. ASSUME \A c \in Calls : ~Create(c)
      PROVE  /\ OneJobPerScope'
             /\ \A d \in Calls : call'[d] \in {"new", "quota", "create"}
                                   => row'[d].status = "absent"
  <2>1. StaysAbsent
    BY <1>2, OthersStayAbsent
  <2>2. \A d \in Calls : call'[d] \in {"new", "quota", "create"}
                          => call[d] \in {"new", "quota", "create"}
    <3>1. CASE UNCHANGED call
      BY <3>1
    <3>2. ASSUME NEW c \in Calls, Submit(c) \/ LoseCall(c)
          PROVE  \A d \in Calls : call'[d] \in {"new", "quota", "create"}
                                   => call[d] \in {"new", "quota", "create"}
      BY <1>2, <3>2
         DEF Submit, Lookup, CheckQuota, Enqueue, FailEnqueue, PersistIdentifier,
             LoseCall, Goto, TypeOK
    <3> QED
      BY <3>1, <3>2
         DEF Next, vars, Work, Deliver, Train, Checkpoint, AssignAlias,
             PersistProfile, Complete, Fail, Retry, Raise, Recover, ReleaseStale,
             ResetOrphaned, Resubmit, PersistReplacement, EndPass, Environment,
             Cancel, ReconcileProfile, Age, LoseMessage, LoseWorker, Redeliver,
             LoseRecovery, callVars
  <2> QED
    BY <1>k, <2>1, <2>2 DEF OneJobPerScope, RowsFit, StaysAbsent
<1> QED
  BY <1>1, <1>2

-----------------------------------------------------------------------------
(* Workers, messages and what is published *)

Fits(s, rows) == s.pc # "idle" => s.job \in Calls /\ WorkerFits(s, rows[s.job])

\* Steps of a worker that leave the row alone.
LEMMA WorkerSteps ==
    ASSUME NEW s \in WorkerState, NEW r \in Row, WorkerFits(s, r)
    PROVE  /\ s.pc = "train"
                => WorkerFits([s EXCEPT !.pc = "checkpoint", !.outcome = s.attempt], r)
           /\ WorkerFits([s EXCEPT !.pc = "fail"], r)
           /\ s.attempt < MaxAttempts => WorkerFits([s EXCEPT !.pc = "retry"], r)
           /\ s.pc \in {"alias", "profile"}
                => /\ WorkerFits([s EXCEPT !.pc = "profile"], r)
                   /\ WorkerFits([s EXCEPT !.pc = "complete"], r)
  BY DEF WorkerFits, WorkerState

\* Steps of a worker that write the row it owns.
LEMMA WorkerWrites ==
    ASSUME NEW s \in WorkerState, NEW r \in Row, WorkerFits(s, r),
           s.version = r.version
    PROVE  /\ s.pc = "checkpoint"
                => WorkerFits([s EXCEPT !.pc = "alias", !.version = @ + 1],
                              Checkpointed(r, s.outcome))
           /\ s.pc = "retry" => WorkerFits([s EXCEPT !.pc = "raise"], Released(r))
<1>1. CASE s.pc = "checkpoint"
  <2> DEFINE t == [s EXCEPT !.pc = "alias", !.version = @ + 1]
             q == Checkpointed(r, s.outcome)
  <2>1. /\ t.pc = "alias" /\ t.version = s.version + 1 /\ t.attempt = s.attempt
        /\ t.outcome = s.outcome /\ t.retries = s.retries
    BY DEF WorkerState
  <2>2. /\ q.status = r.status /\ q.version = r.version + 1 /\ q.attempts = r.attempts
        /\ q.checkpoint = s.outcome
    BY DEF Checkpointed, Row
  <2>3. s.outcome = s.attempt /\ s.attempt # 0 /\ r.status = "running"
    BY <1>1 DEF WorkerFits, WorkerState, Attempts, Retries
  <2> HIDE DEF t, q
  <2>4. WorkerFits(t, q)
    BY <2>1, <2>2, <2>3 DEF WorkerFits, WorkerState, Row
  <2> QED
    BY <1>1, <2>4 DEF t, q
<1>2. CASE s.pc = "retry"
  <2> DEFINE t == [s EXCEPT !.pc = "raise"]
             q == Released(r)
  <2>1. /\ t.pc = "raise" /\ t.version = s.version /\ t.attempt = s.attempt
        /\ t.retries = s.retries
    BY DEF WorkerState
  <2>2. q.status = "queued" /\ q.version = r.version + 1 /\ q.attempts = r.attempts
    BY DEF Released, Row
  <2> HIDE DEF t, q
  <2>3. WorkerFits(t, q)
    BY <1>2, <2>1, <2>2 DEF WorkerFits, WorkerState, Row
  <2> QED
    BY <1>2, <2>3 DEF t, q
<1> QED
  BY <1>1, <1>2

LEMMA BecomeFits ==
    ASSUME TypeOK, TypeOK', WorkersFit, \A j \in Calls : Follows(row[j], row'[j]),
           NEW w \in Workers, NEW s, Become(w, s), Fits(s, row')
    PROVE  WorkersFit'
<1>1. ASSUME NEW v \in Workers PROVE Fits(worker'[v], row')
  <2>1. CASE v = w
    BY <2>1 DEF Become, TypeOK
  <2>2. CASE v # w
    <3>1. worker'[v] = worker[v] /\ worker[v] \in WorkerState
      BY <2>2 DEF Become, TypeOK
    <3> QED
      BY <3>1, FitsStays DEF WorkersFit, Fits, TypeOK
  <2> QED
    BY <2>1, <2>2
<1> QED
  BY <1>1 DEF WorkersFit, Fits

LEMMA StillFits ==
    ASSUME TypeOK, TypeOK', WorkersFit, \A j \in Calls : Follows(row[j], row'[j]),
           UNCHANGED worker
    PROVE  WorkersFit'
<1>1. ASSUME NEW v \in Workers, worker[v].pc # "idle"
      PROVE  worker[v].job \in Calls /\ WorkerFits(worker[v], row'[worker[v].job])
  BY <1>1, FitsStays DEF WorkersFit, TypeOK
<1> QED
  BY <1>1 DEF WorkersFit

LEMMA WorkFits ==
    ASSUME TypeOK, TypeOK', WorkersFit, MessagesFit,
           \A j \in Calls : Follows(row[j], row'[j]), NEW w \in Workers, Work(w)
    PROVE  WorkersFit'
<1> DEFINE s == worker[w]
           j == worker[w].job
<1>i. Fits(Idle, row')
  BY DEF Fits, Idle
<1>b. ASSUME s.pc # "idle"
      PROVE  s \in WorkerState /\ j \in Calls /\ row[j] \in Row /\ WorkerFits(s, row[j])
  BY <1>b DEF WorkersFit, TypeOK
<1>h. ASSUME s.pc # "idle", UNCHANGED row, NEW e, Handle(w, e) PROVE WorkersFit'
  <2>1. PICK step \in {"retry", "fail"} :
              /\ Become(w, [s EXCEPT !.pc = step])
              /\ step = "retry" => s.attempt < MaxAttempts
    BY <1>h DEF Handle
  <2>2. Fits([s EXCEPT !.pc = step], row')
    BY <1>b, <1>h, <2>1, WorkerSteps DEF Fits, WorkerState
  <2> QED
    BY <2>1, <2>2, BecomeFits
<1>1. ASSUME NEW i \in Calls, NEW n \in Retries, Deliver(w, i, n) PROVE WorkersFit'
  <2>1. CASE Claimable(row[i])
    <3> DEFINE claimed == Claimed(row[i])
               t == [pc |-> IF Trained(claimed) THEN "alias" ELSE "train",
                     job |-> i,
                     version |-> claimed.version,
                     attempt |-> claimed.attempts,
                     outcome |-> claimed.checkpoint,
                     draft |-> IF Trained(claimed) THEN "none" ELSE "built",
                     retries |-> n]
    <3>1. Become(w, t) /\ row'[i] = claimed
      BY <1>1, <2>1 DEF Deliver, Set, TypeOK
    <3>2. claimed.status = "running" /\ claimed.attempts = row[i].attempts + 1
      BY DEF Claimed, TypeOK, Row
    <3>3. n <= row[i].attempts
      BY <1>1 DEF Deliver, MessagesFit
    <3>4. claimed \in Row
      BY <2>1, RowTypes DEF TypeOK
    <3>5. n < claimed.attempts
      BY <3>2, <3>3 DEF TypeOK, Row, Attempts, Retries
    <3> HIDE DEF claimed
    <3>6. WorkerFits(t, claimed)
      BY <3>2, <3>4, <3>5 DEF WorkerFits, Row, Attempts, Trained
    <3>7. Fits(t, row')
      BY <3>1, <3>6 DEF Fits
    <3> HIDE DEF t
    <3> QED
      BY <3>1, <3>7, BecomeFits
  <2>2. CASE ~Claimable(row[i])
    BY <1>1, <2>2, StillFits DEF Deliver
  <2> QED
    BY <2>1, <2>2
<1>2. CASE Train(w)
  <2>1. s.pc = "train" /\ UNCHANGED row
    BY <1>2 DEF Train, jobVars
  <2>2. CASE Become(w, [s EXCEPT !.pc = "checkpoint", !.outcome = s.attempt])
    <3>1. Fits([s EXCEPT !.pc = "checkpoint", !.outcome = s.attempt], row')
      BY <1>b, <2>1, WorkerSteps DEF Fits, WorkerState
    <3> QED
      BY <2>2, <3>1, BecomeFits
  <2>3. CASE \E e \in {"validation", "transient", "unexpected"} : Handle(w, e)
    BY <1>h, <2>1, <2>3
  <2> QED
    BY <1>2, <2>2, <2>3 DEF Train
<1>3. CASE Checkpoint(w)
  <2>1. s.pc = "checkpoint"
    BY <1>3 DEF Checkpoint
  <2>2. CASE /\ Matches(j, "running", s.version)
             /\ Set(j, Checkpointed(row[j], s.outcome))
             /\ Become(w, [s EXCEPT !.pc = "alias", !.version = @ + 1])
    <3>1. row'[j] = Checkpointed(row[j], s.outcome)
      BY <1>b, <2>1, <2>2 DEF Set, TypeOK
    <3>2. WorkerFits([s EXCEPT !.pc = "alias", !.version = @ + 1], row'[j])
      BY <1>b, <2>1, <2>2, <3>1, WorkerWrites DEF Matches
    <3>3. Fits([s EXCEPT !.pc = "alias", !.version = @ + 1], row')
      BY <1>b, <2>1, <3>2 DEF Fits, WorkerState
    <3> QED
      BY <2>2, <3>3, BecomeFits
  <2>3. CASE Become(w, Idle)
    BY <1>i, <2>3, BecomeFits
  <2>4. CASE UNCHANGED row /\ \E e \in {"transient", "unexpected"} : Handle(w, e)
    BY <1>h, <2>1, <2>4
  <2> QED
    BY <1>3, <2>2, <2>3, <2>4 DEF Checkpoint
<1>4. CASE AssignAlias(w)
  <2>1. s.pc = "alias" /\ UNCHANGED row
    BY <1>4 DEF AssignAlias, jobVars
  <2>2. ASSUME NEW step \in {"profile", "complete"}, Become(w, [s EXCEPT !.pc = step])
        PROVE  WorkersFit'
    <3>1. Fits([s EXCEPT !.pc = step], row')
      BY <1>b, <2>1, WorkerSteps DEF Fits, WorkerState
    <3> QED
      BY <2>2, <3>1, BecomeFits
  <2>3. CASE \E e \in {"validation", "transient", "unexpected"} : Handle(w, e)
    BY <1>h, <2>1, <2>3
  <2> QED
    BY <1>4, <2>2, <2>3 DEF AssignAlias
<1>5. CASE PersistProfile(w)
  <2>1. s.pc = "profile" /\ UNCHANGED row /\ Become(w, [s EXCEPT !.pc = "complete"])
    BY <1>5 DEF PersistProfile, jobVars
  <2>2. Fits([s EXCEPT !.pc = "complete"], row')
    BY <1>b, <2>1, WorkerSteps DEF Fits, WorkerState
  <2> QED
    BY <2>1, <2>2, BecomeFits
<1>6. CASE Complete(w) \/ Fail(w) \/ Raise(w)
  BY <1>6, <1>i, BecomeFits DEF Complete, Fail, Raise
<1>7. CASE Retry(w)
  <2>1. s.pc = "retry"
    BY <1>7 DEF Retry
  <2>2. CASE Matches(j, "running", s.version)
    <3>1. row'[j] = Released(row[j]) /\ Become(w, [s EXCEPT !.pc = "raise"])
      BY <1>b, <1>7, <2>1, <2>2 DEF Retry, Set, TypeOK
    <3>2. WorkerFits([s EXCEPT !.pc = "raise"], row'[j])
      BY <1>b, <2>1, <2>2, <3>1, WorkerWrites DEF Matches
    <3>3. Fits([s EXCEPT !.pc = "raise"], row')
      BY <1>b, <2>1, <3>2 DEF Fits, WorkerState
    <3> QED
      BY <3>1, <3>3, BecomeFits
  <2>3. CASE ~Matches(j, "running", s.version)
    BY <1>7, <1>i, <2>3, BecomeFits DEF Retry
  <2> QED
    BY <2>2, <2>3
<1> QED
  BY <1>1, <1>2, <1>3, <1>4, <1>5, <1>6, <1>7 DEF Work

LEMMA NextWorkersFit ==
    ASSUME TypeOK, TypeOK', WorkersFit, MessagesFit,
           \A j \in Calls : Follows(row[j], row'[j]), [Next]_vars
    PROVE  WorkersFit'
<1>1. ASSUME NEW w \in Workers, Work(w) PROVE WorkersFit'
  BY <1>1, WorkFits
<1>2. ASSUME NEW w \in Workers, LoseWorker(w) PROVE WorkersFit'
  <2>1. Fits(Idle, row')
    BY DEF Fits, Idle
  <2> QED
    BY <1>2, <2>1, BecomeFits DEF LoseWorker
<1>3. CASE UNCHANGED worker
  BY <1>3, StillFits
<1> QED
  BY <1>1, <1>2, <1>3
     DEF Next, vars, Submit, Lookup, CheckQuota, Create, Enqueue, FailEnqueue,
         PersistIdentifier, Recover, ReleaseStale, ResetOrphaned, Resubmit,
         PersistReplacement, EndPass, Environment, Cancel, ReconcileProfile, Age,
         LoseCall, LoseMessage, Redeliver, LoseRecovery

LEMMA AttemptsGrow ==
    ASSUME TypeOK, TypeOK', NEW j \in Calls, Follows(row[j], row'[j]),
           NEW n \in Retries, n <= row[j].attempts
    PROVE  n <= row'[j].attempts
<1>1. n \in Nat /\ row[j].attempts \in Nat /\ row'[j].attempts \in Nat
  BY DEF TypeOK, Row, Attempts, Retries
<1>2. row'[j].attempts >= row[j].attempts
  BY DEF Follows
<1> QED
  BY <1>1, <1>2

LEMMA SendFits ==
    ASSUME TypeOK, TypeOK', MessagesFit, \A j \in Calls : Follows(row[j], row'[j]),
           NEW k \in Calls, NEW m \in Retries, m <= row[k].attempts,
           Send(k, m) \/ UNCHANGED broker
    PROVE  MessagesFit'
<1>1. ASSUME NEW j \in Calls, NEW n \in Retries, broker'[j][n] > 0
      PROVE  n <= row[j].attempts
  <2>1. CASE j = k /\ n = m
    BY <2>1
  <2>2. CASE j # k \/ n # m
    <3>1. broker'[j][n] = broker[j][n]
      BY <2>2 DEF Send, TypeOK
    <3> QED
      BY <1>1, <3>1 DEF MessagesFit
  <2> QED
    BY <2>1, <2>2
<1>2. ASSUME NEW j \in Calls, NEW n \in Retries, n <= row[j].attempts
      PROVE  n <= row'[j].attempts
  BY <1>2, AttemptsGrow
<1> QED
  BY <1>1, <1>2 DEF MessagesFit

LEMMA TakeFits ==
    ASSUME TypeOK, TypeOK', MessagesFit, \A j \in Calls : Follows(row[j], row'[j]),
           NEW k \in Calls, NEW m \in Retries, broker[k][m] > 0,
           broker' = [broker EXCEPT ![k][m] = @ - 1]
    PROVE  MessagesFit'
<1>1. ASSUME NEW j \in Calls, NEW n \in Retries, broker'[j][n] > 0
      PROVE  n <= row[j].attempts
  BY <1>1 DEF MessagesFit, TypeOK
<1>2. ASSUME NEW j \in Calls, NEW n \in Retries, n <= row[j].attempts
      PROVE  n <= row'[j].attempts
  BY <1>2, AttemptsGrow
<1> QED
  BY <1>1, <1>2 DEF MessagesFit

LEMMA NextMessagesFit ==
    ASSUME TypeOK, TypeOK', WorkersFit, MessagesFit,
           \A j \in Calls : Follows(row[j], row'[j]), [Next]_vars
    PROVE  MessagesFit'
<1>0. 0 \in Retries /\ \A j \in Calls : 0 <= row[j].attempts
  BY MaxAttemptsAssumption DEF Retries, TypeOK, Row, Attempts
<1>1. CASE UNCHANGED broker
  <2>1. ASSUME NEW j \in Calls, NEW n \in Retries, n <= row[j].attempts
        PROVE  n <= row'[j].attempts
    BY <2>1, AttemptsGrow
  <2> QED
    BY <1>1, <2>1 DEF MessagesFit
<1>2. ASSUME NEW c \in Calls, Send(c, 0) PROVE MessagesFit'
  BY <1>0, <1>2, SendFits
<1>3. ASSUME NEW w \in Workers, worker[w].pc # "idle",
             Send(worker[w].job, worker[w].retries) \/ Resend(w)
      PROVE  MessagesFit'
  <2>1. /\ worker[w].job \in Calls /\ worker[w].retries \in Retries
        /\ worker[w].retries + 1 <= row[worker[w].job].attempts
        /\ worker[w].retries <= row[worker[w].job].attempts
    <3>1. /\ worker[w].job \in Calls
          /\ worker[w].retries < worker[w].attempt
          /\ worker[w].attempt <= row[worker[w].job].attempts
      BY <1>3 DEF WorkersFit, WorkerFits
    <3>2. /\ worker[w].retries \in Retries /\ worker[w].retries \in Nat
          /\ worker[w].attempt \in Nat /\ row[worker[w].job].attempts \in Nat
      BY <3>1 DEF TypeOK, WorkerState, Row, Attempts, Retries
    <3> QED
      BY <3>1, <3>2
  <2>2. CASE Send(worker[w].job, worker[w].retries)
    BY <2>1, <2>2, SendFits
  <2>3. CASE Resend(w)
    BY <1>1, <2>1, <2>3, SendFits DEF Resend
  <2> QED
    BY <1>3, <2>2, <2>3
<1>4. ASSUME NEW w \in Workers, NEW j \in Calls, NEW n \in Retries,
             Deliver(w, j, n) \/ LoseMessage(j, n)
      PROVE  MessagesFit'
  BY <1>4, TakeFits DEF Deliver, LoseMessage
<1>5. ASSUME NEW p \in Reconcilers, Recover(p) PROVE MessagesFit'
  <2>1. ASSUME NEW t \in recovery[p].todo, Resubmit(p, t) PROVE MessagesFit'
    <3>1. t.job \in Calls
      BY DEF TypeOK, RecoveryState, Target
    <3> QED
      BY <1>1, <1>2, <2>1, <3>1 DEF Resubmit
  <2> QED
    BY <1>1, <1>5, <2>1
       DEF Recover, ReleaseStale, ResetOrphaned, PersistReplacement, EndPass
<1>6. ASSUME NEW c \in Calls, Submit(c) PROVE MessagesFit'
  BY <1>1, <1>2, <1>6
     DEF Submit, Lookup, CheckQuota, Create, Enqueue, FailEnqueue, PersistIdentifier
<1>7. ASSUME NEW w \in Workers, Work(w) PROVE MessagesFit'
  BY <1>1, <1>3, <1>4, <1>7
     DEF Work, Train, Checkpoint, AssignAlias, PersistProfile, Complete, Fail,
         Retry, Raise
<1>8. ASSUME NEW j \in Calls, NEW n \in Retries, LoseMessage(j, n) PROVE MessagesFit'
  BY <1>8, TakeFits DEF LoseMessage
<1>9. CASE Environment
  BY <1>1, <1>3, <1>8, <1>9
     DEF Environment, Cancel, ReconcileProfile, Age, LoseCall, LoseWorker,
         Redeliver, LoseRecovery
<1> QED
  BY <1>1, <1>5, <1>6, <1>7, <1>9 DEF Next, vars

LEMMA NextPublished ==
    ASSUME TypeOK, TypeOK', WorkersFit, PublishedIsCheckpointed,
           \A j \in Calls : Follows(row[j], row'[j]), [Next]_vars
    PROVE  PublishedIsCheckpointed'
<1> DEFINE Published == profiles \cup ({candidate} \ {NoVersion})
<1>1. ASSUME NEW v \in Published PROVE row'[v.job].checkpoint = v.attempt
  <2>1. v \in Version
    BY DEF TypeOK
  <2>2. row[v.job].checkpoint = v.attempt
    BY DEF PublishedIsCheckpointed
  <2> QED
    BY <2>1, <2>2 DEF Follows, Version
<1>2. CASE UNCHANGED <<profiles, candidate>>
  BY <1>1, <1>2 DEF PublishedIsCheckpointed
<1>3. ASSUME NEW v, v.job \in Calls, row'[v.job].checkpoint = v.attempt,
             profiles' \subseteq profiles \cup {v},
             candidate' = candidate \/ candidate' = v
      PROVE  PublishedIsCheckpointed'
  BY <1>1, <1>3 DEF PublishedIsCheckpointed
<1>4. ASSUME NEW w \in Workers, AssignAlias(w) \/ PersistProfile(w)
      PROVE  PublishedIsCheckpointed'
  <2>1. /\ worker[w].job \in Calls /\ UNCHANGED row
        /\ worker[w].outcome = row[worker[w].job].checkpoint
    BY <1>4 DEF AssignAlias, PersistProfile, WorkersFit, WorkerFits, jobVars
  <2>2. /\ VersionOf(w).job \in Calls
        /\ row'[VersionOf(w).job].checkpoint = VersionOf(w).attempt
    BY <2>1 DEF VersionOf
  <2>3. /\ profiles' \subseteq profiles \cup {VersionOf(w)}
        /\ candidate' = candidate \/ candidate' = VersionOf(w)
    BY <1>4 DEF AssignAlias, PersistProfile
  <2> QED
    BY <1>3, <2>2, <2>3
<1>5. ASSUME NEW j \in Calls, ReconcileProfile(j) PROVE PublishedIsCheckpointed'
  <2> DEFINE v == [job |-> j, attempt |-> row[j].checkpoint]
  <2>1. v.job \in Calls /\ row'[v.job].checkpoint = v.attempt
    BY <1>5 DEF ReconcileProfile, jobVars
  <2>2. profiles' \subseteq profiles \cup {v} /\ candidate' = candidate
    BY <1>5 DEF ReconcileProfile
  <2> HIDE DEF v
  <2> QED
    BY <1>3, <2>1, <2>2
<1>6. ASSUME NEW w \in Workers, Work(w) PROVE PublishedIsCheckpointed'
  BY <1>2, <1>4, <1>6
     DEF Work, Deliver, Train, Checkpoint, Complete, Fail, Retry, Raise, modelVars
<1>7. CASE Environment
  BY <1>2, <1>5, <1>7
     DEF Environment, Cancel, Age, LoseCall, LoseMessage, LoseWorker, Redeliver,
         LoseRecovery, modelVars
<1> QED
  BY <1>2, <1>6, <1>7
     DEF Next, vars, Submit, Lookup, CheckQuota, Create, Enqueue, FailEnqueue,
         PersistIdentifier, Recover, ReleaseStale, ResetOrphaned, Resubmit,
         PersistReplacement, EndPass, modelVars

-----------------------------------------------------------------------------
(* The theorems *)

LEMMA InitInvariant == Init => IndInv
<1> SUFFICES ASSUME Init PROVE IndInv
  OBVIOUS
<1>1. TypeOK
  BY MaxAttemptsAssumption, BoundsAssumption
     DEF Init, TypeOK, NoRow, Row, Statuses, Terminal, Attempts, Retries, Steps,
         Idle, WorkerState, NoEvents, AtRest, RecoveryState
<1>2. RowsFit /\ QueuedIsClaimable /\ OneJobPerScope
  BY DEF Init, RowsFit, RowFits, QueuedIsClaimable, OneJobPerScope, NoRow
<1>3. WorkersFit
  BY DEF Init, WorkersFit, Idle
<1>4. MessagesFit
  BY DEF Init, MessagesFit
<1>5. PublishedIsCheckpointed
  BY DEF Init, PublishedIsCheckpointed
<1>6. AuditedOnce
  BY DEF Init, AuditedOnce, NoRow, NoEvents
<1> QED
  BY <1>1, <1>2, <1>3, <1>4, <1>5, <1>6 DEF IndInv

LEMMA NextInvariant == IndInv /\ [Next]_vars => IndInv'
<1> SUFFICES ASSUME IndInv, [Next]_vars PROVE IndInv'
  OBVIOUS
<1> USE DEF IndInv
<1>1. TypeOK'
  BY NextType
<1>2. Advances
  BY NextAdvances
<1>3. /\ AuditedOnce' /\ QueuedIsClaimable'
      /\ \A j \in Calls : RowFits(row'[j]) /\ Follows(row[j], row'[j])
  BY <1>1, <1>2, NextJobsFit
<1>4. WorkersFit'
  BY <1>1, <1>3, NextWorkersFit
<1>5. MessagesFit'
  BY <1>1, <1>3, NextMessagesFit
<1>6. PublishedIsCheckpointed'
  BY <1>1, <1>3, NextPublished
<1>7. OneJobPerScope' /\ RowsFit'
  BY <1>3, NextScopes DEF RowsFit
<1> QED
  BY <1>1, <1>3, <1>4, <1>5, <1>6, <1>7

\* The inductive invariant holds in every reachable state.
THEOREM Invariance == Spec => []IndInv
  BY InitInvariant, NextInvariant, PTL DEF Spec

\* Every variable keeps its type; in particular no interleaving takes a job
\* beyond its configured attempts, the CHECK constraint of training_jobs.
THEOREM TypeCorrect == Spec => []TypeOK
<1>1. IndInv => TypeOK
  BY DEF IndInv
<1> QED
  BY <1>1, Invariance, PTL

\* A queued job can always be claimed again.
THEOREM QueuedJobsAreClaimable == Spec => []QueuedIsClaimable
<1>1. IndInv => QueuedIsClaimable
  BY DEF IndInv
<1> QED
  BY <1>1, Invariance, PTL

\* Aliases and profiles only ever name the version their job keeps.
THEOREM PublicationIsSafe == Spec => []PublishedIsCheckpointed
<1>1. IndInv => PublishedIsCheckpointed
  BY DEF IndInv
<1> QED
  BY <1>1, Invariance, PTL

\* The audit trail has one event per outcome.
THEOREM AuditIsExact == Spec => []AuditedOnce
<1>1. IndInv => AuditedOnce
  BY DEF IndInv
<1> QED
  BY <1>1, Invariance, PTL

\* One idempotency scope, one job.
THEOREM Idempotency == Spec => []OneJobPerScope
<1>1. IndInv => OneJobPerScope
  BY DEF IndInv
<1> QED
  BY <1>1, Invariance, PTL

\* The actor's retry budget never runs out before the job's attempts do.
THEOREM RetriesSuffice == Spec => []RetryIsResent
<1>1. IndInv => RetryIsResent
  <2> SUFFICES ASSUME IndInv, NEW w \in Workers, worker[w].pc = "raise"
               PROVE  worker[w].retries + 1 \in Retries
    BY DEF RetryIsResent
  <2>1. worker[w].retries < worker[w].attempt /\ worker[w].attempt < MaxAttempts
    BY DEF IndInv, WorkersFit, WorkerFits
  <2> QED
    BY <2>1, MaxAttemptsAssumption DEF IndInv, TypeOK, WorkerState, Retries, Attempts
<1> QED
  BY <1>1, Invariance, PTL

\* Together: no recovery, retry or race loses a queued job or queues one twice.
THEOREM QueueSoundness == Spec => []QueueIsSound
<1>1. TypeOK /\ QueuedIsClaimable /\ RetryIsResent /\ OneJobPerScope => QueueIsSound
  BY DEF QueueIsSound
<1> QED
  BY <1>1, TypeCorrect, QueuedJobsAreClaimable, RetriesSuffice, Idempotency, PTL

\* The job table with its optimistic versions implements the atomic lifecycle.
THEOREM LifecycleRefinement == Spec => ImplementsLifecycle
<1> DEFINE Ledger == [j \in Calls |-> EntryOf(row[j], audit[j])]
<1>1. Init => Lifecycle!Init
  BY DEF Init, Lifecycle!Init, Lifecycle!Absent, Lifecycle!Entry, EntryOf, NoRow,
         NoEvents
<1>2. IndInv /\ [Next]_vars => [Lifecycle!Next]_Ledger
  <2> SUFFICES ASSUME IndInv, [Next]_vars PROVE Lifecycle!Next
    OBVIOUS
  <2>1. Advances
    BY NextAdvances DEF IndInv
  <2> DEFINE moved == {j \in Calls : Lifecycle!Move(EntryOf(row[j], audit[j]),
                                                    EntryOf(row[j], audit[j])')}
  <2>2. \A j \in Calls : j \notin moved
                           => EntryOf(row[j], audit[j])' = EntryOf(row[j], audit[j])
    BY <2>1 DEF Advances, StepOf
  <2>3. \A j \in moved : Lifecycle!Move(Ledger[j], Ledger'[j])
    OBVIOUS
  <2>4. Ledger' = [j \in Calls |-> IF j \in moved THEN Ledger'[j] ELSE Ledger[j]]
    BY <2>2
  <2> QED
    BY <2>3, <2>4 DEF Lifecycle!Next
<1> QED
  BY <1>1, <1>2, Invariance, PTL DEF Spec, ImplementsLifecycle, Lifecycle!Spec
-----------------------------------------------------------------------------
(* The quota of the public demo *)

\* A demo job that has been recorded stays recorded, and one that has ended stays ended.
LEMMA RowsPersist ==
    ASSUME IndInv, [Next]_vars, NEW j \in Calls
    PROVE  /\ row[j].status # "absent" => row'[j].status # "absent"
           /\ row[j].status \in Terminal => row'[j].status \in Terminal
<1>1. StepOf(row[j], audit[j], row'[j], audit'[j])
  BY NextAdvances DEF IndInv, Advances
<1>2. CASE EntryOf(row'[j], audit'[j]) = EntryOf(row[j], audit[j])
  BY <1>2 DEF EntryOf
<1>3. CASE Lifecycle!Move(EntryOf(row[j], audit[j]), EntryOf(row'[j], audit'[j]))
  BY <1>3 DEF EntryOf, Terminal, Lifecycle!Move, Lifecycle!Accept, Lifecycle!Start,
     Lifecycle!Keep, Lifecycle!Yield, Lifecycle!Succeed, Lifecycle!GiveUp, Lifecycle!Abandon,
     Lifecycle!Withdraw, Lifecycle!Absent, Lifecycle!Entry
<1> QED
  BY <1>1, <1>2, <1>3 DEF StepOf

Unended(jobs, rows) == {j \in jobs : rows[j].status \notin Terminal}

\* A submission that may create a job has counted jobs that stay within the limits: they
\* are recorded for good, and of those that had ended none comes back.
QuotaCounted ==
    /\ DOMAIN counted = Calls
    /\ \A c \in DemoCalls : call[c] = "create" =>
          /\ counted[c] \subseteq DemoJobs
          /\ Cardinality(counted[c]) < MaxPerDay
          /\ Cardinality(Unended(counted[c], row)) < MaxActive

\* Only the check of the quota lets a demo call create a job.
LEMMA QuotaIsChecked ==
    ASSUME IndInv, Next, NEW c \in DemoCalls, call'[c] = "create", call[c] # "create"
    PROVE  CheckQuota(c)
<1>1. call \in [Calls -> Steps \cup Replies] /\ c \in Calls
  BY DemoAssumption DEF IndInv, TypeOK
<1>2. call' # call
  OBVIOUS
<1>3. \A d \in Calls : call' = [call EXCEPT ![d] = "lost"] => FALSE
  BY <1>1
<1>4. PICK d \in Calls : Submit(d)
  <2>1. ASSUME NEW w \in Workers, Work(w) PROVE FALSE
    BY <1>2, <2>1 DEF Work, Deliver, Train, Checkpoint, AssignAlias, PersistProfile, Complete,
       Fail, Retry, Raise, callVars
  <2>2. ASSUME NEW p \in Reconcilers, Recover(p) PROVE FALSE
    BY <1>2, <2>2 DEF Recover, ReleaseStale, ResetOrphaned, EndPass, Resubmit,
       PersistReplacement, callVars
  <2>3. ASSUME Environment PROVE FALSE
    BY <1>2, <1>3, <2>3 DEF Environment, Cancel, ReconcileProfile, Age, LoseCall, LoseMessage,
       LoseWorker, Redeliver, LoseRecovery, callVars, Goto
  <2> QED
    BY <2>1, <2>2, <2>3 DEF Next
<1>5. d = c
  BY <1>1, <1>4 DEF Submit, Lookup, CheckQuota, Create, Enqueue, FailEnqueue, PersistIdentifier,
     Goto
<1>6. ~(Enqueue(c) \/ FailEnqueue(c) \/ PersistIdentifier(c))
  BY <1>1 DEF Enqueue, FailEnqueue, PersistIdentifier, Goto
<1>7. ~Create(c) /\ ~Lookup(c)
  <2>1. \A j \in Calls : ReplyFromExisting(c, j) # "create"
    BY DEF ReplyFromExisting
  <2> QED
    BY <1>1, <2>1 DEF Create, Lookup, Goto, SameScope
<1> QED
  BY <1>4, <1>5, <1>6, <1>7 DEF Submit

LEMMA DemoCount ==
    ASSUME NEW jobs, jobs \subseteq DemoCalls
    PROVE  IsFiniteSet(jobs) /\ Cardinality(jobs) \in Nat
<1>1. jobs \in SUBSET DemoCalls
  OBVIOUS
<1> QED
  BY <1>1, InstanceAssumption, FS_Subset, FS_CardinalityType

LEMMA CountStays ==
    ASSUME IndInv, QuotaCounted, [MCNext]_<<vars, scene, counted>>
    PROVE  QuotaCounted'
<1>1. CASE UNCHANGED <<vars, scene, counted>>
  <2>1. UNCHANGED <<row, call, counted>>
    BY <1>1 DEF vars, jobVars, callVars
  <2> QED
    BY <2>1 DEF QuotaCounted, DemoJobs, Unended
<1>2. CASE MCNext
  <2>1. Next
    BY <1>2, InstanceAssumption DEF MCNext, Next
  <2>2. counted' = [c \in Calls |-> IF call[c] = "quota" /\ call'[c] = "create" THEN DemoJobs
                                    ELSE counted[c]]
    BY <1>2 DEF MCNext
  <2>3. DemoJobs \subseteq DemoJobs'
    BY <2>1, RowsPersist, DemoAssumption DEF DemoJobs
  <2>4. ASSUME NEW c \in DemoCalls, call'[c] = "create"
        PROVE  /\ counted'[c] \subseteq DemoJobs'
               /\ Cardinality(counted'[c]) < MaxPerDay
               /\ Cardinality(Unended(counted'[c], row')) < MaxActive
    <3>0. c \in Calls
      BY DemoAssumption
    <3>1. CASE call[c] = "create"
      <4>1. /\ counted'[c] = counted[c] /\ counted[c] \subseteq DemoJobs
            /\ Cardinality(counted[c]) < MaxPerDay
            /\ Cardinality(Unended(counted[c], row)) < MaxActive
        BY <2>2, <3>0, <3>1 DEF QuotaCounted
      <4> DEFINE before == Unended(counted[c], row)
                 after == {j \in counted[c] : row'[j].status \notin Terminal}
      <4>2. before \subseteq DemoCalls /\ after \subseteq before
        BY <2>1, <4>1, RowsPersist, DemoAssumption DEF Unended, DemoJobs
      <4>3. Cardinality(after) <= Cardinality(before)
        BY <4>2, DemoCount, FS_Subset
      <4>4. /\ Cardinality(before) \in Nat /\ Cardinality(after) \in Nat
            /\ Cardinality(before) < MaxActive
        BY <4>1, <4>2, DemoCount
      <4>5. Unended(counted'[c], row') = after
        BY <4>1 DEF Unended
      <4> HIDE DEF before, after
      <4>6. Cardinality(after) < MaxActive
        BY <4>3, <4>4, BoundsAssumption
      <4> QED
        BY <2>3, <4>1, <4>5, <4>6
    <3>2. CASE call[c] # "create"
      <4>1. CheckQuota(c)
        BY <2>1, <2>4, <3>2, QuotaIsChecked
      <4>2. /\ call[c] = "quota" /\ row' = row /\ call'[c] # "over_quota"
        BY <2>4, <4>1 DEF CheckQuota, jobVars
      <4>3. call' = [call EXCEPT ![c] =
                        IF \/ Cardinality(ActiveDemoJobs) >= MaxActive
                           \/ Cardinality(DemoJobs) >= MaxPerDay
                        THEN "over_quota" ELSE "create"]
        BY <4>1 DEF CheckQuota, Goto
      <4>4. /\ ~(Cardinality(ActiveDemoJobs) >= MaxActive)
            /\ ~(Cardinality(DemoJobs) >= MaxPerDay)
        BY <3>0, <4>2, <4>3 DEF IndInv, TypeOK
      <4>5. Cardinality(ActiveDemoJobs) \in Nat /\ Cardinality(DemoJobs) \in Nat
        BY DemoCount DEF ActiveDemoJobs, DemoJobs
      <4>6. counted'[c] = DemoJobs
        BY <2>2, <2>4, <3>0, <4>2
      <4>7. DemoJobs' = DemoJobs /\ Unended(DemoJobs, row') = ActiveDemoJobs
        <5>1. DemoJobs' = DemoJobs
          BY <4>2 DEF DemoJobs
        <5>2. \A j \in DemoJobs : row[j].status \in Statuses \ {"absent"}
          BY DemoAssumption DEF DemoJobs, IndInv, TypeOK, Row
        <5>3. Unended(DemoJobs, row') = {j \in DemoJobs : row[j].status \notin Terminal}
          BY <4>2, <5>1 DEF Unended
        <5> QED
          BY <5>1, <5>2, <5>3 DEF ActiveDemoJobs, Statuses, Terminal
      <4>8. Unended(counted'[c], row') = ActiveDemoJobs
        BY <4>2, <4>6, <4>7 DEF Unended
      <4> QED
        BY <4>4, <4>5, <4>6, <4>7, <4>8, BoundsAssumption
    <3> QED
      BY <3>1, <3>2
  <2>5. DOMAIN counted' = Calls
    BY <2>2
  <2> QED
    BY <2>4, <2>5 DEF QuotaCounted, Unended
<1> QED
  BY <1>1, <1>2

\* However submissions of the demo user race with each other and with the jobs' ends: the
\* quota is exceeded only by a submission that another one overtook since it counted.
THEOREM QuotaIsRaced == MCSpec => QuotaRaceOnly
<1> DEFINE Inv == IndInv /\ QuotaCounted
           Raced == \A c \in DemoCalls :
                      /\ call[c] = "create" /\ call'[c] = "enqueue"
                      /\ \/ Cardinality({j \in DemoJobs : row[j].status \notin Terminal}) >= MaxActive
                         \/ Cardinality(DemoJobs) >= MaxPerDay
                      => DemoJobs \ counted[c] # {}
<1>1. MCInit => Inv
  <2> SUFFICES ASSUME MCInit PROVE Inv
    OBVIOUS
  <2>1. IndInv
    BY InitInvariant DEF MCInit
  <2>2. counted = [c \in Calls |-> {}] /\ call = [c \in Calls |-> "new"]
    BY DEF MCInit, Init
  <2> QED
    BY <2>1, <2>2, DemoAssumption DEF QuotaCounted
<1>2. Inv /\ [MCNext]_<<vars, scene, counted>> => Inv'
  <2> SUFFICES ASSUME Inv, [MCNext]_<<vars, scene, counted>> PROVE Inv'
    OBVIOUS
  <2>1. [Next]_vars
    BY InstanceAssumption DEF MCNext, Next
  <2> QED
    BY <2>1, NextInvariant, CountStays
<1>3. Inv => Raced
  <2> SUFFICES ASSUME Inv, NEW c \in DemoCalls, call[c] = "create", DemoJobs \subseteq counted[c]
               PROVE  /\ ~(Cardinality(Unended(DemoJobs, row)) >= MaxActive)
                      /\ ~(Cardinality(DemoJobs) >= MaxPerDay)
    BY DEF Unended
  <2>1. DemoJobs = counted[c]
    BY DEF QuotaCounted
  <2>2. Cardinality(DemoJobs) < MaxPerDay /\ Cardinality(Unended(DemoJobs, row)) < MaxActive
    BY <2>1 DEF QuotaCounted
  <2>3. Cardinality(DemoJobs) \in Nat /\ Cardinality(Unended(DemoJobs, row)) \in Nat
    BY DemoCount DEF DemoJobs, Unended
  <2> QED
    BY <2>2, <2>3, BoundsAssumption
<1>4. Inv /\ [MCNext]_<<vars, scene, counted>> => [Raced]_<<vars, counted>>
  BY <1>3
<1> QED
  BY <1>1, <1>2, <1>4, PTL DEF MCSpec, QuotaRaceOnly

=============================================================================
