---------------------------- MODULE AutoMLProofs ----------------------------
(***************************************************************************)
(* Proofs about AutoML for any owners, coordinations, workers, trials,     *)
(* slots, attempts and metrics: a study never runs more than it may,       *)
(* believes no late result and ends as its trials and its owner say.       *)
(***************************************************************************)
EXTENDS AutoML, FiniteSetTheorems, WellFoundedInduction, TLAPS

-----------------------------------------------------------------------------
(* The inductive invariant *)

\* The trials were inserted and have all ended: none of them changes again.
Done(rows) == AllEnded(rows) /\ rows # NoTrials

\* The row read is the present one, but for the deadline, which passes by itself.
Agrees(seen, row) ==
    /\ seen.status = row.status /\ seen.cancel = row.cancel
    /\ seen.best = row.best /\ seen.linked = row.linked

\* The steps after the choice between cancellation and work, those after every
\* trial has ended, and those after the champion was chosen.
Working == {"list", "relist", "materialize", "dispatch", "mark", "best", "succeed",
            "fail", "handoff", "link"}
Concluding == {"best", "succeed", "handoff", "link"}
Crowning == {"succeed", "handoff", "link"}

\* What a process in the local state q has read is still so in the row of the
\* study and the rows of the trials.
Knows(q, row, rows) ==
    /\ q.pc # "idle" => row.status # "absent"
    /\ q.fresh => q.pc # "idle" /\ Agrees(q.seen, row)
    /\ q.seen.deadline = "passed" => row.deadline = "passed"
    /\ q.seen.best # None => row.best = q.seen.best
    /\ q.pc \in Working => ~q.seen.cancel
    /\ q.pc = "relist" => q.seen.deadline = "passed"
    /\ q.pc \in {"dispatch", "mark"} => q.todo # {}
    /\ q.pc = "best" => q.seen.best = None
    /\ q.pc \in Concluding => Done(rows)
    /\ q.pc \in Crowning => q.seen.best # None
    /\ q.pc = "succeed" => ~row.register
    /\ q.pc = "fail" => Done(rows) \/ (row.deadline = "passed" /\ NoneStarted(rows))

ProcsKnow == \A p \in Procs : Knows(proc[p], study, trials)

\* A worker evaluates in a slot that exists.
WorkIsPlaced == \A e \in work : e.slot \in DOMAIN slots

\* The invariant of trials, slots and evaluations.
Rows == /\ trials \in [Trials -> TrialRow]
        /\ DOMAIN slots \subseteq Slots /\ \A s \in DOMAIN slots : slots[s] \in Trials \cup {None}
        /\ work \subseteq Evaluation /\ WorkIsPlaced
        /\ SlotsBoundTheTrials /\ ResultOfLastAttempt

\* The champion is the best of trials that have all ended.
BestIsChampion == study.best # None => Done(trials) /\ study.best \in Champions(trials)

\* The job was submitted for the champion.
JobIsChampions == job.status # "absent" => study.best # None /\ job.trial = study.best

NoEarlyDeadline == study.status \in {"absent", "queued"} => study.deadline = "unset"

\* What is so when the study has ended by itself.
EndIsEarned ==
    /\ study.status = "succeeded" =>
        study.best # None /\ (study.register => job.status = "succeeded")
    /\ study.status = "failed" => Done(trials) \/ NoneStarted(trials)

\* The invariant of the study and its job.
Study == /\ study \in StudyRow
         /\ job \in [status : {"absent", "active", "succeeded", "failed"},
                     trial : Trials \cup {None}]
         /\ CancelWins /\ BestIsChampion /\ JobIsChampions /\ NoEarlyDeadline /\ EndIsEarned

\* The invariant of the messages and the processes.
Processes == /\ nudged \in BOOLEAN /\ messages \subseteq Trials
             /\ proc \in [Procs -> Process] /\ ProcsKnow

\* Before the study there are no trials and no messages to coordinate it.
NothingUnborn == study.status = "absent" => ~nudged /\ trials = NoTrials

IndInv == Rows /\ Study /\ Processes /\ NothingUnborn

-----------------------------------------------------------------------------
(* Lemmas about the operators *)

LEMMA TrialSets ==
    /\ IsFiniteSet(Trials) /\ Trials \subseteq Nat /\ Slots \subseteq Nat
    /\ None \notin Trials /\ MaxConcurrent \in Nat /\ MaxAttempts \in Nat
    /\ \A T \in SUBSET Trials : IsFiniteSet(T) /\ Cardinality(T) \in Nat
<1>1. TrialBudget \in Nat /\ SlotCount \in Nat /\ None \notin Trials
      /\ MaxConcurrent \in Nat /\ MaxAttempts \in Nat
  BY AutoMLConstants DEF Trials
<1>2. IsFiniteSet(Trials)
  BY <1>1, FS_Interval DEF Trials
<1>3. ASSUME NEW T \in SUBSET Trials PROVE IsFiniteSet(T) /\ Cardinality(T) \in Nat
  BY <1>2, FS_Subset, FS_CardinalityType
<1> QED
  BY <1>1, <1>2, <1>3 DEF Trials, Slots

LEMMA LeastNumber ==
    ASSUME NEW T, T \subseteq Nat, T # {} PROVE \E x \in T : \A y \in T : x <= y
<1>1. PICK x \in T : \A y \in T : <<y, x>> \notin OpToRel(<, Nat)
  BY NatLessThanWellFounded, WFMin
<1>2. ASSUME NEW y \in T PROVE x <= y
  <2>1. x \in Nat /\ y \in Nat
    OBVIOUS
  <2>2. ~(y < x)
    BY <1>1, <2>1 DEF OpToRel
  <2> QED
    BY <2>1, <2>2
<1> QED
  BY <1>2

\* The slot that claim_trial_and_slot takes is free.
LEMMA MinIsFree ==
    ASSUME DOMAIN slots \subseteq Slots, FreeSlots # {} PROVE Min(FreeSlots) \in FreeSlots
<1>1. FreeSlots \subseteq Nat
  BY TrialSets DEF FreeSlots
<1>2. \E x \in FreeSlots : \A y \in FreeSlots : x <= y
  BY <1>1, LeastNumber
<1> QED
  BY <1>2 DEF Min

\* What a coordination dispatches next is one of the trials it listed.
LEMMA NextIsTodo ==
    ASSUME NEW c, proc[c] \in Process, proc[c].todo # {} PROVE NextItem(c) \in proc[c].todo
<1> DEFINE numbers == {item.trial : item \in proc[c].todo}
<1>1. \A item \in proc[c].todo : item.trial \in Trials
  BY DEF Process
<1>2. numbers \subseteq Nat /\ numbers # {}
  BY <1>1, TrialSets
<1>3. PICK n \in numbers : \A m \in numbers : n <= m
  BY <1>2, LeastNumber
<1>4. PICK item \in proc[c].todo : item.trial = n
  BY <1>3
<1>5. \A other \in proc[c].todo : item.trial <= other.trial
  BY <1>3, <1>4
<1> QED
  BY <1>4, <1>5 DEF NextItem

LEMMA StatusOfRow ==
    ASSUME NEW row \in TrialRow
    PROVE  /\ row.status \in {"absent", "queued", "running", "succeeded", "failed", "cancelled"}
           /\ row.lease \in {"none", "live", "expired"} /\ row.attempts \in 0 .. MaxAttempts
           /\ row.scoredBy \in 0 .. MaxAttempts /\ row.score \in Scores \cup {0}
           /\ row.sent \in BOOLEAN
BY DEF TrialRow, Ended

\* Trials that are neither queued nor running do not change.
Quiet == \A t \in Trials : trials[t].status \notin {"queued", "running"} => trials'[t] = trials[t]

LEMMA DoneIsFinal ==
    ASSUME trials \in [Trials -> TrialRow], trials' \in [Trials -> TrialRow], Quiet,
           Done(trials)
    PROVE  trials' = trials
<1>1. \A t \in Trials : trials'[t] = trials[t]
  BY DEF Quiet, Done, AllEnded, With
<1> QED
  BY <1>1

-----------------------------------------------------------------------------
(* What the steps have in common *)

\* What a process has read lasts while the study neither disappears nor loses its
\* champion, the deadline stays passed, and ended trials stay so.
Lasts ==
    /\ study.status # "absent" => study'.status # "absent" /\ study'.register = study.register
    /\ study.deadline = "passed" => study'.deadline = "passed"
    /\ study.best # None => study'.best = study.best
    /\ Done(trials) => trials' = trials
    /\ study.deadline = "passed" \/ study.status # "running" =>
         (NoneStarted(trials) => NoneStarted(trials'))

LEMMA KnowsOutdated ==
    ASSUME NEW q \in Process, Knows(q, study, trials), Lasts
    PROVE  Knows([q EXCEPT !.fresh = FALSE], study', trials')
<1> DEFINE old == [q EXCEPT !.fresh = FALSE]
<1>1. /\ old.pc = q.pc /\ old.seen = q.seen /\ old.todo = q.todo /\ ~old.fresh
  BY DEF Process
<1>2. /\ old.pc # "idle" => study'.status # "absent"
      /\ old.seen.deadline = "passed" => study'.deadline = "passed"
      /\ old.seen.best # None => study'.best = old.seen.best
      /\ old.pc = "succeed" => ~study'.register
  BY <1>1 DEF Knows, Lasts
<1>3. /\ old.pc \in Working => ~old.seen.cancel
      /\ old.pc = "relist" => old.seen.deadline = "passed"
      /\ old.pc \in {"dispatch", "mark"} => old.todo # {}
      /\ old.pc = "best" => old.seen.best = None
      /\ old.pc \in Crowning => old.seen.best # None
  BY <1>1 DEF Knows
<1>4. old.pc \in Concluding => Done(trials')
  BY <1>1 DEF Knows, Lasts
<1>5. old.pc = "fail" => Done(trials') \/ (study'.deadline = "passed" /\ NoneStarted(trials'))
  BY <1>1 DEF Knows, Lasts
<1> HIDE DEF old
<1>6. Knows(old, study', trials')
  BY <1>1, <1>2, <1>3, <1>4, <1>5 DEF Knows
<1> QED
  BY <1>6 DEF old

LEMMA KnowsLasts ==
    ASSUME NEW q \in Process, Knows(q, study, trials), Lasts, Agrees(study, study')
    PROVE  Knows(q, study', trials')
<1>1. /\ q.pc # "idle" => study'.status # "absent"
      /\ q.fresh => q.pc # "idle" /\ Agrees(q.seen, study')
      /\ q.seen.deadline = "passed" => study'.deadline = "passed"
      /\ q.seen.best # None => study'.best = q.seen.best
      /\ q.pc = "succeed" => ~study'.register
  BY DEF Knows, Lasts, Agrees
<1>2. q.pc \in Concluding => Done(trials')
  BY DEF Knows, Lasts
<1>3. q.pc = "fail" => Done(trials') \/ (study'.deadline = "passed" /\ NoneStarted(trials'))
  BY DEF Knows, Lasts
<1> QED
  BY <1>1, <1>2, <1>3 DEF Knows

\* No process moves, and the row changes at most in its deadline.
LEMMA ProcsStay ==
    ASSUME ProcsKnow, proc \in [Procs -> Process], Lasts, Agrees(study, study'), UNCHANGED proc
    PROVE  ProcsKnow' /\ proc' \in [Procs -> Process]
<1>1. ASSUME NEW p \in Procs PROVE Knows(proc[p]', study', trials')
  <2>1. Knows(proc[p], study, trials)
    BY DEF ProcsKnow
  <2> QED
    BY <2>1, KnowsLasts
<1> QED
  BY <1>1 DEF ProcsKnow

\* One process moves, without a write of the study.
LEMMA ProcMoves ==
    ASSUME ProcsKnow, proc \in [Procs -> Process], Lasts, Agrees(study, study'),
           NEW p \in Procs, NEW new \in Process, Knows(new, study', trials'), Moves(p, new)
    PROVE  ProcsKnow' /\ proc' \in [Procs -> Process]
<1>1. ASSUME NEW r \in Procs PROVE Knows(proc[r]', study', trials')
  <2>1. CASE r = p
    BY <2>1 DEF Moves
  <2>2. CASE r # p
    <3>1. Knows(proc[r], study, trials) /\ proc'[r] = proc[r]
      BY <2>2 DEF ProcsKnow, Moves
    <3> QED
      BY <3>1, KnowsLasts
  <2> QED
    BY <2>1, <2>2
<1> QED
  BY <1>1 DEF ProcsKnow, Moves

\* One process writes the study and so outdates what the others have read.
LEMMA ProcWrites ==
    ASSUME ProcsKnow, proc \in [Procs -> Process], Lasts, NEW row,
           NEW p \in Procs, NEW new \in Process, Knows(new, study', trials'),
           Writes(p, row, new)
    PROVE  ProcsKnow' /\ proc' \in [Procs -> Process]
<1>1. ASSUME NEW r \in Procs PROVE Knows(proc[r]', study', trials') /\ proc'[r] \in Process
  <2>1. CASE r = p
    BY <2>1 DEF Writes
  <2>2. CASE r # p
    <3>1. /\ Knows(proc[r], study, trials) /\ proc[r] \in Process
          /\ proc'[r] = [proc[r] EXCEPT !.fresh = FALSE]
      BY <2>2 DEF ProcsKnow, Writes
    <3>2. proc'[r] \in Process
      BY <3>1 DEF Process
    <3> QED
      BY <3>1, <3>2, KnowsOutdated
  <2> QED
    BY <2>1, <2>2
<1>2. proc' = [r \in Procs |-> proc'[r]]
  BY DEF Writes
<1> QED
  BY <1>1, <1>2 DEF ProcsKnow

LEMMA IdleKnows ==
    ASSUME NEW row, NEW rows PROVE Idle \in Process /\ Knows(Idle, row, rows)
<1>1. NoStudy \in StudyRow
  BY DEF NoStudy, StudyRow
<1>2. Idle \in Process
  BY <1>1 DEF Idle, Process
<1> QED
  BY <1>2 DEF Idle, NoStudy, Knows, Working, Concluding, Crowning

\* A study that does not change stays what its trials and its job make of it.
LEMMA StudyStays ==
    ASSUME Study, Lasts, UNCHANGED <<study, job>> PROVE Study'
<1>1. CancelWins' /\ JobIsChampions' /\ NoEarlyDeadline'
  BY DEF Study, CancelWins, JobIsChampions, NoEarlyDeadline
<1>2. BestIsChampion'
  BY DEF Study, BestIsChampion, Lasts
<1>3. EndIsEarned'
  BY DEF Study, EndIsEarned, Lasts
<1> QED
  BY <1>1, <1>2, <1>3 DEF Study

LEMMA RowsStay == ASSUME Rows, UNCHANGED <<trials, slots, work>> PROVE Rows'
BY DEF Rows, WorkIsPlaced, SlotsBoundTheTrials, Live, ResultOfLastAttempt

LEMMA SameRowsLast ==
    ASSUME UNCHANGED <<study, trials>> PROVE Lasts /\ Agrees(study, study')
BY DEF Lasts, Agrees

\* Steps that change only unfinished trials, and start none.
LEMMA QuietLasts ==
    ASSUME UNCHANGED study, trials \in [Trials -> TrialRow], trials' \in [Trials -> TrialRow],
           Quiet, \A t \in Trials : trials'[t].attempts = trials[t].attempts
    PROVE  Lasts /\ Agrees(study, study')
<1>1. Done(trials) => trials' = trials
  BY DoneIsFinal
<1>2. NoneStarted(trials) => NoneStarted(trials')
  BY DEF NoneStarted
<1> QED
  BY <1>1, <1>2 DEF Lasts, Agrees

\* Steps that leave the running trials and the slots in use alone.
LEMMA RowsCalm ==
    ASSUME Rows, UNCHANGED work, trials' \in [Trials -> TrialRow], ResultOfLastAttempt',
           \A t \in Trials : trials[t].status = "running" \/ trials'[t].status = "running"
                               => trials'[t] = trials[t],
           DOMAIN slots \subseteq DOMAIN slots', DOMAIN slots' \subseteq Slots,
           \A s \in DOMAIN slots' : slots'[s] = IF s \in DOMAIN slots THEN slots[s] ELSE None
    PROVE  Rows'
<1>1. Live' = Live
  BY DEF Live
<1>2. ASSUME NEW s \in DOMAIN slots', slots'[s] # None
      PROVE  /\ trials'[slots'[s]].status = "running"
             /\ \A r \in DOMAIN slots' : slots'[r] = slots'[s] => r = s
  <2>1. /\ s \in DOMAIN slots /\ slots'[s] = slots[s] /\ slots[s] \in Trials
        /\ trials[slots[s]].status = "running"
        /\ \A r \in DOMAIN slots : slots[r] = slots[s] => r = s
    BY <1>2 DEF Rows, SlotsBoundTheTrials
  <2> QED
    BY <1>2, <2>1
<1>3. \A t \in Live' : \E s \in DOMAIN slots' : slots'[s] = t
  BY <1>1 DEF Rows, SlotsBoundTheTrials
<1>4. SlotsBoundTheTrials'
  <2>1. Cardinality(Live') <= MaxConcurrent
    BY <1>1 DEF Rows, SlotsBoundTheTrials
  <2> QED
    BY <1>2, <1>3, <2>1 DEF SlotsBoundTheTrials
<1>5. \A s \in DOMAIN slots' : slots'[s] \in Trials \cup {None}
  BY DEF Rows
<1>6. WorkIsPlaced'
  BY DEF Rows, WorkIsPlaced
<1> QED
  BY <1>4, <1>5, <1>6 DEF Rows

LEMMA CancelledRows ==
    ASSUME Rows, trials' = QueuedCancelled
    PROVE  /\ trials' \in [Trials -> TrialRow] /\ Quiet /\ ResultOfLastAttempt'
           /\ \A t \in Trials : trials'[t].attempts = trials[t].attempts
           /\ \A t \in Trials : trials[t].status = "running" \/ trials'[t].status = "running"
                                  => trials'[t] = trials[t]
<1>1. ASSUME NEW t \in Trials
      PROVE  /\ trials'[t] \in TrialRow /\ trials'[t].attempts = trials[t].attempts
             /\ trials[t].status # "queued" => trials'[t] = trials[t]
             /\ trials[t].status = "queued" => trials'[t].status = "cancelled"
  <2>1. trials[t] \in TrialRow
    BY DEF Rows
  <2>2. CASE trials[t].status # "queued"
    BY <2>1, <2>2 DEF QueuedCancelled
  <2>3. CASE trials[t].status = "queued"
    <3>1. trials'[t] = [trials[t] EXCEPT !.status = "cancelled", !.sent = FALSE]
      BY <2>3 DEF QueuedCancelled
    <3> QED
      BY <2>1, <2>3, <3>1 DEF TrialRow, Ended
  <2> QED
    BY <2>2, <2>3
<1>2. trials' = [t \in Trials |-> trials'[t]]
  BY DEF QueuedCancelled
<1>3. ResultOfLastAttempt'
  BY <1>1 DEF ResultOfLastAttempt, Rows
<1> QED
  BY <1>1, <1>2, <1>3 DEF Quiet

\* A coordination ends the study with what it has found, or finds it changed.
LEMMA EndsSoundly ==
    ASSUME Rows, Study, ProcsKnow, proc \in [Procs -> Process], NEW c \in Procs,
           NEW status \in Ended, Ends(c, status), UNCHANGED <<trials, job>>,
           status # "cancelled" => proc[c].pc \in Working,
           status = "succeeded" =>
               study.best # None /\ (study.register => job.status = "succeeded"),
           status = "failed" => Done(trials) \/ NoneStarted(trials)
    PROVE  Study' /\ ProcsKnow' /\ proc' \in [Procs -> Process]
<1>1. CASE StudyRuns(c)
  <2> DEFINE row == [study EXCEPT !.status = status]
  <2>1. study' = row /\ Writes(c, row, Idle) /\ study.status = "running" /\ proc[c].fresh
    BY <1>1 DEF Ends, Writes, StudyRuns
  <2>2. /\ study' \in StudyRow /\ study'.status = status /\ study'.register = study.register
        /\ study'.cancel = study.cancel /\ study'.deadline = study.deadline
        /\ study'.best = study.best
    BY <2>1 DEF Study, StudyRow
  <2>3. Lasts
    BY <2>1, <2>2 DEF Lasts, Ended
  <2>4. ProcsKnow' /\ proc' \in [Procs -> Process]
    BY <2>1, <2>3, IdleKnows, ProcWrites
  <2>5. CancelWins'
    <3>1. Knows(proc[c], study, trials)
      BY DEF ProcsKnow
    <3>2. status # "cancelled" => ~study.cancel
      BY <2>1, <3>1 DEF Knows, Agrees
    <3> QED
      BY <2>2, <3>2 DEF CancelWins
  <2>6. BestIsChampion' /\ JobIsChampions' /\ NoEarlyDeadline'
    BY <2>2 DEF Study, BestIsChampion, JobIsChampions, NoEarlyDeadline, Ended
  <2>7. EndIsEarned'
    BY <2>2 DEF EndIsEarned
  <2> QED
    BY <2>2, <2>4, <2>5, <2>6, <2>7 DEF Study
<1>2. CASE ~StudyRuns(c)
  <2>1. Moves(c, Idle) /\ UNCHANGED study
    BY <1>2 DEF Ends, Rest
  <2>2. Lasts /\ Agrees(study, study')
    BY <2>1, SameRowsLast
  <2> QED
    BY <2>1, <2>2, IdleKnows, ProcMoves, StudyStays
<1> QED
  BY <1>1, <1>2

LEMMA EndsExisting ==
    ASSUME NEW c, NEW status \in Ended, Study, study.status # "absent", Ends(c, status)
    PROVE  study'.status # "absent"
<1>1. CASE StudyRuns(c)
  <2>1. study' = [study EXCEPT !.status = status]
    BY <1>1 DEF Ends, Writes
  <2>2. study'.status = status
    BY <2>1 DEF Study, StudyRow
  <2> QED
    BY <2>2 DEF Ended
<1>2. CASE ~StudyRuns(c)
  BY <1>2 DEF Ends
<1> QED
  BY <1>1, <1>2

\* A coordination that gives up, or ends, without a write.
LEMMA Rests ==
    ASSUME Study, ProcsKnow, proc \in [Procs -> Process], NEW c \in Procs, Rest(c),
           Lasts, UNCHANGED <<study, job>>
    PROVE  Study' /\ ProcsKnow' /\ proc' \in [Procs -> Process]
<1>1. Agrees(study, study') /\ Moves(c, Idle)
  BY DEF Agrees, Rest
<1> QED
  BY <1>1, IdleKnows, ProcMoves, StudyStays

-----------------------------------------------------------------------------
(* The requests of the owner keep the invariant *)

LEMMA CreateStudy == ASSUME IndInv, NEW u \in Procs, create_study(u) PROVE IndInv'
<1> USE DEF IndInv
<1>1. Rows'
  BY RowsStay DEF create_study
<1>2. PICK register \in BOOLEAN : study' = [study EXCEPT !.status = "queued",
                                                         !.register = register]
  BY DEF create_study, NewStudy
<1>3. /\ study' \in StudyRow /\ study'.status = "queued" /\ study'.cancel = study.cancel
      /\ study'.deadline = study.deadline /\ study'.best = study.best
  BY <1>2 DEF Study, StudyRow
<1>4. study.status = "absent" /\ ~study.cancel /\ study.deadline = "unset"
  BY DEF create_study, Study, CancelWins, NoEarlyDeadline
<1>5. Study'
  <2>1. CancelWins' /\ NoEarlyDeadline' /\ EndIsEarned'
    BY <1>3, <1>4 DEF CancelWins, NoEarlyDeadline, EndIsEarned
  <2>2. BestIsChampion' /\ JobIsChampions'
    BY <1>3 DEF create_study, Study, BestIsChampion, JobIsChampions
  <2> QED
    BY <1>3, <2>1, <2>2 DEF Study, create_study
<1>6. ASSUME NEW p \in Procs PROVE Knows(proc[p], study', trials')
  <2>1. Knows(proc[p], study, trials) /\ UNCHANGED trials
    BY DEF Processes, ProcsKnow, create_study
  <2>2. proc[p].pc = "idle" /\ ~proc[p].fresh
    BY <1>4, <2>1 DEF Knows
  <2> QED
    BY <1>3, <2>1, <2>2 DEF Knows, Working, Concluding, Crowning
<1>7. Processes'
  BY <1>6 DEF create_study, Processes, ProcsKnow
<1>8. NothingUnborn'
  BY <1>3 DEF NothingUnborn
<1> QED
  BY <1>1, <1>5, <1>7, <1>8

LEMMA SetIdentifier == ASSUME IndInv, set_study_queue_identifier PROVE IndInv'
<1> USE DEF IndInv
<1>1. UNCHANGED <<study, trials, slots, job, nudged, messages, work>>
  BY DEF set_study_queue_identifier
<1>2. Lasts
  BY <1>1, SameRowsLast
<1>3. Rows' /\ Study'
  BY <1>1, <1>2, RowsStay, StudyStays
<1>4. ASSUME NEW p \in Procs PROVE Knows(proc'[p], study', trials') /\ proc'[p] \in Process
  <2>1. /\ proc[p] \in Process /\ proc'[p] = [proc[p] EXCEPT !.fresh = FALSE]
        /\ Knows(proc[p], study, trials)
    BY DEF set_study_queue_identifier, Processes, ProcsKnow
  <2> QED
    BY <1>2, <2>1, KnowsOutdated DEF Process
<1>5. Processes'
  <2>1. proc' = [p \in Procs |-> proc'[p]]
    BY DEF set_study_queue_identifier
  <2> QED
    BY <1>1, <1>4, <2>1 DEF Processes, ProcsKnow
<1> QED
  BY <1>1, <1>3, <1>5 DEF NothingUnborn

LEMMA ReadStudy ==
    ASSUME Study, study.status # "absent", NEW pc \in {"cancel", "start", "slots"}
    PROVE  Reading(pc, study) \in Process /\ Knows(Reading(pc, study), study, trials)
<1> DEFINE new == Reading(pc, study)
<1>1. new.pc = pc /\ new.seen = study /\ new.todo = {} /\ new.fresh
  BY DEF Reading
<1>2. new \in Process
  BY DEF Reading, Process, Study
<1> HIDE DEF new
<1>3. Knows(new, study, trials)
  BY <1>1 DEF Knows, Working, Concluding, Crowning, Agrees
<1> QED
  BY <1>2, <1>3 DEF new

LEMMA CancelStudy == ASSUME IndInv, NEW u \in Procs, cancel_study(u) PROVE IndInv'
<1> USE DEF IndInv
<1>1. /\ UNCHANGED <<study, trials, slots, job, nudged, messages, work>>
      /\ study.status # "absent" /\ Moves(u, Reading("cancel", study))
  BY DEF cancel_study
<1>2. Lasts /\ Agrees(study, study')
  BY <1>1, SameRowsLast
<1>3. Rows' /\ Study'
  BY <1>1, <1>2, RowsStay, StudyStays
<1>4. Reading("cancel", study) \in Process /\ Knows(Reading("cancel", study), study', trials')
  BY <1>1, ReadStudy
<1>5. Processes'
  BY <1>1, <1>2, <1>4, ProcMoves DEF Processes
<1> QED
  BY <1>1, <1>3, <1>5 DEF NothingUnborn

LEMMA CommitsCancel == ASSUME IndInv, NEW u \in Procs, CommitCancel(u) PROVE IndInv'
<1> USE DEF IndInv
<1>1. UNCHANGED <<slots, job, nudged, messages, work>>
  BY DEF CommitCancel
<1>2. CASE MayCancel(u)
  <2> DEFINE row == [study EXCEPT !.cancel = TRUE,
                                  !.status = IF @ = "queued" THEN "cancelled" ELSE @]
  <2>1. study' = row /\ Writes(u, row, Idle) /\ trials' = QueuedCancelled
    BY <1>2 DEF CommitCancel, Writes
  <2>2. study.status \in {"queued", "running"}
    <3>1. Knows(proc[u], study, trials)
      BY DEF Processes, ProcsKnow
    <3> QED
      BY <1>2, <3>1 DEF MayCancel, StudyIs, Knows, Agrees
  <2>3. /\ study' \in StudyRow /\ study'.cancel /\ study'.status \in {"running", "cancelled"}
        /\ study'.register = study.register /\ study'.deadline = study.deadline
        /\ study'.best = study.best
    BY <2>1, <2>2 DEF Study, StudyRow, Ended
  <2>4. /\ trials' \in [Trials -> TrialRow] /\ Quiet
        /\ \A t \in Trials : trials'[t].attempts = trials[t].attempts
    BY <2>1, CancelledRows
  <2>5. Rows'
    BY <1>1, <2>1, CancelledRows, RowsCalm DEF Rows
  <2>6. Done(trials) => trials' = trials
    BY <2>4, DoneIsFinal DEF Rows
  <2>7. NoneStarted(trials) => NoneStarted(trials')
    BY <2>4 DEF NoneStarted
  <2>8. Lasts
    BY <2>3, <2>6, <2>7 DEF Lasts
  <2>9. Processes'
    BY <1>1, <2>1, <2>8, IdleKnows, ProcWrites DEF Processes
  <2>10. Study'
    <3>1. CancelWins' /\ NoEarlyDeadline' /\ EndIsEarned'
      BY <2>3 DEF CancelWins, NoEarlyDeadline, EndIsEarned
    <3>2. BestIsChampion' /\ JobIsChampions'
      BY <1>1, <2>3, <2>6 DEF Study, BestIsChampion, JobIsChampions
    <3> QED
      BY <1>1, <2>3, <3>1, <3>2 DEF Study
  <2>11. NothingUnborn'
    BY <2>3 DEF NothingUnborn
  <2> QED
    BY <2>5, <2>9, <2>10, <2>11
<1>3. CASE ~MayCancel(u)
  <2>1. Rest(u) /\ UNCHANGED <<study, trials>>
    BY <1>3 DEF CommitCancel
  <2>2. Lasts
    BY <2>1, SameRowsLast
  <2> QED
    BY <1>1, <2>1, <2>2, RowsStay, Rests DEF Processes, NothingUnborn
<1> QED
  BY <1>2, <1>3

-----------------------------------------------------------------------------
(* The coordinations keep the invariant *)

LEMMA Coordinates == ASSUME IndInv, NEW c \in Procs, Coordinate(c) PROVE IndInv'
<1> USE DEF IndInv
<1>1. UNCHANGED <<study, trials, slots, job, messages, work>> /\ nudged' = FALSE
  BY DEF Coordinate
<1>2. Lasts /\ Agrees(study, study')
  BY <1>1, SameRowsLast
<1>3. Rows' /\ Study'
  BY <1>1, <1>2, RowsStay, StudyStays
<1>4. Processes'
  <2>1. CASE study.status \in Ended
    <3>1. UNCHANGED proc
      BY <2>1 DEF Coordinate
    <3> QED
      BY <1>1, <1>2, <3>1, ProcsStay DEF Processes
  <2>2. CASE study.status \notin Ended
    <3> DEFINE pc == IF study.status = "queued" THEN "start" ELSE "slots"
    <3>1. Moves(c, Reading(pc, study))
      BY <2>2 DEF Coordinate
    <3>2. Reading(pc, study) \in Process /\ Knows(Reading(pc, study), study, trials)
      <4>1. study.status # "absent"
        BY DEF Coordinate, NothingUnborn
      <4> QED
        BY <4>1, ReadStudy
    <3> QED
      BY <1>1, <1>2, <3>1, <3>2, ProcMoves DEF Processes
  <2> QED
    BY <2>1, <2>2
<1> QED
  BY <1>1, <1>3, <1>4 DEF NothingUnborn

\* What a coordination that has not ended knows, step by step.
LEMMA CoordinatorKnows ==
    ASSUME IndInv, NEW c \in Procs, ~At(c, "idle")
    PROVE  /\ proc[c] \in Process /\ Knows(proc[c], study, trials)
           /\ study.status # "absent"
           /\ Lasts => NothingUnborn'
<1>1. proc[c] \in Process /\ Knows(proc[c], study, trials)
  BY DEF IndInv, Processes, ProcsKnow
<1>2. study.status # "absent"
  BY <1>1 DEF Knows, At
<1>3. Lasts => NothingUnborn'
  BY <1>2 DEF Lasts, NothingUnborn
<1> QED
  BY <1>1, <1>2, <1>3

LEMMA StartsStudy == ASSUME IndInv, NEW c \in Procs, StartStudy(c) PROVE IndInv'
<1> USE DEF IndInv
<1>1. UNCHANGED <<trials, slots, job, nudged, messages, work>> /\ At(c, "start")
  BY DEF StartStudy
<1>2. Rows'
  BY <1>1, RowsStay
<1>3. CASE study.status = "queued" /\ proc[c].fresh
  <2> DEFINE row == [study EXCEPT !.status = "running", !.deadline = "ahead"]
  <2>1. study' = row /\ Writes(c, row, Reading("slots", row))
    BY <1>3 DEF StartStudy, Writes
  <2>2. /\ study' \in StudyRow /\ study'.status = "running" /\ study'.cancel = study.cancel
        /\ study'.register = study.register /\ study'.deadline = "ahead"
        /\ study'.best = study.best
    BY <2>1 DEF Study, StudyRow
  <2>3. ~study.cancel /\ study.deadline = "unset"
    BY <1>3 DEF Study, CancelWins, NoEarlyDeadline
  <2>4. Lasts
    BY <1>1, <2>2, <2>3 DEF Lasts
  <2>5. Study'
    <3>1. CancelWins' /\ NoEarlyDeadline' /\ EndIsEarned'
      BY <2>2 DEF CancelWins, NoEarlyDeadline, EndIsEarned
    <3>2. BestIsChampion' /\ JobIsChampions'
      BY <1>1, <2>2 DEF Study, BestIsChampion, JobIsChampions
    <3> QED
      BY <1>1, <2>2, <3>1, <3>2 DEF Study
  <2>6. Reading("slots", row) \in Process /\ Knows(Reading("slots", row), study', trials')
    <3>1. Reading("slots", study') \in Process /\ Knows(Reading("slots", study'), study', trials')
      <4> DEFINE new == Reading("slots", study')
      <4>1. new.pc = "slots" /\ new.seen = study' /\ new.todo = {} /\ new.fresh
        BY DEF Reading
      <4>2. new \in Process
        BY <2>2 DEF Reading, Process
      <4> HIDE DEF new
      <4>3. Knows(new, study', trials')
        BY <2>2, <4>1 DEF Knows, Working, Concluding, Crowning, Agrees
      <4> QED
        BY <4>2, <4>3 DEF new
    <3> QED
      BY <2>1, <3>1
  <2>7. Processes'
    BY <1>1, <2>1, <2>4, <2>6, ProcWrites DEF Processes
  <2> QED
    BY <1>2, <2>2, <2>5, <2>7 DEF NothingUnborn
<1>4. CASE ~(study.status = "queued" /\ proc[c].fresh)
  <2>1. Rest(c) /\ UNCHANGED study
    BY <1>4 DEF StartStudy
  <2> QED
    BY <1>1, <1>2, <2>1, SameRowsLast, Rests DEF Processes, NothingUnborn
<1> QED
  BY <1>3, <1>4

LEMMA InitializesSlots == ASSUME IndInv, NEW c \in Procs, InitializeSlots(c) PROVE IndInv'
<1> USE DEF IndInv
<1> DEFINE pc == IF proc[c].seen.cancel THEN "cancelled" ELSE "list"
           new == [proc[c] EXCEPT !.pc = pc]
<1>1. /\ UNCHANGED <<study, job, nudged, messages, work>> /\ At(c, "slots")
      /\ slots' = [s \in Slots |-> IF s \in DOMAIN slots THEN slots[s] ELSE None]
      /\ proc' = [proc EXCEPT ![c].pc = pc]
  BY DEF InitializeSlots, To
<1>2. proc[c] \in Process /\ Knows(proc[c], study, trials) /\ study.status # "absent"
  BY <1>1, CoordinatorKnows DEF At
<1>3. trials' = QueuedCancelled \/ trials' = trials
  BY DEF InitializeSlots
<1>4. /\ trials' \in [Trials -> TrialRow] /\ Quiet /\ ResultOfLastAttempt'
      /\ \A t \in Trials : trials'[t].attempts = trials[t].attempts
      /\ \A t \in Trials : trials[t].status = "running" \/ trials'[t].status = "running"
                             => trials'[t] = trials[t]
  <2>1. CASE trials' = QueuedCancelled
    BY <2>1, CancelledRows
  <2>2. CASE trials' = trials
    BY <2>2 DEF Rows, Quiet, ResultOfLastAttempt
  <2> QED
    BY <1>3, <2>1, <2>2
<1>5. Rows'
  BY <1>1, <1>4, RowsCalm DEF Rows
<1>6. Lasts /\ Agrees(study, study')
  BY <1>1, <1>4, QuietLasts DEF Rows
<1>7. Study'
  BY <1>1, <1>6, StudyStays
<1>8. new \in Process /\ Knows(new, study', trials')
  <2>1. /\ new.pc = pc /\ new.seen = proc[c].seen /\ new.fresh = proc[c].fresh
        /\ new \in Process
    BY <1>2 DEF Process
  <2> HIDE DEF new
  <2>2. Knows(new, study, trials)
    BY <1>1, <1>2, <2>1 DEF Knows, Working, Concluding, Crowning, At
  <2> QED
    BY <1>6, <2>1, <2>2, KnowsLasts
<1>9. Moves(c, new)
  BY <1>1 DEF Moves
<1>10. Processes'
  BY <1>1, <1>6, <1>8, <1>9, ProcMoves DEF Processes
<1> QED
  BY <1>1, <1>2, <1>5, <1>7, <1>10 DEF NothingUnborn

LEMMA FinalizesCancellation ==
    ASSUME IndInv, NEW c \in Procs, FinalizeCancellation(c) PROVE IndInv'
<1> USE DEF IndInv
<1>1. UNCHANGED <<trials, slots, job, nudged, messages, work>> /\ At(c, "cancelled")
  BY DEF FinalizeCancellation
<1>2. Rows' /\ study.status # "absent"
  BY <1>1, RowsStay, CoordinatorKnows DEF At
<1>3. CASE Rest(c) /\ UNCHANGED study
  BY <1>1, <1>2, <1>3, SameRowsLast, Rests DEF Processes, NothingUnborn
<1>4. CASE Ends(c, "cancelled")
  <2>1. Study' /\ ProcsKnow' /\ proc' \in [Procs -> Process]
    BY <1>1, <1>4, EndsSoundly DEF Ended, Processes
  <2>2. study'.status # "absent"
    BY <1>2, <1>4, EndsExisting DEF Ended
  <2> QED
    BY <1>1, <1>2, <2>1, <2>2 DEF Processes, NothingUnborn
<1> QED
  BY <1>3, <1>4 DEF FinalizeCancellation

\* What a coordination knows of the study, whatever step it takes next.
Informed(q, row) ==
    /\ row.status # "absent"
    /\ q.fresh => Agrees(q.seen, row)
    /\ q.seen.deadline = "passed" => row.deadline = "passed"
    /\ q.seen.best # None => row.best = q.seen.best
    /\ ~q.seen.cancel

LEMMA WorkingIsInformed ==
    ASSUME NEW q \in Process, NEW row, NEW rows, Knows(q, row, rows), q.pc \in Working
    PROVE  Informed(q, row)
BY DEF Knows, Informed, Working

\* _finalize goes on with what it has found.
LEMMA FinalizingKnows ==
    ASSUME NEW c, proc[c] \in Process, Informed(proc[c], study), NEW rows, AllEnded(rows),
           Done(rows) \/ proc[c].seen.deadline = "passed"
    PROVE  Finalizing(c, rows) \in Process /\ Knows(Finalizing(c, rows), study, rows)
<1> DEFINE pc == IF Champions(rows) = {} THEN "fail"
                 ELSE IF proc[c].seen.best = None THEN "best"
                 ELSE IF study.register THEN "handoff" ELSE "succeed"
           new == [proc[c] EXCEPT !.pc = pc]
<1>1. /\ new.pc = pc /\ new.seen = proc[c].seen /\ new.fresh = proc[c].fresh
      /\ new \in Process
  BY DEF Process
<1>2. Finalizing(c, rows) = new
  BY DEF Finalizing
<1>3. ASSUME rows = NoTrials PROVE Champions(rows) = {} /\ NoneStarted(rows)
  BY <1>3 DEF NoTrials, NoTrial, Champions, Succeeded, With, NoneStarted
<1>4. Champions(rows) # {} => Done(rows)
  BY <1>3 DEF Done
<1>5. Done(rows) \/ (study.deadline = "passed" /\ NoneStarted(rows))
  BY <1>3 DEF Done, Informed
<1> HIDE DEF new
<1>6. Knows(new, study, rows)
  BY <1>1, <1>4, <1>5 DEF Knows, Working, Concluding, Crowning, Informed
<1> QED
  BY <1>1, <1>2, <1>6

LEMMA DispatchingKnows ==
    ASSUME NEW c, proc[c] \in Process, Informed(proc[c], study),
           NEW rows \in [Trials -> TrialRow], AllEnded(rows) => Done(rows)
    PROVE  Dispatching(c, rows) \in Process /\ Knows(Dispatching(c, rows), study, rows)
<1>1. CASE ToDispatch(rows) # {}
  <2> DEFINE new == [proc[c] EXCEPT !.pc = "dispatch", !.todo = ToDispatch(rows)]
  <2>1. ToDispatch(rows) \in SUBSET [trial : Trials, attempts : 0 .. MaxAttempts]
    <3>1. \A t \in Trials : rows[t].attempts \in 0 .. MaxAttempts
      BY DEF TrialRow
    <3>2. ASSUME NEW item \in ToDispatch(rows)
          PROVE  \E t \in Trials : item = [trial |-> t, attempts |-> rows[t].attempts]
      BY DEF ToDispatch, With
    <3> QED
      BY <3>1, <3>2
  <2>2. /\ new.pc = "dispatch" /\ new.seen = proc[c].seen /\ new.fresh = proc[c].fresh
        /\ new.todo = ToDispatch(rows) /\ new \in Process
    BY <2>1 DEF Process
  <2>3. Dispatching(c, rows) = new
    BY <1>1 DEF Dispatching
  <2> HIDE DEF new
  <2>4. Knows(new, study, rows)
    BY <1>1, <2>2 DEF Knows, Working, Concluding, Crowning, Informed
  <2> QED
    BY <2>2, <2>3, <2>4
<1>2. CASE ToDispatch(rows) = {} /\ AllEnded(rows)
  BY <1>2, FinalizingKnows DEF Dispatching
<1>3. CASE ToDispatch(rows) = {} /\ ~AllEnded(rows)
  BY <1>3, IdleKnows DEF Dispatching
<1> QED
  BY <1>1, <1>2, <1>3

\* A coordination moves without touching the tables.
LEMMA OnlyMoves ==
    ASSUME IndInv, NEW c \in Procs, ~At(c, "idle"), NEW new \in Process,
           Knows(new, study, trials), Moves(c, new), nudged' \in BOOLEAN,
           messages' \subseteq Trials, UNCHANGED <<study, trials, slots, job, work>>
    PROVE  IndInv'
<1> USE DEF IndInv
<1>1. Lasts /\ Agrees(study, study')
  BY SameRowsLast
<1>2. Rows' /\ Study' /\ NothingUnborn'
  BY <1>1, RowsStay, StudyStays, CoordinatorKnows
<1>3. Processes'
  BY <1>1, ProcMoves DEF Processes
<1> QED
  BY <1>2, <1>3

LEMMA ListsTrials == ASSUME IndInv, NEW c \in Procs, ListTrials(c) PROVE IndInv'
<1>1. /\ UNCHANGED <<study, trials, slots, job, nudged, messages, work>>
      /\ At(c, "list") /\ ~At(c, "idle")
  BY DEF ListTrials, At
<1>2. proc[c] \in Process /\ Knows(proc[c], study, trials) /\ Informed(proc[c], study)
  BY <1>1, CoordinatorKnows, WorkingIsInformed DEF At, Working
<1>3. nudged' \in BOOLEAN /\ messages' \subseteq Trials /\ trials \in [Trials -> TrialRow]
  BY <1>1 DEF IndInv, Processes, Rows
<1>4. CASE trials = NoTrials
  <2> DEFINE pc == IF proc[c].seen.deadline = "passed" THEN "relist" ELSE "materialize"
             new == [proc[c] EXCEPT !.pc = pc]
  <2>1. proc' = [proc EXCEPT ![c].pc = pc]
    BY <1>4 DEF ListTrials, To
  <2>2. Moves(c, new)
    BY <2>1 DEF Moves
  <2>3. /\ new.pc = pc /\ new.seen = proc[c].seen /\ new.fresh = proc[c].fresh
        /\ new \in Process
    BY <1>2 DEF Process
  <2> HIDE DEF new
  <2>4. Knows(new, study, trials)
    BY <1>2, <2>3 DEF Knows, Working, Concluding, Crowning, Informed
  <2> QED
    BY <1>1, <1>3, <2>2, <2>3, <2>4, OnlyMoves
<1>5. CASE trials # NoTrials
  <2>1. Moves(c, Dispatching(c, trials))
    BY <1>5 DEF ListTrials
  <2>2. AllEnded(trials) => Done(trials)
    BY <1>5 DEF Done
  <2> QED
    BY <1>1, <1>2, <1>3, <2>1, <2>2, DispatchingKnows, OnlyMoves
<1> QED
  BY <1>4, <1>5

LEMMA Relists == ASSUME IndInv, NEW c \in Procs, Relist(c) PROVE IndInv'
<1>1. /\ UNCHANGED <<study, trials, slots, job, nudged, messages, work>>
      /\ At(c, "relist") /\ ~At(c, "idle")
  BY DEF Relist, At
<1>2. proc[c] \in Process /\ Knows(proc[c], study, trials) /\ Informed(proc[c], study)
  BY <1>1, CoordinatorKnows, WorkingIsInformed DEF At, Working
<1>3. nudged' \in BOOLEAN /\ messages' \subseteq Trials
  BY <1>1 DEF IndInv, Processes
<1>4. CASE AllEnded(trials)
  <2>1. Moves(c, Finalizing(c, trials))
    BY <1>4 DEF Relist
  <2>2. proc[c].seen.deadline = "passed"
    BY <1>1, <1>2 DEF Knows, At
  <2> QED
    BY <1>1, <1>2, <1>3, <1>4, <2>1, <2>2, FinalizingKnows, OnlyMoves
<1>5. CASE ~AllEnded(trials)
  <2>1. Moves(c, Idle)
    BY <1>5 DEF Relist
  <2> QED
    BY <1>1, <1>3, <2>1, IdleKnows, OnlyMoves
<1> QED
  BY <1>4, <1>5

LEMMA Materializes == ASSUME IndInv, NEW c \in Procs, Materialize(c) PROVE IndInv'
<1> USE DEF IndInv
<1>1. /\ UNCHANGED <<slots, job, messages, work>>
      /\ At(c, "materialize") /\ ~At(c, "idle")
  BY DEF Materialize, At
<1>2. proc[c] \in Process /\ Knows(proc[c], study, trials) /\ Informed(proc[c], study)
  BY <1>1, CoordinatorKnows, WorkingIsInformed DEF At, Working
<1>3. CASE trials # NoTrials
  <2>1. Moves(c, Idle) /\ nudged' = TRUE /\ UNCHANGED <<study, trials>>
    BY <1>3 DEF Materialize, Rest
  <2> QED
    BY <1>1, <2>1, IdleKnows, OnlyMoves DEF Processes
<1>4. CASE trials = NoTrials
  <2>1. PICK count \in Trials :
           /\ trials' = Materialized(count)
           /\ IF count < TrialBudget /\ StudyIs(c)
              THEN Writes(c, study, Dispatching(c, trials'))
              ELSE Moves(c, Dispatching(c, trials')) /\ UNCHANGED study
           /\ UNCHANGED nudged
    BY <1>4 DEF Materialize
  <2>2. UNCHANGED study
    BY <2>1 DEF Writes
  <2>3. ASSUME NEW t \in Trials
        PROVE  /\ trials'[t] \in TrialRow /\ trials[t] \in TrialRow
               /\ trials'[t].status \in {"absent", "queued"} /\ trials'[t].attempts = 0
               /\ t <= count => trials'[t].status = "queued"
               /\ trials[t].status = "absent" /\ trials[t].attempts = 0
    <3> DEFINE queued == [NoTrial EXCEPT !.status = "queued"]
    <3>1. NoTrial \in TrialRow /\ NoTrial.status = "absent" /\ NoTrial.attempts = 0
      BY TrialSets DEF NoTrial, TrialRow
    <3>2. queued \in TrialRow /\ queued.status = "queued" /\ queued.attempts = 0
      BY <3>1 DEF TrialRow
    <3>3. trials'[t] = IF t <= count THEN queued ELSE NoTrial
      BY <2>1 DEF Materialized
    <3>4. trials[t] = NoTrial
      BY <1>4 DEF NoTrials
    <3> HIDE DEF queued
    <3> QED
      BY <3>1, <3>2, <3>3, <3>4
  <2>4. trials' \in [Trials -> TrialRow]
    <3>1. trials' = [t \in Trials |-> trials'[t]]
      BY <2>1 DEF Materialized
    <3> QED
      BY <2>3, <3>1
  <2>5. ~AllEnded(trials')
    <3>1. count <= count
      BY TrialSets
    <3> QED
      BY <2>3, <3>1 DEF AllEnded, With
  <2>6. Rows'
    <3>1. ResultOfLastAttempt'
      BY <2>3 DEF ResultOfLastAttempt
    <3> QED
      BY <1>1, <2>3, <2>4, <3>1, RowsCalm DEF Rows
  <2>7. Lasts /\ Agrees(study, study')
    <3>1. ~Done(trials) /\ NoneStarted(trials')
      BY <1>4, <2>3 DEF Done, NoneStarted
    <3> QED
      BY <2>2, <3>1 DEF Lasts, Agrees
  <2>8. Study' /\ NothingUnborn'
    BY <1>1, <2>2, <2>7, StudyStays, CoordinatorKnows
  <2>9. /\ Dispatching(c, trials') \in Process
        /\ Knows(Dispatching(c, trials'), study', trials')
    BY <1>2, <2>2, <2>4, <2>5, DispatchingKnows
  <2>10. ProcsKnow' /\ proc' \in [Procs -> Process]
    BY <2>1, <2>7, <2>9, ProcWrites, ProcMoves DEF Processes
  <2> QED
    BY <1>1, <2>1, <2>6, <2>8, <2>10 DEF Processes
<1> QED
  BY <1>3, <1>4

LEMMA FailsToMaterialize ==
    ASSUME IndInv, NEW c \in Procs, MaterializationFails(c) PROVE IndInv'
<1>1. ~At(c, "idle") /\ Moves(c, Idle)
  BY DEF MaterializationFails, At, Rest
<1> QED
  BY <1>1, IdleKnows, OnlyMoves DEF MaterializationFails, IndInv, Processes

LEMMA Dies == ASSUME IndInv, NEW c \in Procs, CoordinatorDies(c) PROVE IndInv'
BY IdleKnows, OnlyMoves DEF CoordinatorDies, Rest, IndInv, Processes

\* A coordination goes on with the next trial to dispatch, or ends.
LEMMA DispatchedMoves ==
    ASSUME NEW c, proc[c] \in Process, Informed(proc[c], study), Dispatched(c)
    PROVE  \E new \in Process : Moves(c, new) /\ Knows(new, study, trials)
<1> DEFINE rest == proc[c].todo \ {NextItem(c)}
           new == [proc[c] EXCEPT !.pc = "dispatch", !.todo = rest]
<1>1. CASE rest = {}
  <2>1. Moves(c, Idle)
    BY <1>1 DEF Dispatched, Rest
  <2> QED
    BY <2>1, IdleKnows
<1>2. CASE rest # {}
  <2>1. Moves(c, new)
    BY <1>2 DEF Dispatched
  <2>2. /\ new.pc = "dispatch" /\ new.seen = proc[c].seen /\ new.fresh = proc[c].fresh
        /\ new.todo = rest /\ new \in Process
    BY DEF Process
  <2> HIDE DEF new, rest
  <2>3. Knows(new, study, trials)
    BY <1>2, <2>2 DEF Knows, Working, Concluding, Crowning, Informed
  <2> QED
    BY <2>1, <2>2, <2>3
<1> QED
  BY <1>1, <1>2

LEMMA EnqueuesTrial == ASSUME IndInv, NEW c \in Procs, EnqueueTrial(c) PROVE IndInv'
<1>1. /\ UNCHANGED <<study, trials, slots, job, nudged, work>>
      /\ At(c, "dispatch") /\ ~At(c, "idle")
  BY DEF EnqueueTrial, At
<1>2. proc[c] \in Process /\ Knows(proc[c], study, trials) /\ Informed(proc[c], study)
  BY <1>1, CoordinatorKnows, WorkingIsInformed DEF At, Working
<1>3. nudged' \in BOOLEAN /\ messages \subseteq Trials
  BY <1>1 DEF IndInv, Processes
<1>4. CASE messages' = messages \cup {NextItem(c).trial} /\ To(c, "mark")
  <2> DEFINE new == [proc[c] EXCEPT !.pc = "mark"]
  <2>1. Moves(c, new)
    BY <1>4 DEF To, Moves
  <2>2. proc[c].todo # {}
    BY <1>1, <1>2 DEF Knows, At
  <2>3. NextItem(c).trial \in Trials
    <3>1. NextItem(c) \in proc[c].todo
      BY <1>2, <2>2, NextIsTodo
    <3> QED
      BY <1>2, <3>1 DEF Process
  <2>4. /\ new.pc = "mark" /\ new.seen = proc[c].seen /\ new.fresh = proc[c].fresh
        /\ new.todo = proc[c].todo /\ new \in Process
    BY <1>2 DEF Process
  <2> HIDE DEF new
  <2>5. Knows(new, study, trials)
    BY <1>2, <2>2, <2>4 DEF Knows, Working, Concluding, Crowning, Informed
  <2> QED
    BY <1>1, <1>3, <1>4, <2>1, <2>3, <2>4, <2>5, OnlyMoves
<1>5. CASE Dispatched(c) /\ UNCHANGED messages
  <2>1. PICK new \in Process : Moves(c, new) /\ Knows(new, study, trials)
    BY <1>2, <1>5, DispatchedMoves
  <2> QED
    BY <1>1, <1>3, <1>5, <2>1, OnlyMoves
<1> QED
  BY <1>4, <1>5 DEF EnqueueTrial

LEMMA SentRow ==
    ASSUME NEW row \in TrialRow
    PROVE  /\ [row EXCEPT !.sent = TRUE] \in TrialRow
           /\ [row EXCEPT !.sent = TRUE].status = row.status
           /\ [row EXCEPT !.sent = TRUE].attempts = row.attempts
BY DEF TrialRow

LEMMA MarksDispatched == ASSUME IndInv, NEW c \in Procs, MarkDispatched(c) PROVE IndInv'
<1> USE DEF IndInv
<1> DEFINE item == NextItem(c)
<1>1. /\ UNCHANGED <<study, slots, job, messages, work>>
      /\ At(c, "mark") /\ ~At(c, "idle")
  BY DEF MarkDispatched, At
<1>2. proc[c] \in Process /\ Knows(proc[c], study, trials) /\ Informed(proc[c], study)
  BY <1>1, CoordinatorKnows, WorkingIsInformed DEF At, Working
<1>3. CASE AsListed(item)
  <2>1. /\ trials' = [trials EXCEPT ![item.trial].sent = TRUE]
        /\ Dispatched(c) /\ UNCHANGED nudged /\ trials[item.trial].status = "queued"
    BY <1>3 DEF MarkDispatched, AsListed
  <2>2. item.trial \in Trials
    <3>1. item \in proc[c].todo
      BY <1>1, <1>2, NextIsTodo DEF Knows, At
    <3> QED
      BY <1>2, <3>1 DEF Process
  <2> DEFINE sent == [trials[item.trial] EXCEPT !.sent = TRUE]
  <2>3. trials' = [trials EXCEPT ![item.trial] = sent]
    BY <2>1
  <2>4. /\ sent \in TrialRow /\ sent.status = "queued"
        /\ sent.attempts = trials[item.trial].attempts
    <3>1. trials[item.trial] \in TrialRow
      BY <2>2 DEF Rows
    <3> QED
      BY <2>1, <3>1, SentRow
  <2> HIDE DEF sent, item
  <2>5. trials' \in [Trials -> TrialRow]
    BY <2>3, <2>4 DEF Rows
  <2>6. ASSUME NEW t \in Trials
        PROVE  /\ trials'[t].attempts = trials[t].attempts
               /\ trials'[t].status = trials[t].status
               /\ trials[t].status # "queued" => trials'[t] = trials[t]
    BY <2>1, <2>2, <2>3, <2>4 DEF Rows
  <2>7. Quiet /\ ResultOfLastAttempt'
    BY <2>6 DEF Quiet, ResultOfLastAttempt, Rows
  <2>8. Lasts /\ Agrees(study, study')
    BY <1>1, <2>5, <2>6, <2>7, QuietLasts DEF Rows
  <2>9. Rows'
    BY <1>1, <2>5, <2>6, <2>7, RowsCalm DEF Rows
  <2>10. PICK new \in Process : Moves(c, new) /\ Knows(new, study, trials)
    BY <1>2, <2>1, DispatchedMoves
  <2>11. ProcsKnow' /\ proc' \in [Procs -> Process]
    BY <2>8, <2>10, KnowsLasts, ProcMoves DEF Processes
  <2> QED
    BY <1>1, <2>1, <2>8, <2>9, <2>11, StudyStays, CoordinatorKnows DEF Processes
<1>4. CASE ~AsListed(item)
  <2>1. Moves(c, Idle) /\ nudged' = TRUE /\ UNCHANGED trials
    BY <1>4 DEF MarkDispatched, Rest
  <2> QED
    BY <1>1, <2>1, IdleKnows, OnlyMoves DEF Processes
<1> QED
  BY <1>3, <1>4

LEMMA SetsBest == ASSUME IndInv, NEW c \in Procs, SetBest(c) PROVE IndInv'
<1> USE DEF IndInv
<1>1. /\ UNCHANGED <<trials, slots, job, nudged, messages, work>>
      /\ At(c, "best") /\ ~At(c, "idle")
  BY DEF SetBest, At
<1>2. proc[c] \in Process /\ Knows(proc[c], study, trials) /\ Informed(proc[c], study)
  BY <1>1, CoordinatorKnows, WorkingIsInformed DEF At, Working
<1>3. Rows'
  BY <1>1, RowsStay
<1>4. CASE StudyIs(c)
  <2>1. PICK t \in Champions(trials) :
          Writes(c, [study EXCEPT !.best = t],
                 [proc[c] EXCEPT !.seen = [study EXCEPT !.best = t],
                                 !.pc = IF study.register THEN "handoff" ELSE "succeed"])
    BY <1>4 DEF SetBest
  <2> DEFINE row == [study EXCEPT !.best = t]
             pc == IF study.register THEN "handoff" ELSE "succeed"
             new == [proc[c] EXCEPT !.seen = row, !.pc = pc]
  <2>2. Writes(c, row, new)
    BY <2>1
  <2>3. t \in Trials /\ t # None
    BY TrialSets DEF Champions, Succeeded, With
  <2>4. /\ row \in StudyRow /\ row.status = study.status /\ row.cancel = study.cancel
        /\ row.register = study.register /\ row.deadline = study.deadline /\ row.best = t
    BY <2>3 DEF Study, StudyRow
  <2> HIDE DEF row
  <2>5. study' = row
    BY <2>2 DEF Writes
  <2>6. new.pc = pc /\ new.seen = row /\ new.fresh = proc[c].fresh /\ new \in Process
    BY <1>2, <2>4 DEF Process
  <2> HIDE DEF new
  <2>7. /\ study.best = None /\ Done(trials) /\ ~study.cancel /\ study.status # "absent"
    <3>1. Agrees(proc[c].seen, study) /\ ~proc[c].seen.cancel
      BY <1>2, <1>4 DEF StudyIs, Informed
    <3>2. ~study.cancel
      BY <3>1 DEF Agrees
    <3>3. proc[c].seen.best = None /\ Done(trials) /\ study.status # "absent"
      BY <1>1, <1>2 DEF Knows, At, Concluding
    <3> QED
      BY <3>1, <3>2, <3>3 DEF Agrees
  <2>8. Lasts
    BY <1>1, <2>4, <2>5, <2>7 DEF Lasts
  <2>9. Knows(new, study', trials')
    BY <1>1, <2>3, <2>4, <2>5, <2>6, <2>7 DEF Knows, Working, Concluding, Crowning, Agrees
  <2>10. Processes'
    BY <1>1, <2>2, <2>6, <2>8, <2>9, ProcWrites DEF Processes
  <2>11. Study'
    <3>1. CancelWins' /\ NoEarlyDeadline' /\ EndIsEarned'
      BY <1>1, <2>4, <2>5, <2>7 DEF Study, CancelWins, NoEarlyDeadline, EndIsEarned
    <3>2. BestIsChampion' /\ JobIsChampions'
      BY <1>1, <2>4, <2>5, <2>7 DEF Study, BestIsChampion, JobIsChampions
    <3> QED
      BY <1>1, <2>4, <2>5, <3>1, <3>2 DEF Study
  <2> QED
    BY <1>3, <2>4, <2>5, <2>7, <2>10, <2>11 DEF NothingUnborn
<1>5. CASE ~StudyIs(c)
  <2>1. Moves(c, Idle) /\ UNCHANGED study
    BY <1>5 DEF SetBest, Rest
  <2> QED
    BY <1>1, <2>1, IdleKnows, OnlyMoves DEF Processes
<1> QED
  BY <1>4, <1>5

\* A step that ends the study, or gives up.
LEMMA EndingStep ==
    ASSUME IndInv, NEW c \in Procs, ~At(c, "idle"), NEW status \in Ended, Ends(c, status),
           UNCHANGED <<trials, slots, job, nudged, messages, work>>,
           status # "cancelled" => proc[c].pc \in Working,
           status = "succeeded" =>
               study.best # None /\ (study.register => job.status = "succeeded"),
           status = "failed" => Done(trials) \/ NoneStarted(trials)
    PROVE  IndInv'
<1> USE DEF IndInv
<1>1. Study' /\ ProcsKnow' /\ proc' \in [Procs -> Process]
  BY EndsSoundly DEF Processes
<1>2. study'.status # "absent"
  BY CoordinatorKnows, EndsExisting
<1> QED
  BY <1>1, <1>2, RowsStay DEF Processes, NothingUnborn

LEMMA Succeeds == ASSUME IndInv, NEW c \in Procs, Succeed(c) PROVE IndInv'
<1>1. At(c, "succeed") /\ ~At(c, "idle") /\ Ends(c, "succeeded")
  BY DEF Succeed, At
<1>2. Knows(proc[c], study, trials)
  BY <1>1, CoordinatorKnows
<1>3. study.best # None /\ ~study.register
  BY <1>1, <1>2 DEF Knows, Crowning, At
<1> QED
  BY <1>1, <1>3, EndingStep DEF Succeed, At, Working, Ended

LEMMA FailsStudy == ASSUME IndInv, NEW c \in Procs, FailStudy(c) PROVE IndInv'
<1>1. At(c, "fail") /\ ~At(c, "idle") /\ Ends(c, "failed")
  BY DEF FailStudy, At
<1>2. Knows(proc[c], study, trials)
  BY <1>1, CoordinatorKnows
<1>3. Done(trials) \/ NoneStarted(trials)
  BY <1>1, <1>2 DEF Knows, At
<1> QED
  BY <1>1, <1>3, EndingStep DEF FailStudy, At, Working, Ended

LEMMA EndsHandoff == ASSUME IndInv, NEW c \in Procs, EndHandoff(c) PROVE IndInv'
<1>1. /\ At(c, "handoff") /\ ~At(c, "idle") /\ EndsWithJob(c)
      /\ UNCHANGED <<trials, slots, job, nudged, messages, work>>
  BY DEF EndHandoff, At
<1>2. Knows(proc[c], study, trials)
  BY <1>1, CoordinatorKnows
<1>3. Done(trials) /\ study.best # None
  BY <1>1, <1>2 DEF Knows, Concluding, Crowning, At
<1>4. CASE job.status \in {"absent", "active"}
  <2>1. Moves(c, Idle) /\ UNCHANGED study
    BY <1>1, <1>4 DEF EndsWithJob, Rest
  <2> QED
    BY <1>1, <2>1, IdleKnows, OnlyMoves DEF IndInv, Processes
<1>5. CASE job.status = "succeeded"
  <2>1. Ends(c, "succeeded")
    BY <1>1, <1>5 DEF EndsWithJob
  <2> QED
    BY <1>1, <1>3, <1>5, <2>1, EndingStep DEF At, Working, Ended
<1>6. CASE job.status \notin {"absent", "active", "succeeded"}
  <2>1. Ends(c, "failed")
    BY <1>1, <1>6 DEF EndsWithJob
  <2> QED
    BY <1>1, <1>3, <2>1, EndingStep DEF At, Working, Ended
<1> QED
  BY <1>4, <1>5, <1>6

LEMMA SubmitsChampion == ASSUME IndInv, NEW c \in Procs, SubmitChampion(c) PROVE IndInv'
<1> USE DEF IndInv
<1> DEFINE new == [proc[c] EXCEPT !.pc = "link"]
<1>1. /\ UNCHANGED <<study, trials, slots, nudged, messages, work>>
      /\ At(c, "handoff") /\ ~At(c, "idle") /\ Moves(c, new)
      /\ job' = IF job.status = "absent" THEN ChampionJob(proc[c].seen) ELSE job
  BY DEF SubmitChampion, At, To, Moves
<1>2. proc[c] \in Process /\ Knows(proc[c], study, trials)
  BY <1>1, CoordinatorKnows
<1>3. /\ Done(trials) /\ proc[c].seen.best # None /\ study.best = proc[c].seen.best
  BY <1>1, <1>2 DEF Knows, Concluding, Crowning, At
<1>4. Lasts /\ Agrees(study, study')
  BY <1>1, SameRowsLast
<1>5. new.pc = "link" /\ new.seen = proc[c].seen /\ new.fresh = proc[c].fresh /\ new \in Process
  BY <1>2 DEF Process
<1> HIDE DEF new
<1>6. Knows(new, study', trials')
  <2>1. Knows(new, study, trials)
    BY <1>1, <1>2, <1>3, <1>5 DEF Knows, Working, Concluding, Crowning, At
  <2> QED
    BY <1>4, <1>5, <2>1, KnowsLasts
<1>7. Processes'
  BY <1>1, <1>4, <1>5, <1>6, ProcMoves DEF Processes
<1>8. /\ job' \in [status : {"absent", "active", "succeeded", "failed"},
                   trial : Trials \cup {None}]
      /\ job'.status # "absent" => job'.trial = study.best
      /\ job.status = "succeeded" => job'.status = "succeeded"
  <2>1. CASE job.status = "absent"
    <3>1. job' = [status |-> "active", trial |-> study.best]
      BY <1>1, <1>3, <2>1 DEF ChampionJob
    <3> QED
      BY <2>1, <3>1 DEF Study, StudyRow
  <2>2. CASE job.status # "absent"
    BY <1>1, <2>2 DEF Study, JobIsChampions
  <2> QED
    BY <2>1, <2>2
<1>9. Study'
  <2>1. CancelWins' /\ NoEarlyDeadline' /\ EndIsEarned'
    BY <1>1, <1>8 DEF Study, CancelWins, NoEarlyDeadline, EndIsEarned
  <2>2. BestIsChampion' /\ JobIsChampions'
    BY <1>1, <1>3, <1>8 DEF Study, BestIsChampion, JobIsChampions
  <2> QED
    BY <1>1, <1>8, <2>1, <2>2 DEF Study
<1> QED
  BY <1>1, <1>4, <1>7, <1>9, RowsStay, CoordinatorKnows

LEMMA LinksChampion == ASSUME IndInv, NEW c \in Procs, LinkChampion(c) PROVE IndInv'
<1> USE DEF IndInv
<1>1. /\ UNCHANGED <<trials, slots, job, nudged, messages, work>>
      /\ At(c, "link") /\ ~At(c, "idle")
  BY DEF LinkChampion, At
<1>2. CASE StudyIs(c)
  <2> DEFINE row == [study EXCEPT !.linked = TRUE]
  <2>1. study' = row /\ Writes(c, row, Idle)
    BY <1>2 DEF LinkChampion, Writes
  <2>2. /\ study' \in StudyRow /\ study'.status = study.status /\ study'.cancel = study.cancel
        /\ study'.register = study.register /\ study'.deadline = study.deadline
        /\ study'.best = study.best
    BY <2>1 DEF Study, StudyRow
  <2>3. Lasts
    BY <1>1, <2>2 DEF Lasts
  <2>4. Processes'
    BY <1>1, <2>1, <2>3, IdleKnows, ProcWrites DEF Processes
  <2>5. Study'
    <3>1. CancelWins' /\ NoEarlyDeadline' /\ EndIsEarned'
      BY <1>1, <2>2 DEF Study, CancelWins, NoEarlyDeadline, EndIsEarned
    <3>2. BestIsChampion' /\ JobIsChampions'
      BY <1>1, <2>2 DEF Study, BestIsChampion, JobIsChampions
    <3> QED
      BY <1>1, <2>2, <3>1, <3>2 DEF Study
  <2> QED
    BY <1>1, <2>3, <2>4, <2>5, RowsStay, CoordinatorKnows
<1>3. CASE ~StudyIs(c)
  <2>1. Moves(c, Idle) /\ UNCHANGED study
    BY <1>3 DEF LinkChampion, Rest
  <2> QED
    BY <1>1, <2>1, IdleKnows, OnlyMoves DEF Processes
<1> QED
  BY <1>2, <1>3

-----------------------------------------------------------------------------
(* The workers and the reconciliation keep the invariant *)

\* A step on the trials and slots that leaves the study and every process alone.
LEMMA TrialStep ==
    ASSUME IndInv, UNCHANGED <<study, job, proc>>, Rows', Quiet,
           study.deadline = "passed" \/ study.status # "running" =>
               \A t \in Trials : trials'[t].attempts = trials[t].attempts,
           nudged' \in BOOLEAN, messages' \subseteq Trials,
           study.status = "absent" => ~nudged'
    PROVE  IndInv'
<1> USE DEF IndInv
<1>1. trials \in [Trials -> TrialRow] /\ trials' \in [Trials -> TrialRow]
  BY DEF Rows
<1>2. Done(trials) => trials' = trials
  BY <1>1, DoneIsFinal
<1>3. Lasts /\ Agrees(study, study')
  BY <1>2 DEF Lasts, Agrees, NoneStarted
<1>4. Study' /\ ProcsKnow' /\ proc' \in [Procs -> Process]
  BY <1>3, StudyStays, ProcsStay DEF Processes
<1>5. NothingUnborn'
  <2>1. ASSUME study.status = "absent" PROVE trials' = NoTrials
    <3>1. \A t \in Trials : trials[t].status = "absent"
      BY <2>1 DEF NothingUnborn, NoTrials, NoTrial
    <3>2. \A t \in Trials : trials'[t] = trials[t]
      BY <3>1 DEF Quiet
    <3> QED
      BY <1>1, <2>1, <3>2 DEF NothingUnborn
  <2> QED
    BY <2>1 DEF NothingUnborn
<1> QED
  BY <1>4, <1>5 DEF Processes

\* The trial that is received can be claimed, and the least free slot is free.
LEMMA ClaimableTrial ==
    ASSUME IndInv, NEW t \in Trials, Claimable(t)
    PROVE  /\ trials[t] \in TrialRow /\ trials[t].status = "queued"
           /\ trials[t].attempts + 1 \in 1 .. MaxAttempts
           /\ study.status = "running" /\ study.deadline # "passed"
           /\ Min(FreeSlots) \in DOMAIN slots
           /\ \A s \in DOMAIN slots : slots[s] # t
           /\ \A u \in Live : slots[Min(FreeSlots)] # u
<1>1. /\ trials[t] \in TrialRow /\ trials[t].status = "queued"
      /\ study.status = "running" /\ study.deadline # "passed"
  BY DEF IndInv, Rows, Claimable
<1>2. trials[t].attempts + 1 \in 1 .. MaxAttempts
  BY <1>1, TrialSets, StatusOfRow DEF Claimable
<1>3. Min(FreeSlots) \in FreeSlots
  BY MinIsFree DEF Claimable, IndInv, Rows
<1>4. \A s \in DOMAIN slots : slots[s] # t
  BY <1>1, TrialSets DEF IndInv, Rows, SlotsBoundTheTrials
<1>5. \A u \in Live : slots[Min(FreeSlots)] # u
  BY <1>3, TrialSets DEF FreeSlots, Live
<1> QED
  BY <1>1, <1>2, <1>3, <1>4, <1>5 DEF FreeSlots

LEMMA Claims == ASSUME IndInv, NEW t \in Trials, Claim(t) PROVE IndInv'
<1> DEFINE s == Min(FreeSlots)
           row == [trials[t] EXCEPT !.status = "running", !.lease = "live",
                                    !.attempts = trials[t].attempts + 1, !.sent = FALSE]
           e == [trial |-> t, slot |-> s, attempt |-> trials[t].attempts + 1]
<1>1. /\ UNCHANGED <<study, job, nudged, proc>> /\ Claimable(t)
      /\ messages' = messages \ {t} /\ slots' = [slots EXCEPT ![s] = t]
      /\ trials' = [trials EXCEPT ![t] = row] /\ work' = work \cup {e}
  BY DEF Claim, ClaimedTrial, ClaimedSlot, Receive
<1>2. /\ trials[t] \in TrialRow /\ trials[t].status = "queued"
      /\ trials[t].attempts + 1 \in 1 .. MaxAttempts
      /\ study.status = "running" /\ study.deadline # "passed"
      /\ s \in DOMAIN slots /\ \A r \in DOMAIN slots : slots[r] # t
      /\ \A u \in Live : slots[s] # u
  BY <1>1, ClaimableTrial
<1>3. row \in TrialRow /\ row.status = "running" /\ row.lease = "live"
  <2>1. trials[t].attempts + 1 \in 0 .. MaxAttempts
    BY <1>2, TrialSets
  <2> QED
    BY <1>2, <2>1 DEF TrialRow
<1>4. e \in Evaluation /\ e.slot = s
  BY <1>2 DEF Evaluation, IndInv, Rows
<1> HIDE DEF row, e, s
<1>5. /\ trials' \in [Trials -> TrialRow] /\ trials'[t] = row
      /\ \A u \in Trials \ {t} : trials'[u] = trials[u]
  BY <1>1, <1>3 DEF IndInv, Rows
<1>6. /\ DOMAIN slots' = DOMAIN slots /\ slots'[s] = t
      /\ \A r \in DOMAIN slots \ {s} : slots'[r] = slots[r]
  BY <1>1, <1>2
<1>7. Quiet
  BY <1>2, <1>5 DEF Quiet
<1>8. Live' = Live \cup {t}
  BY <1>3, <1>5 DEF Live
<1>9. Cardinality(Live') <= MaxConcurrent
  <2>1. Live \in SUBSET Trials /\ Cardinality(Live) < MaxConcurrent
    BY <1>1 DEF Live, Claimable
  <2>2. IsFiniteSet(Live) /\ Cardinality(Live) \in Nat /\ MaxConcurrent \in Nat
    BY <2>1, TrialSets
  <2>3. Cardinality(Live \cup {t}) <= Cardinality(Live) + 1
    BY <2>2, FS_AddElement
  <2>4. Cardinality(Live \cup {t}) \in Nat
    BY <1>8, TrialSets DEF Live
  <2> QED
    BY <1>8, <2>1, <2>2, <2>3, <2>4
<1>10. SlotsBoundTheTrials'
  <2>1. ASSUME NEW r \in DOMAIN slots', slots'[r] # None
        PROVE  /\ trials'[slots'[r]].status = "running"
               /\ \A q \in DOMAIN slots' : slots'[q] = slots'[r] => q = r
    <3>1. CASE r = s
      BY <1>2, <1>3, <1>5, <1>6, <3>1
    <3>2. CASE r # s
      <4>1. /\ slots'[r] = slots[r] /\ slots[r] # t /\ slots[r] \in Trials
            /\ trials[slots[r]].status = "running"
            /\ \A q \in DOMAIN slots : slots[q] = slots[r] => q = r
        BY <1>2, <1>6, <2>1, <3>2 DEF IndInv, Rows, SlotsBoundTheTrials
      <4> QED
        BY <1>5, <1>6, <4>1
    <3> QED
      BY <3>1, <3>2
  <2>2. \A u \in Live' : \E r \in DOMAIN slots' : slots'[r] = u
    <3>1. ASSUME NEW u \in Live PROVE \E r \in DOMAIN slots' : slots'[r] = u
      <4>1. PICK r \in DOMAIN slots : slots[r] = u
        BY DEF IndInv, Rows, SlotsBoundTheTrials
      <4> QED
        BY <1>2, <1>6, <4>1
    <3> QED
      BY <1>2, <1>6, <1>8, <3>1
  <2> QED
    BY <1>9, <2>1, <2>2 DEF SlotsBoundTheTrials
<1>11. ResultOfLastAttempt'
  BY <1>3, <1>5 DEF ResultOfLastAttempt, IndInv, Rows
<1>12. Rows'
  <2>1. \A r \in DOMAIN slots' : slots'[r] \in Trials \cup {None}
    BY <1>6 DEF IndInv, Rows
  <2>2. work' \subseteq Evaluation /\ WorkIsPlaced'
    BY <1>1, <1>2, <1>4, <1>6 DEF IndInv, Rows, WorkIsPlaced
  <2> QED
    BY <1>5, <1>6, <1>10, <1>11, <2>1, <2>2 DEF IndInv, Rows
<1> QED
  BY <1>1, <1>2, <1>7, <1>12, TrialStep DEF IndInv, Processes

LEMMA ClaimsInvalid == ASSUME IndInv, NEW t \in Trials, ClaimInvalid(t) PROVE IndInv'
<1> DEFINE s == Min(FreeSlots)
           row == [trials[t] EXCEPT !.status = "failed",
                                    !.attempts = trials[t].attempts + 1, !.sent = FALSE]
<1>1. /\ UNCHANGED <<study, job, proc, work>> /\ Claimable(t)
      /\ messages' = messages \ {t} /\ slots' = [slots EXCEPT ![s] = None]
      /\ trials' = [trials EXCEPT ![t] = row] /\ nudged' \in {TRUE, nudged}
  BY DEF ClaimInvalid, Receive
<1>2. /\ trials[t] \in TrialRow /\ trials[t].status = "queued"
      /\ trials[t].attempts + 1 \in 1 .. MaxAttempts
      /\ study.status = "running" /\ study.deadline # "passed"
      /\ s \in DOMAIN slots /\ \A r \in DOMAIN slots : slots[r] # t
      /\ \A u \in Live : slots[s] # u
  BY <1>1, ClaimableTrial
<1>3. row \in TrialRow /\ row.status = "failed"
  <2>1. trials[t].attempts + 1 \in 0 .. MaxAttempts
    BY <1>2, TrialSets
  <2> QED
    BY <1>2, <2>1 DEF TrialRow, Ended
<1> HIDE DEF row, s
<1>4. /\ trials' \in [Trials -> TrialRow] /\ trials'[t] = row
      /\ \A u \in Trials \ {t} : trials'[u] = trials[u]
  BY <1>1, <1>3 DEF IndInv, Rows
<1>5. /\ DOMAIN slots' = DOMAIN slots /\ slots'[s] = None
      /\ \A r \in DOMAIN slots \ {s} : slots'[r] = slots[r]
  BY <1>1, <1>2
<1>6. Quiet
  BY <1>2, <1>4 DEF Quiet
<1>7. Live' = Live
  BY <1>2, <1>3, <1>4 DEF Live
<1>8. SlotsBoundTheTrials'
  <2>1. ASSUME NEW r \in DOMAIN slots', slots'[r] # None
        PROVE  /\ trials'[slots'[r]].status = "running"
               /\ \A q \in DOMAIN slots' : slots'[q] = slots'[r] => q = r
    <3>1. /\ slots'[r] = slots[r] /\ slots[r] # t /\ slots[r] \in Trials
          /\ trials[slots[r]].status = "running"
          /\ \A q \in DOMAIN slots : slots[q] = slots[r] => q = r
      BY <1>2, <1>5, <2>1 DEF IndInv, Rows, SlotsBoundTheTrials
    <3> QED
      BY <1>4, <1>5, <2>1, <3>1
  <2>2. ASSUME NEW u \in Live' PROVE \E r \in DOMAIN slots' : slots'[r] = u
    <3>1. PICK r \in DOMAIN slots : slots[r] = u
      BY <1>7 DEF IndInv, Rows, SlotsBoundTheTrials
    <3> QED
      BY <1>2, <1>5, <1>7, <3>1
  <2>3. Cardinality(Live') <= MaxConcurrent
    BY <1>7 DEF IndInv, Rows, SlotsBoundTheTrials
  <2> QED
    BY <2>1, <2>2, <2>3 DEF SlotsBoundTheTrials
<1>9. ResultOfLastAttempt'
  BY <1>3, <1>4 DEF ResultOfLastAttempt, IndInv, Rows
<1>10. Rows'
  <2>1. \A r \in DOMAIN slots' : slots'[r] \in Trials \cup {None}
    BY <1>5 DEF IndInv, Rows
  <2>2. work' \subseteq Evaluation /\ WorkIsPlaced'
    BY <1>1, <1>5 DEF IndInv, Rows, WorkIsPlaced
  <2> QED
    BY <1>4, <1>5, <1>8, <1>9, <2>1, <2>2 DEF IndInv, Rows
<1> QED
  BY <1>1, <1>2, <1>6, <1>10, TrialStep DEF IndInv, Processes

LEMMA Skips == ASSUME IndInv, NEW t \in Trials, Skip(t) PROVE IndInv'
<1>1. UNCHANGED <<study, trials, slots, job, nudged, proc, work>> /\ messages' \subseteq Trials
  BY DEF Skip, Receive, IndInv, Processes
<1>2. Rows' /\ Quiet
  BY <1>1, RowsStay DEF IndInv, Quiet
<1> QED
  BY <1>1, <1>2, TrialStep DEF IndInv, Processes, NothingUnborn

LEMMA WorkersDie == ASSUME IndInv, NEW e \in Evaluation, WorkerDies(e) PROVE IndInv'
<1>1. /\ UNCHANGED <<study, trials, slots, job, nudged, proc>>
      /\ messages' \subseteq Trials /\ work' \subseteq work
  BY DEF WorkerDies, IndInv, Processes, Evaluation
<1>2. Rows' /\ Quiet
  BY <1>1 DEF IndInv, Rows, WorkIsPlaced, SlotsBoundTheTrials, Live, ResultOfLastAttempt, Quiet
<1> QED
  BY <1>1, <1>2, TrialStep DEF IndInv, Processes, NothingUnborn

\* Slots and trials are only released: no trial runs that did not, none that runs
\* loses its slot, and what the slots still hold still runs.
LEMMA RowsReleased ==
    ASSUME Rows, trials' \in [Trials -> TrialRow], ResultOfLastAttempt',
           work' \subseteq work, DOMAIN slots' = DOMAIN slots, Live' \subseteq Live,
           \A s \in DOMAIN slots :
               /\ slots'[s] \in {slots[s], None}
               /\ slots'[s] # None => trials'[slots[s]].status = "running"
               /\ slots[s] \in Live' => slots'[s] = slots[s]
    PROVE  Rows'
<1>1. ASSUME NEW s \in DOMAIN slots', slots'[s] # None
      PROVE  /\ trials'[slots'[s]].status = "running"
             /\ \A r \in DOMAIN slots' : slots'[r] = slots'[s] => r = s
  <2>1. slots'[s] = slots[s] /\ slots[s] # None
    BY <1>1
  <2>2. \A r \in DOMAIN slots : slots[r] = slots[s] => r = s
    BY <2>1 DEF Rows, SlotsBoundTheTrials
  <2> QED
    BY <1>1, <2>1, <2>2
<1>2. ASSUME NEW t \in Live' PROVE \E s \in DOMAIN slots' : slots'[s] = t
  <2>1. PICK s \in DOMAIN slots : slots[s] = t
    BY DEF Rows, SlotsBoundTheTrials
  <2> QED
    BY <2>1
<1>3. Cardinality(Live') <= MaxConcurrent
  <2>1. Live \in SUBSET Trials /\ Live' \in SUBSET Live /\ Cardinality(Live) <= MaxConcurrent
    BY DEF Live, Rows, SlotsBoundTheTrials
  <2>2. /\ IsFiniteSet(Live) /\ Cardinality(Live) \in Nat /\ MaxConcurrent \in Nat
        /\ Cardinality(Live') \in Nat
    BY <2>1, TrialSets
  <2>3. Cardinality(Live') <= Cardinality(Live)
    BY <2>1, <2>2, FS_Subset
  <2> QED
    BY <2>1, <2>2, <2>3
<1>4. SlotsBoundTheTrials'
  BY <1>1, <1>2, <1>3 DEF SlotsBoundTheTrials
<1>5. \A s \in DOMAIN slots' : slots'[s] \in Trials \cup {None}
  BY DEF Rows
<1>6. work' \subseteq Evaluation /\ WorkIsPlaced'
  BY DEF Rows, WorkIsPlaced
<1> QED
  BY <1>4, <1>5, <1>6 DEF Rows

LEMMA LeasesExpire == ASSUME IndInv, NEW t \in Trials, LeaseExpires(t) PROVE IndInv'
<1> DEFINE row == [trials[t] EXCEPT !.lease = "expired"]
<1>1. /\ UNCHANGED <<study, slots, job, nudged, messages, proc, work>>
      /\ trials' = [trials EXCEPT ![t] = row]
      /\ trials[t].status = "running" /\ trials[t] \in TrialRow
  BY DEF LeaseExpires, Live, IndInv, Rows
<1>2. /\ row \in TrialRow /\ row.status = "running" /\ row.lease = "expired"
      /\ row.attempts = trials[t].attempts
  BY <1>1 DEF TrialRow
<1> HIDE DEF row
<1>3. /\ trials' \in [Trials -> TrialRow] /\ trials'[t] = row
      /\ \A u \in Trials \ {t} : trials'[u] = trials[u]
  BY <1>1, <1>2 DEF IndInv, Rows
<1>4. Quiet /\ Live' \subseteq Live /\ ResultOfLastAttempt'
  BY <1>1, <1>2, <1>3 DEF Quiet, Live, ResultOfLastAttempt, IndInv, Rows
<1>5. \A s \in DOMAIN slots : slots[s] # None => trials'[slots[s]].status = "running"
  BY <1>2, <1>3 DEF IndInv, Rows, SlotsBoundTheTrials
<1>6. Rows'
  BY <1>1, <1>3, <1>4, <1>5, RowsReleased DEF IndInv
<1>7. \A u \in Trials : trials'[u].attempts = trials[u].attempts
  BY <1>2, <1>3
<1> QED
  BY <1>1, <1>4, <1>6, <1>7, TrialStep DEF IndInv, Processes, NothingUnborn

\* The row a held evaluation ends in: no longer running, with the result, if any,
\* of the attempt that is the trial's last.
LEMMA FinishedRow ==
    ASSUME IndInv, NEW e \in Evaluation, HoldsTrial(e), NEW outcome, NEW score \in Scores
    PROVE  LET row == FinishedTrial(e, outcome, score) IN
           /\ row \in TrialRow /\ row.status # "running"
           /\ row.attempts = trials[e.trial].attempts
           /\ row.status = "succeeded" => row.scoredBy = row.attempts
<1> DEFINE was == trials[e.trial]
           row == [was EXCEPT !.lease = "none"]
<1>1. was \in TrialRow /\ was.attempts = e.attempt
  BY DEF HoldsTrial, Evaluation, IndInv, Rows
<1> HIDE DEF was
<1>2. /\ row \in TrialRow /\ row.attempts = e.attempt
  BY <1>1 DEF TrialRow
<1> HIDE DEF row
<1>3. ASSUME NEW status \in {"cancelled", "queued", "failed"}
      PROVE  LET end == [row EXCEPT !.status = status] IN
             end \in TrialRow /\ end.status = status /\ end.attempts = row.attempts
  BY <1>2 DEF TrialRow, Ended
<1>4. LET end == [row EXCEPT !.status = "succeeded", !.score = score, !.scoredBy = e.attempt]
      IN  /\ end \in TrialRow /\ end.status = "succeeded" /\ end.attempts = row.attempts
          /\ end.scoredBy = e.attempt
  <2>1. e.attempt \in 0 .. MaxAttempts
    BY TrialSets DEF Evaluation
  <2> QED
    BY <1>2, <2>1 DEF TrialRow, Ended
<1>5. FinishedTrial(e, outcome, score) =
        IF study.cancel THEN [row EXCEPT !.status = "cancelled"]
        ELSE IF outcome = "result"
        THEN [row EXCEPT !.status = "succeeded", !.score = score, !.scoredBy = e.attempt]
        ELSE IF outcome = "process_start_failed" /\ row.attempts < MaxAttempts
        THEN [row EXCEPT !.status = "queued"]
        ELSE [row EXCEPT !.status = "failed"]
  BY DEF FinishedTrial, row, was
<1>6. row.attempts = trials[e.trial].attempts /\ row.attempts = e.attempt
  BY <1>1, <1>2 DEF was
<1> QED
  BY <1>3, <1>4, <1>5, <1>6

LEMMA Finishes == ASSUME IndInv, NEW e \in Evaluation, Finish(e) PROVE IndInv'
<1>1. UNCHANGED <<study, job, proc>> /\ work' = work \ {e} /\ e \in work
  BY DEF Finish
<1>2. CASE ~(HoldsTrial(e) /\ HoldsSlot(e))
  <2>1. UNCHANGED <<trials, slots, messages, nudged>>
    BY <1>2 DEF Finish
  <2>2. Rows' /\ Quiet
    BY <1>1, <2>1 DEF IndInv, Rows, WorkIsPlaced, SlotsBoundTheTrials, Live,
                      ResultOfLastAttempt, Quiet
  <2> QED
    BY <1>1, <2>1, <2>2, TrialStep DEF IndInv, Processes, NothingUnborn
<1>3. CASE HoldsTrial(e) /\ HoldsSlot(e)
  <2>1. PICK outcome \in Outcomes, score \in Scores :
          /\ trials' = [trials EXCEPT ![e.trial] = FinishedTrial(e, outcome, score)]
          /\ messages' = IF FinishedTrial(e, outcome, score).status = "queued"
                         THEN messages \cup {e.trial} ELSE messages
          /\ slots' = [slots EXCEPT ![e.slot] = None]
          /\ (nudged' = TRUE /\ UNCHANGED spent) \/ (UNCHANGED nudged /\ Disturbed)
    BY <1>3 DEF Finish
  <2> DEFINE row == FinishedTrial(e, outcome, score)
             t == e.trial
             s == e.slot
  <2>2. /\ row \in TrialRow /\ row.status # "running" /\ row.attempts = trials[t].attempts
        /\ row.status = "succeeded" => row.scoredBy = row.attempts
    BY <1>3, FinishedRow
  <2>3. /\ t \in Trials /\ s \in DOMAIN slots /\ slots[s] = t /\ trials[t].status = "running"
    BY <1>1, <1>3 DEF Evaluation, HoldsSlot, HoldsTrial, IndInv, Rows, WorkIsPlaced
  <2>4. /\ trials' = [trials EXCEPT ![t] = row] /\ slots' = [slots EXCEPT ![s] = None]
        /\ messages' \subseteq messages \cup {t}
        /\ nudged' = TRUE \/ nudged' = nudged
    BY <2>1
  <2> HIDE DEF row, t, s
  <2>5. /\ trials' \in [Trials -> TrialRow] /\ trials'[t] = row
        /\ \A u \in Trials \ {t} : trials'[u] = trials[u]
    BY <2>2, <2>3, <2>4 DEF IndInv, Rows
  <2>6. /\ DOMAIN slots' = DOMAIN slots /\ slots'[s] = None
        /\ \A r \in DOMAIN slots \ {s} : slots'[r] = slots[r]
    BY <2>3, <2>4
  <2>7. Quiet /\ Live' \subseteq Live /\ t \notin Live'
    BY <2>2, <2>3, <2>5 DEF Quiet, Live
  <2>8. ResultOfLastAttempt'
    BY <2>2, <2>5 DEF ResultOfLastAttempt, IndInv, Rows
  <2>9. ASSUME NEW r \in DOMAIN slots
        PROVE  /\ slots'[r] \in {slots[r], None}
               /\ slots'[r] # None => trials'[slots[r]].status = "running"
               /\ slots[r] \in Live' => slots'[r] = slots[r]
    <3>1. CASE r = s
      BY <2>3, <2>6, <2>7, <3>1
    <3>2. CASE r # s
      <4>1. slots'[r] = slots[r] /\ slots[r] # t /\ slots[r] \in Trials \cup {None}
        BY <2>3, <2>6, <3>2, TrialSets DEF IndInv, Rows, SlotsBoundTheTrials
      <4>2. slots[r] # None => trials[slots[r]].status = "running"
        BY DEF IndInv, Rows, SlotsBoundTheTrials
      <4> QED
        BY <2>5, <4>1, <4>2
    <3> QED
      BY <3>1, <3>2
  <2>10. Rows'
    BY <1>1, <2>5, <2>6, <2>7, <2>8, <2>9, RowsReleased DEF IndInv
  <2>11. \A u \in Trials : trials'[u].attempts = trials[u].attempts
    BY <2>2, <2>5
  <2>12. study.status # "absent"
    BY <2>3 DEF IndInv, NothingUnborn, NoTrials, NoTrial
  <2> QED
    BY <1>1, <2>3, <2>4, <2>7, <2>10, <2>11, <2>12, TrialStep DEF IndInv, Processes
<1> QED
  BY <1>2, <1>3

LEMMA Repairs == ASSUME IndInv, Repair PROVE IndInv'
<1>1. /\ slots' = ReclaimedSlots /\ trials' = ReleasedTrials
      /\ UNCHANGED <<study, job, messages, proc, work>>
      /\ \/ study.status \in {"queued", "running"} /\ nudged' = TRUE
         \/ nudged' = nudged
  BY DEF Repair
<1>2. ASSUME NEW t \in Trials
      PROVE  /\ trials'[t] \in TrialRow /\ trials'[t].attempts = trials[t].attempts
             /\ ~Lapsed(t) => trials'[t] = trials[t]
             /\ Lapsed(t) => trials'[t].status \in {"queued", "failed"}
  <2> DEFINE queued == [trials[t] EXCEPT !.status = "queued", !.lease = "none"]
             failed == [trials[t] EXCEPT !.status = "failed", !.lease = "none"]
  <2>1. trials[t] \in TrialRow
    BY DEF IndInv, Rows
  <2>2. /\ queued \in TrialRow /\ queued.attempts = trials[t].attempts
        /\ queued.status = "queued"
    BY <2>1 DEF TrialRow
  <2>3. /\ failed \in TrialRow /\ failed.attempts = trials[t].attempts
        /\ failed.status = "failed"
    BY <2>1 DEF TrialRow, Ended
  <2>4. trials'[t] = IF ~Lapsed(t) THEN trials[t]
                     ELSE IF trials[t].attempts < MaxAttempts THEN queued ELSE failed
    BY <1>1 DEF ReleasedTrials
  <2> HIDE DEF queued, failed
  <2> QED
    BY <2>1, <2>2, <2>3, <2>4
<1>3. trials' \in [Trials -> TrialRow]
  <2>1. trials' = [t \in Trials |-> trials'[t]]
    BY <1>1 DEF ReleasedTrials
  <2> QED
    BY <1>2, <2>1
<1>4. /\ DOMAIN slots' = DOMAIN slots
      /\ \A s \in DOMAIN slots :
           slots'[s] = IF slots[s] # None /\ Lapsed(slots[s]) THEN None ELSE slots[s]
  BY <1>1 DEF ReclaimedSlots
<1>5. Quiet /\ Live' \subseteq Live /\ \A t \in Live' : ~Lapsed(t)
  BY <1>2 DEF Quiet, Lapsed, Live
<1>6. ResultOfLastAttempt'
  BY <1>2 DEF ResultOfLastAttempt, IndInv, Rows
<1>7. ASSUME NEW s \in DOMAIN slots
      PROVE  /\ slots'[s] \in {slots[s], None}
             /\ slots'[s] # None => trials'[slots[s]].status = "running"
             /\ slots[s] \in Live' => slots'[s] = slots[s]
  <2>1. slots[s] # None => slots[s] \in Trials /\ trials[slots[s]].status = "running"
    BY DEF IndInv, Rows, SlotsBoundTheTrials
  <2> QED
    BY <1>2, <1>4, <1>5, <2>1
<1>8. Rows'
  BY <1>1, <1>3, <1>4, <1>5, <1>6, <1>7, RowsReleased DEF IndInv
<1>9. nudged' \in BOOLEAN /\ messages' \subseteq Trials
  BY <1>1 DEF IndInv, Processes
<1>10. study.status = "absent" => ~nudged'
  BY <1>1 DEF IndInv, NothingUnborn
<1>11. \A t \in Trials : trials'[t].attempts = trials[t].attempts
  BY <1>2
<1> QED
  BY <1>1, <1>5, <1>8, <1>9, <1>10, <1>11, TrialStep

-----------------------------------------------------------------------------
(* Time and the training job keep the invariant *)

LEMMA DeadlinesPass == ASSUME IndInv, DeadlinePasses PROVE IndInv'
<1> USE DEF IndInv
<1>1. /\ UNCHANGED <<trials, slots, job, nudged, messages, proc, work>>
      /\ study.deadline = "ahead" /\ study' = [study EXCEPT !.deadline = "passed"]
  BY DEF DeadlinePasses
<1>2. /\ study' \in StudyRow /\ study'.status = study.status /\ study'.cancel = study.cancel
      /\ study'.register = study.register /\ study'.deadline = "passed"
      /\ study'.best = study.best /\ study'.linked = study.linked
  BY <1>1 DEF Study, StudyRow
<1>3. study.status \notin {"absent", "queued"}
  BY <1>1 DEF Study, NoEarlyDeadline
<1>4. Lasts /\ Agrees(study, study')
  BY <1>1, <1>2 DEF Lasts, Agrees
<1>5. Processes'
  BY <1>1, <1>4, ProcsStay DEF Processes
<1>6. Study'
  <2>1. CancelWins' /\ NoEarlyDeadline' /\ EndIsEarned'
    BY <1>1, <1>2, <1>3 DEF Study, CancelWins, NoEarlyDeadline, EndIsEarned
  <2>2. BestIsChampion' /\ JobIsChampions'
    BY <1>1, <1>2 DEF Study, BestIsChampion, JobIsChampions
  <2> QED
    BY <1>1, <1>2, <2>1, <2>2 DEF Study
<1> QED
  BY <1>1, <1>2, <1>3, <1>5, <1>6, RowsStay DEF NothingUnborn

LEMMA JobsEnd == ASSUME IndInv, JobEnds PROVE IndInv'
<1> USE DEF IndInv
<1>1. /\ UNCHANGED <<study, trials, slots, nudged, messages, proc, work>>
      /\ job.status = "active"
  BY DEF JobEnds
<1>2. PICK status \in {"succeeded", "failed"} : job' = [job EXCEPT !.status = status]
  BY DEF JobEnds
<1>3. /\ job' \in [status : {"absent", "active", "succeeded", "failed"},
                   trial : Trials \cup {None}]
      /\ job'.trial = job.trial
  BY <1>2 DEF Study
<1>4. Lasts /\ Agrees(study, study')
  BY <1>1, SameRowsLast
<1>5. Processes'
  BY <1>1, <1>4, ProcsStay DEF Processes
<1>6. Study'
  <2>1. CancelWins' /\ NoEarlyDeadline' /\ EndIsEarned'
    BY <1>1 DEF Study, CancelWins, NoEarlyDeadline, EndIsEarned
  <2>2. BestIsChampion' /\ JobIsChampions'
    BY <1>1, <1>3 DEF Study, BestIsChampion, JobIsChampions
  <2> QED
    BY <1>1, <1>3, <2>1, <2>2 DEF Study
<1> QED
  BY <1>1, <1>5, <1>6, RowsStay DEF NothingUnborn

-----------------------------------------------------------------------------
(* The theorem *)

LEMMA InitHolds == Init => IndInv
<1> SUFFICES ASSUME Init PROVE IndInv
  OBVIOUS
<1> USE DEF Init
<1>1. \A t \in Trials : trials[t] = NoTrial
  BY DEF NoTrials
<1>2. NoTrial \in TrialRow /\ NoTrial.status = "absent"
  BY TrialSets DEF NoTrial, TrialRow
<1>3. DOMAIN slots = {} /\ Live = {}
  BY <1>1, <1>2 DEF Live
<1>4. SlotsBoundTheTrials
  BY <1>3, FS_EmptySet, TrialSets DEF SlotsBoundTheTrials
<1>5. Rows
  BY <1>1, <1>2, <1>3, <1>4 DEF Rows, NoTrials, WorkIsPlaced, ResultOfLastAttempt
<1>6. Study
  BY DEF Study, StudyRow, NoStudy, CancelWins, BestIsChampion, JobIsChampions,
         NoEarlyDeadline, EndIsEarned
<1>7. Processes
  BY IdleKnows DEF Processes, ProcsKnow
<1> QED
  BY <1>5, <1>6, <1>7 DEF IndInv, NothingUnborn

LEMMA StepHolds == IndInv /\ [Next]_vars => IndInv'
<1> SUFFICES ASSUME IndInv, [Next]_vars PROVE IndInv'
  OBVIOUS
<1>1. ASSUME NEW u \in Clients, create_study(u) \/ cancel_study(u) \/ CommitCancel(u)
      PROVE  IndInv'
  BY <1>1, CreateStudy, CancelStudy, CommitsCancel DEF Procs
<1>2. ASSUME NEW c \in Coordinators, CoordinatorStep(c) PROVE IndInv'
  <2>1. c \in Procs
    BY DEF Procs
  <2> QED
    BY <1>2, <2>1, Coordinates, StartsStudy, InitializesSlots, FinalizesCancellation,
       ListsTrials, Relists, Materializes, EnqueuesTrial, MarksDispatched, SetsBest, Succeeds,
       FailsStudy, EndsHandoff, SubmitsChampion, LinksChampion DEF CoordinatorStep
<1>3. ASSUME NEW c \in Coordinators, MaterializationFails(c) \/ CoordinatorDies(c)
      PROVE  IndInv'
  BY <1>3, FailsToMaterialize, Dies DEF Procs
<1>4. ASSUME NEW t \in Trials, Skip(t) \/ Claim(t) \/ ClaimInvalid(t) \/ LeaseExpires(t)
      PROVE  IndInv'
  BY <1>4, Skips, Claims, ClaimsInvalid, LeasesExpire
<1>5. ASSUME NEW e \in Evaluation, Finish(e) \/ WorkerDies(e) PROVE IndInv'
  BY <1>5, Finishes, WorkersDie
<1>6. CASE set_study_queue_identifier \/ Repair \/ DeadlinePasses \/ JobEnds
  BY <1>6, SetIdentifier, Repairs, DeadlinesPass, JobsEnd
<1>7. CASE UNCHANGED vars
  <2>1. UNCHANGED <<study, job, proc, nudged, messages, trials, slots, work>>
    BY <1>7 DEF vars
  <2>2. Rows' /\ Quiet
    BY <2>1, RowsStay DEF IndInv, Quiet
  <2> QED
    BY <2>1, <2>2, TrialStep DEF IndInv, Processes, NothingUnborn
<1> QED
  BY <1>1, <1>2, <1>3, <1>4, <1>5, <1>6, <1>7 DEF Next

\* The named parts of StudyIsSound follow from the invariant.
LEMMA InvariantIsSound == IndInv => StudyIsSound
<1> SUFFICES ASSUME IndInv PROVE StudyIsSound
  OBVIOUS
<1>1. TypeOK
  BY DEF IndInv, Rows, Study, Processes, TypeOK
<1>2. EndsWithItsBest
  <2>1. ASSUME study.status = "succeeded"
        PROVE  /\ AllEnded(trials) /\ study.best \in Succeeded(trials)
               /\ \A t \in Succeeded(trials) : trials[t].score <= trials[study.best].score
               /\ study.register => job = [status |-> "succeeded", trial |-> study.best]
    <3>1. /\ AllEnded(trials) /\ study.best \in Champions(trials)
          /\ study.register => job.status = "succeeded" /\ job.trial = study.best
      BY <2>1 DEF IndInv, Study, EndIsEarned, BestIsChampion, JobIsChampions, Done
    <3>2. ASSUME NEW t \in Succeeded(trials)
          PROVE trials[t].score <= trials[study.best].score
      <4>1. /\ trials[t].score \in Scores \cup {0}
            /\ trials[study.best].score \in Scores \cup {0}
        BY <3>1, StatusOfRow DEF Champions, Succeeded, With, IndInv, Rows
      <4>2. trials[t].score \in Nat /\ trials[study.best].score \in Nat
        <5>1. \A x \in Scores \cup {0} : x \in Nat
          BY AutoMLConstants
        <5> QED
          BY <4>1, <5>1
      <4>3. \/ trials[study.best].score > trials[t].score
            \/ trials[study.best].score = trials[t].score
        BY <3>1 DEF Champions
      <4> QED
        BY <4>2, <4>3
    <3>3. study.register => job = [status |-> "succeeded", trial |-> study.best]
      <4>1. job \in [status : {"absent", "active", "succeeded", "failed"},
                     trial : Trials \cup {None}]
        BY DEF IndInv, Study
      <4> QED
        BY <3>1, <4>1
    <3> QED
      BY <3>1, <3>2, <3>3 DEF Champions
  <2>2. study.status = "failed" => AllEnded(trials) \/ NoneStarted(trials)
    BY DEF IndInv, Study, EndIsEarned, Done
  <2> QED
    BY <2>1, <2>2 DEF EndsWithItsBest
<1> QED
  BY <1>1, <1>2 DEF IndInv, Rows, Study, StudyIsSound

\* The invariant of the study, its rows and everything that works on them: what a
\* request, a coordination or a worker acts on is what the rows still allow.
THEOREM Invariance == Spec => []IndInv
BY InitHolds, StepHolds, PTL DEF Spec

\* StudyIsSound (claim_trial_and_slot, release_slot, request_study_cancellation,
\* _finalize, _handoff): however many coordinations and workers there are, a study
\* runs no more trials than it may, each in a slot of its own, believes no late
\* result, is not revived after a cancellation, and ends with its best trial.
THEOREM StudySoundness == Spec => []StudyIsSound
BY Invariance, InvariantIsSound, PTL

=============================================================================
