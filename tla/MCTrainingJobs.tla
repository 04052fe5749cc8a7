--------------------------- MODULE MCTrainingJobs ---------------------------
(* The instance of TrainingJobs for TLC: the life of one job without a key, with
   all workers, recovery and faults; or requests that race to submit, while nothing
   executes.  Each behaviour is one of the two scenes. *)
EXTENDS TrainingJobs

CONSTANT c1      \* the call of the job that is executed

ASSUME InstanceAssumption == c1 \in Calls /\ IsFiniteSet(DemoCalls)

VARIABLES
    scene,
    counted     \* the demo jobs each submission counted against the quota

MCInit ==
    /\ Init
    /\ scene \in {"execution", "submission"}
    /\ counted = [c \in Calls |-> {}]
    /\ scene = "execution" =>
         \A c \in Calls : key[c] = NoKey /\ fingerprint[c] = CHOOSE f \in Fingerprints : TRUE

MCNext ==
    /\ \/ scene = "submission" /\ \E c \in Calls : Submit(c)
       \/ scene = "execution" /\ Submit(c1)
       \/ scene = "execution" /\ \E w \in Workers : Work(w)
       \/ scene = "execution" /\ \E p \in Reconcilers : Recover(p)
       \/ scene = "execution" /\ Environment
    /\ counted' = [c \in Calls |->
                     IF call[c] = "quota" /\ call'[c] = "create" THEN DemoJobs ELSE counted[c]]
    /\ UNCHANGED scene

\* Fairness of TrainingJobs, for the job that is executed.
MCFairness ==
    /\ WF_vars(scene = "execution" /\ Submit(c1))
    /\ \A w \in Workers : WF_vars(scene = "execution" /\ Work(w))
    /\ \A p \in Reconcilers : WF_vars(scene = "execution" /\ Recover(p))
    /\ WF_vars(scene = "execution" /\ Age(c1) /\ Stranded(c1))

MCSpec == MCInit /\ [][MCNext]_<<vars, scene, counted>> /\ MCFairness

\* The demo quota is exceeded only by a race: a job beyond the limits is created only
\* if another one was created since its submission counted.
QuotaRaceOnly ==
    [][\A c \in DemoCalls :
        /\ call[c] = "create" /\ call'[c] = "enqueue"
        /\ \/ Cardinality({j \in DemoJobs : row[j].status \notin Terminal}) >= MaxActive
           \/ Cardinality(DemoJobs) >= MaxPerDay
        => DemoJobs \ counted[c] # {}]_<<vars, counted>>

\* EveryJobEnds, of the job that is executed: whatever fails, a job whose submission
\* was recorded ends as succeeded, failed or cancelled.
ExecutedJobEnds ==
    scene = "execution" /\ row[c1].status # "absent" ~> row[c1].status \in Terminal
=============================================================================
