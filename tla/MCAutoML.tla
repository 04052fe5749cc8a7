------------------------------ MODULE MCAutoML ------------------------------
(* The instance of AutoML for TLC, in two scenes.  In the first a study of up to
   two trials has one coordination at a time and, under fairness, ends; in the
   second, without disturbances, two coordinations at once start a study of one
   trial, materialize, dispatch and end it against each other and one worker. *)
EXTENDS AutoML

CONSTANT c1     \* the coordination of the first scene

VARIABLE scene

MCInit == Init /\ scene \in {"one", "pair"}

\* In the first scene the second attempt of trial 1 has the lower score, the scores
\* of trial 2 are free, and a study without registration has one trial.
InScene ==
    \/ scene = "one" /\ (\A c \in Coordinators \ {c1} : proc'[c].pc = "idle")
       /\ (trials'[1].scoredBy = 2 => trials'[1].score = 1)
       /\ (study'.register \/ \A t \in Trials \ {1} : trials'[t].status = "absent")
    \/ scene = "pair" /\ (\A t \in Trials \ {1} : trials'[t].status = "absent")
       /\ Cardinality(work') <= 1 /\ UNCHANGED spent

MCNext == Next /\ InScene /\ UNCHANGED scene

\* Fairness of AutoML, for the first scene.
MCFairness ==
    /\ WF_vars(scene = "one" /\ CoordinatorStep(c1))
    /\ \A e \in Evaluation : WF_vars(scene = "one" /\ Finish(e))
    /\ WF_vars(scene = "one" /\ Repair)
    /\ WF_vars(scene = "one" /\ DeadlinePasses)
    /\ \A t \in Trials : WF_vars(scene = "one" /\ LeaseExpires(t))
    /\ WF_vars(scene = "one" /\ JobEnds)

MCSpec == MCInit /\ [][MCNext]_<<vars, scene>> /\ MCFairness

\* StudyEnds, of the first scene: every study that is created ends, although
\* messages are skipped or lost, workers and coordinations crash, and rows change
\* under them.
LoneStudyEnds == scene = "one" /\ study.status = "queued" ~> study.status \in Ended
=============================================================================
