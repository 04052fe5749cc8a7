-------------------------- MODULE MCDatasetVersions --------------------------
(* The instance of DatasetVersions for TLC, in three scenes: one upload with recovery
   and faults, which is settled under fairness; two uploads whose versions are
   processed in any order while the dataset is attached, detached and archived; and
   two uploads, of which the first is recovered late. *)
EXTENDS DatasetVersions

CONSTANTS u1, c1, w1     \* the upload that is stored first, its content, its worker

VARIABLE scene

MCInit == Init /\ scene \in {"recovery", "ordering", "late"}

\* Uploads, contents and idle workers are interchangeable.
InOrder ==
    /\ upload'[u1].content \in {c1, NoContent}
    /\ \A u \in Uploads \ {u1} :
         upload'[u].pc # "new" => scene # "recovery" /\ upload[u1].pc # "new"
    /\ \A w \in Workers \ {w1} :
         worker[w] = Idle /\ worker'[w] # Idle => worker[w1] # Idle

InScene ==
    /\ scene = "ordering" =>
         /\ UNCHANGED <<pass, faults>>
         /\ \A u \in Uploads : row'[u].enqueued # "old" /\ row'[u].started # "old"
    /\ scene = "late" =>
         /\ UNCHANGED <<attachment, faults>> /\ dataset'.status = "active"
         /\ \A u \in Uploads \ {u1} : row'[u].enqueued # "old"
         /\ \A u \in Uploads : messages'[u][1] = 0

MCNext == Next /\ InOrder /\ InScene /\ UNCHANGED scene

\* Fairness of DatasetVersions, in the scene of the recovery.
MCFairness ==
    /\ WF_vars(scene = "recovery" /\ Create(u1))
    /\ WF_vars(scene = "recovery" /\ Age(u1))
    /\ \A w \in Workers : WF_vars(scene = "recovery" /\ Process(w))
    /\ \A p \in Passes : WF_vars(scene = "recovery" /\ Reconcile(p))

MCSpec == MCInit /\ [][MCNext]_<<vars, scene>> /\ MCFairness

\* ClaimedSettles, in the scene of the recovery: a version that a worker ever took up
\* is settled in the end.
RecoveredSettles ==
    scene = "recovery" /\ row[u1].status = "processing" ~> row[u1].status \in Settled

\* A version stays unsettled for good only if something failed before a worker took
\* it up for the first time: then its code is null, and the recovery, which goes by
\* the codes of earlier attempts, passes it over.
OnlyUnheardStays ==
    \/ []<>(scene = "recovery" => row[u1].status \notin Unsettled)
    \/ <>[](row[u1].status = "pending" /\ row[u1].code = "null" /\ faults > 0)

\* Whatever fails, an upload that a worker ever took up is settled in the end, and
\* only one that nobody did can stay as it is.
VersionsEnd == RecoveredSettles /\ OnlyUnheardStays
=============================================================================
