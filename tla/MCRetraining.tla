---------------------------- MODULE MCRetraining ----------------------------
(* The instance of Retraining for TLC, in four scenes.  In the first a single
   evaluation requests the training, and under fairness the request ends; in the
   second two evaluations race for one request; in the third two evaluations count
   each other's requests while time passes and a worker synchronizes them. *)
EXTENDS Retraining

CONSTANTS e1, s1     \* the evaluation that begins first, and its scope

VARIABLE scene

MCInit == Init /\ scene \in {"one", "race", "quota", "revival"}

\* Evaluations and scopes are interchangeable, so the first to begin is e1, in s1.
InOrder ==
    /\ agent'[e1].scope \in {s1, NoScope}
    /\ \A e \in Evaluations \ {e1} :
         agent'[e].pc # "new" => scene # "one" /\ agent[e1].pc # "new"

\* With one scope neither mode nor windows matter, and of two those of the first.
InScene ==
    IF scene = "quota"
    THEN /\ faults' = faults
         /\ \A p \in Passes : agent'[p] = agent[p]
         /\ \A s \in Scopes \ {s1} : /\ ledger'[s].status \in {"absent", "queued"}
                                    /\ request'[s].windows \in {{}, Windows}
    ELSE /\ \A e \in Evaluations :
              /\ agent'[e].mode = "manual"
              /\ scene # "revival" \/ e = e1 => agent'[e].scope \in {s1, NoScope}
         /\ \A s \in Requested : request'[s].windows = Windows
         /\ scene = "revival" =>
              faults' = faults /\ \A s \in Scopes \ {s1} : ledger'[s].status \in {"absent", "queued"}

MCNext == Next /\ InOrder /\ InScene /\ UNCHANGED scene

\* Fairness of Retraining, for the agents of the scene.
MCFairness ==
    /\ \A a \in {e1} \cup Passes \cup Workers : WF_vars(scene = "one" /\ Act(a))
    /\ WF_vars(scene = "one" /\ JobMoves(s1))

MCSpec == MCInit /\ [][MCNext]_<<vars, scene>> /\ MCFairness

\* EveryRequestEnds, of the scene with one evaluation: every request ends for good,
\* also the one that a failed submission set back to pending after it had ended, and
\* the one whose worker died.
RequestedOnceEnds ==
    \A s \in Scopes :
        scene = "one" /\ request[s].status # "absent" ~> [](request[s].status \in Ended)
=============================================================================
