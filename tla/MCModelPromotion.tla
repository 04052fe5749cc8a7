-------------------------- MODULE MCModelPromotion --------------------------
(* Instances of ModelPromotion for TLC, and beside them the promotion policies on
   every triple of small metrics snapshots: a behaviour is one of the system, or
   stays at one triple. *)
EXTENDS ModelPromotion

CONSTANTS
    Bound,          \* metrics are below this
    q1, v1          \* the request that begins first, and the version it is for

ASSUME BoundAssumption == Bound \in Nat

\* No snapshot is None.
ASSUME NoIncumbentAssumption == NoIncumbent \notin RegressionMetrics \cup ClassificationMetrics

VARIABLE input

\* RMSE snapshots that differ by more than the minimum improvement, or not at all.
MCEvidence == {[rmse |-> 8, r2 |-> 5], [rmse |-> 10, r2 |-> 5]}

System == [task |-> "system"]

Metric == (-1 .. Bound) \cup {Missing}

Triples(task, snapshots) == [task : {task}, a : snapshots, b : snapshots, c : snapshots]

Inputs == Triples("regression", [rmse : Metric, r2 : {0, 1, Missing}])
          \cup Triples("classification", [f1 : Metric, accuracy : {0, 1, Missing}])

\* Of versions with equal metrics, one pair is as good as another.
MCInit ==
    /\ Init
    /\ \E v \in Versions : metrics[v].rmse = 8
    /\ \/ input = System
       \/ input \in Inputs /\ \A v, w \in Versions : metrics[v] = metrics[w]

\* Requests and versions are interchangeable, so the first to begin is q1, for v1:
\* a symmetry that liveness allows.
InOrder ==
    /\ \A q \in Requests : step'[q] # "new" => q = q1 \/ step[q1] # "new"
    /\ request'[q1].version \in {v1, NoVersion}

MCNext == input = System /\ Next /\ InOrder /\ UNCHANGED input

MCSpec == MCInit /\ [][MCNext]_<<vars, input>> /\ Fairness

\* RegressionOrder holds of every triple, the zero and the invalid metrics
\* included.
RegressionOrdered == input.task = "regression" => RegressionOrder(input.a, input.b, input.c)

\* ClassificationOrder holds of every triple.
ClassificationOrdered ==
    input.task = "classification" => ClassificationOrder(input.a, input.b, input.c)

\* Both policies order the versions they compare: promotions are progress, and no two
\* versions replace each other for ever.
PoliciesAreOrdered == RegressionOrdered /\ ClassificationOrdered
=============================================================================
