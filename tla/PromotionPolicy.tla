-------------------------- MODULE PromotionPolicy --------------------------
(***************************************************************************)
(* The promotion policies of ml/promotion/policy.py as pure operators.     *)
(*                                                                         *)
(* Metrics are fractions of Scale, so that the floating-point division of  *)
(* the regression policy becomes a comparison of products.  A metric that  *)
(* is absent or not finite is Missing.  Evidence is the metrics snapshot   *)
(* of a succeeded job, NoIncumbent the absence of a current holder.        *)
(***************************************************************************)
EXTENDS Integers

CONSTANTS
    Scale,                  \* the denominator of every fraction
    MinimumR2,              \* promotion_minimum_r2
    MinimumRmseImprovement, \* relative
    MinimumAccuracy,
    MinimumF1Improvement,   \* absolute
    Missing,                \* a metric that is absent or not finite
    NoIncumbent             \* the alias has no holder

ASSUME ScaleAssumption == Scale \in Nat \ {0}
\* The constructors of both policies refuse other settings.
ASSUME SettingsAssumption ==
    /\ MinimumR2 \in Int
    /\ MinimumRmseImprovement \in 0 .. Scale
    /\ MinimumAccuracy \in 0 .. Scale
    /\ MinimumF1Improvement \in 0 .. Scale
ASSUME MissingAssumption == Missing \notin Int

-----------------------------------------------------------------------------
(* RegressionPromotionPolicy: lower RMSE is better, R2 is a safeguard *)

RegressionMetrics == [rmse : Int \cup {Missing}, r2 : Int \cup {Missing}]

ValidRmse(e) == e.rmse # Missing /\ e.rmse >= 0

PassesR2(e) == e.r2 # Missing /\ e.r2 >= MinimumR2

ImprovesByProduct(candidate, incumbent) ==
    (incumbent - candidate) * Scale >= MinimumRmseImprovement * incumbent

\* (incumbent - candidate) / incumbent against the configured minimum; an
\* incumbent without error is matched, not improved, by another one.
ImprovesRmse(candidate, incumbent) ==
    IF incumbent = 0
    THEN candidate = 0 /\ MinimumRmseImprovement = 0
    ELSE (incumbent - candidate) * Scale >= MinimumRmseImprovement * incumbent

RegressionAccepts(candidate, incumbent) ==
    /\ ValidRmse(candidate)
    /\ PassesR2(candidate)
    /\ incumbent # NoIncumbent =>
         /\ ValidRmse(incumbent)
         /\ ImprovesRmse(candidate.rmse, incumbent.rmse)

-----------------------------------------------------------------------------
(* ClassificationPromotionPolicy: higher macro-F1 is better *)

ClassificationMetrics == [f1 : Int \cup {Missing}, accuracy : Int \cup {Missing}]

\* _bounded_metric
Bounded(m) == m # Missing /\ 0 <= m /\ m <= Scale

ClassificationTolerates(candidate, incumbent) ==
    /\ Bounded(candidate.f1)
    /\ Bounded(candidate.accuracy) /\ candidate.accuracy >= MinimumAccuracy
    /\ incumbent # NoIncumbent =>
         /\ Bounded(incumbent.f1)
         /\ candidate.f1 + MinimumF1Improvement >= incumbent.f1

ClassificationAccepts(candidate, incumbent) ==
    /\ Bounded(candidate.f1)
    /\ Bounded(candidate.accuracy) /\ candidate.accuracy >= MinimumAccuracy
    /\ incumbent # NoIncumbent =>
         /\ Bounded(incumbent.f1)
         /\ candidate.f1 - incumbent.f1 >= MinimumF1Improvement

-----------------------------------------------------------------------------
(* Properties of three snapshots *)

\* Replacing a holder is progress: what beats a snapshot that beats a third
\* beats the third, so a chain of promotions is one promotion; and with a
\* positive minimum no two versions beat each other, so that promotions made
\* one after another cannot go round in circles.  The boundary is an incumbent
\* with no error at all.
RegressionOrder(a, b, c) ==
    /\ RegressionAccepts(a, b) /\ RegressionAccepts(b, c) => RegressionAccepts(a, c)
    /\ RegressionAccepts(a, b) /\ RegressionAccepts(b, a) => MinimumRmseImprovement = 0

\* The same of the classification policy and its absolute improvement.
ClassificationOrder(a, b, c) ==
    /\ ClassificationAccepts(a, b) /\ ClassificationAccepts(b, c)
          => ClassificationAccepts(a, c)
    /\ ClassificationAccepts(a, b) /\ ClassificationAccepts(b, a)
          => MinimumF1Improvement = 0
=============================================================================
