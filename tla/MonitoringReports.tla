--------------------------- MODULE MonitoringReports ---------------------------
(***************************************************************************)
(* From the prediction events of a window to the statuses of an evaluation *)
(* and the alert conditions it raises: the profiles stored with an event   *)
(* (ml/monitoring/profiles.py), the drift engine (drift.py), the reports   *)
(* (service.py) and their summary (evaluation_service.py,                  *)
(* alert_service.py).                                                      *)
(*                                                                         *)
(* A reading is a natural number, NaN or Infinite.  An event holds the     *)
(* columns of its feature matrix and its predictions as sequences of       *)
(* readings, and whether the reference profile existed when it was         *)
(* captured.  Rates and distances are in thousandths; means, deviations,   *)
(* quantiles and latencies decide nothing and are left out.                *)
(***************************************************************************)
EXTENDS Integers, Sequences, FiniteSets, FiniteSetsExt, Functions, SequencesExt

CONSTANTS
    Psi(_, _),     \* population_stability_index of two histograms, thousandths
    Warning,       \* drift_psi_warning_threshold
    Critical,      \* drift_psi_critical_threshold
    RateWarning,   \* drift_missing_rate_ and drift_out_of_range_warning_threshold
    FailureWarning,    \* monitoring_failure_rate_warning_threshold
    FailureCritical,   \* monitoring_failure_rate_critical_threshold
    Minimum,       \* monitoring_min_sample_count
    MaxEvents,     \* monitoring_max_events_per_window
    MaxLabels      \* MAX_PERSISTED_CLASS_LABELS

ReportConstants == {Minimum, MaxEvents, MaxLabels} \subseteq Nat \ {0}

NaN == -1
Infinite == -2
Finite(v) == v >= 0

\* numerator / denominator >= threshold / 1000
AtLeast(numerator, denominator, threshold) == numerator * 1000 >= threshold * denominator

-----------------------------------------------------------------------------
(* Profiles. *)

NumericSummary(values) ==
    LET finite == {i \in DOMAIN values : Finite(values[i])}
    IN [count |-> Len(values),
        missing |-> Cardinality({i \in DOMAIN values : values[i] = NaN}),
        finite |-> Cardinality(finite),
        constant |-> finite # {} /\ \A i, j \in finite : values[i] = values[j]]

\* Bins bounded by the edges alone.
HistogramWithoutTails(values, edges) ==
    [b \in 1 .. (Len(edges) - 1) |->
        Cardinality({i \in DOMAIN values :
            Finite(values[i]) /\ edges[b] <= values[i] /\ values[i] < edges[b + 1]})]

\* Fixed edges with an underflow and an overflow bin.
HistogramCounts(values, edges) ==
    [b \in 1 .. (Len(edges) + 1) |->
        Cardinality({i \in DOMAIN values :
            /\ Finite(values[i])
            /\ b > 1 => edges[b - 1] <= values[i]
            /\ b <= Len(edges) => values[i] < edges[b]})]

\* The reference of one numeric column; it needs a finite value.
NumericReference(values, edges) ==
    LET finite == {values[i] : i \in {k \in DOMAIN values : Finite(values[k])}}
    IN [edges |-> edges, bins |-> HistogramCounts(values, edges),
        summary |-> NumericSummary(values), minimum |-> Min(finite), maximum |-> Max(finite)]

\* A profile of a column, or of regression predictions: the histogram is empty
\* when there was no reference to take the edges from.
ColumnProfile(values, reference, profiled) ==
    [summary |-> NumericSummary(values),
     bins |-> IF profiled THEN HistogramCounts(values, reference.edges) ELSE <<>>,
     outside |-> IF profiled
                 THEN Cardinality({i \in DOMAIN values : Finite(values[i])
                         /\ (values[i] < reference.minimum \/ values[i] > reference.maximum)})
                 ELSE 0]

CountOf(label, labels) == Cardinality({i \in DOMAIN labels : labels[i] = label})

\* The most frequent labels keep their counts, the smaller label first on a tie.
ClassificationProfile(labels) ==
    LET before(a, b) == \/ CountOf(a, labels) > CountOf(b, labels)
                        \/ CountOf(a, labels) = CountOf(b, labels) /\ a < b
        retained == {a \in ToSet(labels) :
                        Cardinality({b \in ToSet(labels) : before(b, a)}) < MaxLabels}
    IN [count |-> Len(labels),
        classes |-> [a \in retained |-> CountOf(a, labels)],
        other |-> SumFunction([a \in ToSet(labels) \ retained |-> CountOf(a, labels)])]

-----------------------------------------------------------------------------
(* Drift. *)

Severity(value) ==
    IF value >= Critical THEN "critical" ELSE IF value >= Warning THEN "warning" ELSE "stable"

max_severity(first, second) ==
    LET order == [insufficient_data |-> 0, stable |-> 1, warning |-> 2, critical |-> 3]
    IN IF order[first] >= order[second] THEN first ELSE second

\* The histograms of the profiles of some events, bin by bin.
AddBins(profiles, reference) ==
    [b \in DOMAIN reference.bins |->
        SumFunction([i \in DOMAIN profiles |->
                        IF profiles[i].bins = <<>> THEN 0 ELSE profiles[i].bins[b]])]

Total(field(_), profiles) == SumFunction([i \in DOMAIN profiles |-> field(profiles[i])])

\* The counts of the summaries together; moments and extremes decide nothing here.
combine_numeric_summaries(profiles) ==
    [count |-> Total(LAMBDA p : p.summary.count, profiles),
     finite |-> Total(LAMBDA p : p.summary.finite, profiles)]

NotComparedByCount(profiles, finite) == finite < Minimum

\* The comparison is given up when a profile has no histogram or the finite
\* values are too few.
NotCompared(profiles, finite) ==
    \/ \E i \in DOMAIN profiles : profiles[i].bins = <<>>
    \/ finite < Minimum

MissingRateMoved(missing, count, reference) ==
    LET difference == missing * reference.summary.count - reference.summary.missing * count
        distance == IF difference < 0 THEN -difference ELSE difference
    IN count > 0 /\ AtLeast(distance, count * reference.summary.count, RateWarning)

LastMissing(profiles) == profiles[Max(DOMAIN profiles)].summary.missing

MissingValues(profiles) == Total(LAMBDA p : p.summary.missing, profiles)

\* profiles: of one feature, for each successful event.
FeatureResult(profiles, reference) ==
    LET compared == Restrict(profiles, {i \in DOMAIN profiles : profiles[i].bins # <<>>})
        finite == combine_numeric_summaries(compared).finite
        psi == Severity(Psi(reference.bins, AddBins(compared, reference)))
        moved == MissingRateMoved(MissingValues(profiles),
                                  combine_numeric_summaries(profiles).count, reference)
        outside == AtLeast(Total(LAMBDA p : p.outside, profiles), finite, RateWarning)
    IN IF NotCompared(profiles, finite) THEN "insufficient_data"
       ELSE IF moved \/ outside THEN max_severity(psi, "warning") ELSE psi

RegressionPredictionResult(profiles, reference) ==
    IF NotCompared(profiles, combine_numeric_summaries(profiles).finite)
    THEN "insufficient_data"
    ELSE Severity(Psi(reference.bins, AddBins(profiles, reference)))

Held(profile, label) == IF label \in DOMAIN profile.classes THEN profile.classes[label] ELSE 0

\* Twice the total variation distance, times both counts, is a whole number.
ClassificationPredictionResult(profiles, reference) ==
    LET count == Total(LAMBDA p : p.count, profiles)
        labels == DOMAIN reference.classes \cup UNION {DOMAIN profiles[i].classes : i \in DOMAIN profiles}
        apart(a, b) == LET d == a * count - b * reference.count IN IF d < 0 THEN -d ELSE d
        distance == SumFunction([l \in labels |->
                        apart(Held(reference, l), Total(LAMBDA p : Held(p, l), profiles))])
                    + apart(reference.other, Total(LAMBDA p : p.other, profiles))
    IN IF count < Minimum THEN "insufficient_data"
       ELSE Severity((distance * 1000) \div (2 * count * reference.count))

-----------------------------------------------------------------------------
(* Statuses. *)

AlertTypes ==
    {"critical_feature_drift", "critical_prediction_drift",
     "high_prediction_failure_rate", "missing_reference_profile",
     "insufficient_recent_prediction_data", "monitoring_evaluation_failure",
     "prediction_event_persistence_failure", "no_recent_predictions"}

drift_status(severity) == IF severity = "stable" THEN "healthy" ELSE severity

\* The first of these that a component reports.
derive_overall_status(statuses) ==
    LET order == <<"unavailable", "critical", "warning", "insufficient_data">>
        held == {i \in DOMAIN order : order[i] \in statuses}
    IN IF held = {} THEN "healthy" ELSE order[Min(held)]

operational_status(requests, failures) ==
    IF requests = 0 THEN "insufficient_data"
    ELSE IF AtLeast(failures, requests, FailureCritical) THEN "critical"
    ELSE IF AtLeast(failures, requests, FailureWarning) THEN "warning"
    ELSE "healthy"

\* Invalid shapes and values are critical, unusual ones a warning.
quality_status(events, references) ==
    LET profiles == [e \in DOMAIN events |->
            [i \in DOMAIN events[e].columns |->
                ColumnProfile(events[e].columns[i],
                              IF i \in DOMAIN references THEN references[i] ELSE references[1],
                              i \in DOMAIN references /\ events[e].profiled)]]
        cells == UNION {{<<e, i>> : i \in DOMAIN profiles[e]} : e \in DOMAIN events}
        sum(field(_)) == SumFunction([c \in cells |-> field(profiles[c[1]][c[2]])])
        finite == sum(LAMBDA p : p.summary.finite)
        invalid == \/ \E e \in DOMAIN events : Len(events[e].columns) # Len(references)
                   \/ \E e \in DOMAIN events : ToSet(events[e].columns) \subseteq {<<>>}
                   \/ sum(LAMBDA p : p.summary.count) > finite
        unusual == \/ \E c \in cells : profiles[c[1]][c[2]].summary.constant
                   \/ finite > 0 /\ AtLeast(sum(LAMBDA p : p.outside), finite, RateWarning)
    IN IF invalid THEN "critical" ELSE IF unusual THEN "warning" ELSE "healthy"

-----------------------------------------------------------------------------
(* Evaluations. *)

\* An evaluation of a window: its component statuses, whether there were
\* prediction attempts, and the capture failures of the reporting process.
Report(quality, feature, prediction, operational, attempts, failures) ==
    [error |-> "none", quality |-> quality, feature |-> feature,
     prediction |-> prediction, operational |-> operational,
     overall |-> derive_overall_status({quality, feature, prediction, operational}),
     attempts |-> attempts, captureFailures |-> failures]

unavailable(error) ==
    [error |-> error, quality |-> "unavailable", feature |-> "unavailable",
     prediction |-> "unavailable", operational |-> "unavailable",
     overall |-> "unavailable", attempts |-> FALSE, captureFailures |-> FALSE]

\* The events behind a report: the newest ones of the window, newest first.
list_window_events(window) == SubSeq(window, 1, Min({Len(window), MaxEvents}))

\* The counts of the operational summary are of the whole window.
aggregate_operations(window) ==
    [requests |-> Len(window),
     failures |-> Cardinality({e \in DOMAIN window : ~window[e].succeeded})]

\* The profiles of feature i, for each of the events; an event of fewer features has none.
FeatureProfiles(events, i, reference) ==
    [e \in DOMAIN events |->
        IF i \in DOMAIN events[e].columns
        THEN ColumnProfile(events[e].columns[i], reference, events[e].profiled)
        ELSE ColumnProfile(<<>>, reference, FALSE)]

PredictionProfiles(events, reference) ==
    [e \in DOMAIN events |->
        ColumnProfile(events[e].predictions, reference, events[e].profiled)]

\* detect: the severities over the successful events.
detect(events, features, predictions) ==
    LET successful == Restrict(events, {e \in DOMAIN events : events[e].succeeded})
    IN [features |-> {FeatureResult(FeatureProfiles(successful, i, features[i]), features[i]) :
                        i \in DOMAIN features},
        prediction |-> RegressionPredictionResult(
                        PredictionProfiles(successful, predictions), predictions)]

feature_status(severities) == derive_overall_status({drift_status(s) : s \in severities})

\* The evaluation of a regression model.
calculate(window, features, predictions, failures) ==
    LET events == list_window_events(window)
        operational == aggregate_operations(window)
        drift == detect(events, features, predictions)
    IN Report(quality_status(events, features),
              feature_status(drift.features), drift_status(drift.prediction),
              operational_status(operational.requests, operational.failures),
              operational.requests > 0, failures)

\* The alert types an evaluation detects.
conditions(report) ==
    LET when(c, type) == IF c THEN {type} ELSE {}
    IN when(report.feature = "critical", "critical_feature_drift")
       \cup when(report.prediction = "critical", "critical_prediction_drift")
       \cup when(report.operational = "critical", "high_prediction_failure_rate")
       \cup when(report.error = "missing_reference_profile", "missing_reference_profile")
       \cup when(report.error # "missing_reference_profile" /\ report.overall = "unavailable",
                 "monitoring_evaluation_failure")
       \cup when(report.overall = "insufficient_data", "insufficient_recent_prediction_data")
       \cup when(~report.attempts, "no_recent_predictions")
       \cup when(report.captureFailures, "prediction_event_persistence_failure")

\* The trigger with which an evaluation enters the retraining policy.
retraining_trigger(report) ==
    IF report.feature = "critical" THEN "feature_drift"
    ELSE IF report.prediction = "critical" THEN "prediction_drift"
    ELSE IF report.quality = "critical" THEN "data_quality"
    ELSE "none"
-----------------------------------------------------------------------------

\* Every finite reading falls into exactly one bin, on an edge, below and above
\* all of them: a comparison that is made never divides by an empty histogram.
EveryReadingIsBinned(values, edges) ==
    LET bins == HistogramCounts(values, edges)
    IN SumFunction(bins) = NumericSummary(values).finite

\* Drift is a property of the readings of a window: it does not change with the
\* requests the same rows arrived in.
SplitsAgree(first, second, reference) ==
    LET profile(values) == ColumnProfile(values, reference, TRUE)
    IN FeatureResult(<<profile(first), profile(second)>>, reference)
       = FeatureResult(<<profile(first \o second)>>, reference)

LabelSplitsAgree(first, second, reference) ==
    ClassificationPredictionResult(
        <<ClassificationProfile(first), ClassificationProfile(second)>>,
        ClassificationProfile(reference))
    = ClassificationPredictionResult(
        <<ClassificationProfile(first \o second)>>, ClassificationProfile(reference))

\* Trust first: a window is healthy only if every successful event of those that are
\* looked at was captured against the reference profile, and their finite readings of
\* every feature, and predictions, reach the configured sample minimum.
HealthyIsCompared(window, features, predictions) ==
    calculate(window, features, predictions, FALSE).overall = "healthy"
    => LET succeeded == {e \in DOMAIN window : e <= MaxEvents /\ window[e].succeeded}
           finite(values(_)) == SumFunction([e \in succeeded |->
                                                NumericSummary(values(window[e])).finite])
       IN /\ \A e \in succeeded : window[e].profiled
          /\ \A i \in DOMAIN features : finite(LAMBDA e : e.columns[i]) >= Minimum
          /\ finite(LAMBDA e : e.predictions) >= Minimum
=============================================================================
