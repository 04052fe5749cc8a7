---------------------------- MODULE MCMonitoring ----------------------------
(* Instances of Monitoring for TLC, and beside them the algorithms of
   MonitoringReports on every small input: a behaviour is one of the system, or
   stays at one input. *)
EXTENDS ModelMonitoring, Integers, Sequences, FiniteSetsExt

\* The algorithms by themselves.
P == INSTANCE MonitoringReports

\* A distance between histograms that, like the index, is 0 for equal shares and
\* grows with the share that moved.
MCPsi(reference, current) ==
    LET total(bins) == MapThenSumSet(LAMBDA b : bins[b], DOMAIN bins)
        apart(b) == LET d == reference[b] * total(current) - current[b] * total(reference)
                    IN IF d < 0 THEN -d ELSE d
    IN IF total(current) = 0 THEN 0
       ELSE (MapThenSumSet(apart, DOMAIN reference) * 1000) \div (2 * total(reference) * total(current))

\* A report that raises nothing and one that raises two alerts and is a reason to
\* train again.
MCReports ==
    {P!Report("healthy", "healthy", "healthy", "healthy", TRUE, FALSE),
     P!Report("healthy", "critical", "critical", "healthy", TRUE, FALSE)}

CONSTANT c1    \* the process that begins first

\* A profile keeps the two labels of the inputs (the code keeps 100).
ASSUME ReportsAssumption == P!ReportConstants /\ MaxLabels >= 2

VARIABLE input

System == [kind |-> "system"]

Readings == {P!NaN, P!Infinite, 0, 1, 2, 3}

\* The reference that was profiled before: values 1 and 2 with bins split at 1 and 2.
Reference == P!NumericReference(<<1, 2>>, <<1, 2>>)

Rows == {<<1>>, <<1, 2>>, <<P!NaN>>, <<2, 0>>}

\* Events of a model with one feature.
EventsOf ==
    [succeeded : BOOLEAN, columns : {<<values>> : values \in Rows} \cup {<<>>},
     predictions : {<<1>>, <<1, 2>>, <<3>>}, profiled : BOOLEAN]

Inputs ==
    [kind : {"columns"}, first : P!SeqOf(Readings, 2), second : P!SeqOf(Readings, 2)]
    \cup [kind : {"labels"}, first : P!SeqOf({0, 1}, 3), second : P!SeqOf({0, 1}, 3)]
    \cup [kind : {"window"}, events : P!SeqOf(EventsOf, 2)]

MCInit == M!Init /\ input \in {System} \cup Inputs

\* Processes are interchangeable, so the first to begin is c1.
Untouched ==
    /\ evaluations = <<>> /\ spent = 0
    /\ \A w \in M!Windows : lock[w] = M!NoLock
    /\ \A c \in Callers : caller[c] = M!Idle

InOrder == Untouched => \A c \in Callers \ {c1} : caller'[c] = caller[c]

MCNext == input = System /\ M!Next /\ InOrder /\ UNCHANGED input

MCSpec == MCInit /\ [][MCNext]_<<M!vars, input>> /\ M!Fairness

\* EveryReadingIsBinned, SplitsAgree, LabelSplitsAgree and HealthyIsCompared of
\* MonitoringReports, for the inputs.
ReadingsAreBinned ==
    input.kind = "columns" =>
        /\ P!EveryReadingIsBinned(input.first \o input.second, <<1, 2>>)
        /\ P!EveryReadingIsBinned(input.first \o input.second, <<0, 2, 3>>)

DriftIgnoresBatches ==
    /\ input.kind = "columns" => P!SplitsAgree(input.first, input.second, Reference)
    /\ input.kind = "labels" => P!LabelSplitsAgree(input.first, input.second, <<0, 1, 1>>)

HealthyWindowsAreCompared ==
    input.kind = "window" => P!HealthyIsCompared(input.events, <<Reference>>, Reference)

\* Every evaluation comes to an end (evaluation_service.py).
EvaluationsEnd == M!EvaluationsEnd

\* What a report says does not hang on where a reading lies or how the events were
\* batched, and it calls healthy only what it compared.
ReportsAreSound == ReadingsAreBinned /\ DriftIgnoresBatches /\ HealthyWindowsAreCompared
=============================================================================
