--------------------------- MODULE PredictionEvents ---------------------------
(***************************************************************************)
(* The prediction events behind the monitoring reports: their capture      *)
(* beside a prediction (ml/monitoring/capture.py), the observed outcomes   *)
(* that are attached to them (outcome_service.py,                          *)
(* repositories/prediction_outcomes.py), the performance summary and the   *)
(* retention of old events (retention.py, repositories/ai_monitoring.py).  *)
(*                                                                         *)
(* An event carries the time its prediction started, here a number; it is  *)
(* stored later, so events appear out of that order.  A stored event keeps *)
(* of a single-row classification the label that was predicted.            *)
(***************************************************************************)
EXTENDS Naturals, FiniteSets

CONSTANTS
    Calls,        \* concurrent requests: predictions and outcome submissions
    Keys,         \* external reference keys
    NoKey,
    Batch,        \* prediction_event_retention_batch_size
    MaxStarted    \* bound: predictions

VARIABLES
    started,   \* predictions that were started
    events,    \* prediction_events rows
    outcomes,  \* prediction_outcomes rows
    cutoff,    \* events that started before it are old enough to be deleted
    failures,  \* the process's count of capture failures
    lost,      \* predictions whose process died before it stored an event
    call       \* the local state of every request

vars == <<started, events, outcomes, cutoff, failures, lost, call>>

Labels == {0, 1}

Rest == [pc |-> "rest"]

Init ==
    /\ started = 0 /\ cutoff = 0 /\ failures = 0 /\ lost = 0
    /\ events = {} /\ outcomes = {}
    /\ call = [c \in Calls |-> Rest]

Set(c, record) == call' = [call EXCEPT ![c] = record]

EventAt(at) == {e \in events : e.at = at}

OutcomeOf(at) == {o \in outcomes : o.event = at}

WithKey(key) == {o \in outcomes : o.key = key /\ key # NoKey}

-----------------------------------------------------------------------------
(* Capture. *)

\* The model predicts one row or several, or fails; the attempt is over before
\* the event is stored.
Predict(c) ==
    /\ call[c].pc = "rest" /\ started < MaxStarted
    /\ \E kind \in [status : {"succeeded"}, rows : {1}, label : Labels]
                    \cup {[status |-> "succeeded", rows |-> 2, label |-> 0],
                          [status |-> "failed", rows |-> 1, label |-> 0]} :
         Set(c, [pc |-> "capture",
                 event |-> [at |-> started, status |-> kind.status, rows |-> kind.rows,
                            label |-> kind.label]])
    /\ started' = started + 1
    /\ UNCHANGED <<events, outcomes, cutoff, failures, lost>>

\* _record_success and _record_failure: the read of the reference profile and the
\* insert succeed ...
Record(c) ==
    /\ call[c].pc = "capture"
    /\ events' = events \cup {call[c].event}
    /\ Set(c, Rest)
    /\ UNCHANGED <<started, outcomes, cutoff, failures, lost>>

failuresUncounted == failures

\* record_persistence_failure
failuresCounted == failures + 1

\* ... or fail; the prediction is answered all the same.
RecordFails(c) ==
    /\ call[c].pc = "capture"
    /\ failures' = failuresCounted
    /\ Set(c, Rest)
    /\ UNCHANGED <<started, events, outcomes, cutoff, lost>>

\* The process dies; its count starts again at 0.
Restart ==
    /\ lost' = lost + failures + Cardinality({c \in Calls : call[c].pc = "capture"})
    /\ failures' = 0
    /\ call' = [c \in Calls |-> Rest]
    /\ UNCHANGED <<started, events, outcomes, cutoff>>

-----------------------------------------------------------------------------
(* Outcomes. *)

\* What an outcome asks of its event.
Labelled(event) == event.status = "succeeded" /\ event.rows = 1

\* upsert reads the event, its outcome and the outcome with the external key, and
\* refuses a key that another outcome holds.
ReadOutcome(c) ==
    /\ call[c].pc = "rest"
    /\ \E event \in events, key \in Keys \cup {NoKey}, actual \in Labels :
         /\ WithKey(key) \subseteq OutcomeOf(event.at)
         /\ Labelled(event)
         /\ Set(c, [pc |-> "upsert", exists |-> OutcomeOf(event.at) # {},
                    row |-> [event |-> event.at, key |-> key, actual |-> actual,
                             mature |-> FALSE]])
    /\ UNCHANGED <<started, events, outcomes, cutoff, failures, lost>>

AdmitsUnchecked(c) == TRUE

\* The unique event, the unique external key and the reference to the event.
Admits(c) ==
    /\ EventAt(call[c].row.event) # {}
    /\ call[c].exists \/ OutcomeOf(call[c].row.event) = {}
    /\ WithKey(call[c].row.key) \subseteq OutcomeOf(call[c].row.event)

\* create or update, and the commit.
StoreOutcome(c) ==
    /\ call[c].pc = "upsert"
    /\ outcomes' = IF Admits(c)
                   THEN (outcomes \ IF call[c].exists THEN OutcomeOf(call[c].row.event) ELSE {})
                        \cup {call[c].row}
                   ELSE outcomes
    /\ Set(c, Rest)
    /\ UNCHANGED <<started, events, cutoff, failures, lost>>

\* label_maturity_at passes.
Mature ==
    /\ \E o \in outcomes :
         ~o.mature /\ outcomes' = (outcomes \ {o}) \cup {[o EXCEPT !.mature = TRUE]}
    /\ UNCHANGED <<started, events, cutoff, failures, lost, call>>

\* The classification summary: mature outcomes joined with their events.
Confusion(predicted, actual) ==
    Cardinality({p \in outcomes \X events :
        /\ p[1].event = p[2].at /\ p[1].mature
        /\ p[2].label = predicted /\ p[1].actual = actual})

performance_summary ==
    [true_positive |-> Confusion(1, 1), true_negative |-> Confusion(0, 0),
     false_positive |-> Confusion(1, 0), false_negative |-> Confusion(0, 1)]

-----------------------------------------------------------------------------
(* Retention. *)

Age ==
    /\ cutoff < started /\ cutoff' = cutoff + 1
    /\ UNCHANGED <<started, events, outcomes, failures, lost, call>>

\* The oldest batch of events before the cutoff.
OldestBatch ==
    LET old == {e \in events : e.at < cutoff}
    IN {e \in old : Cardinality({f \in old : f.at < e.at}) < Batch}

SkipsLabelled(batch) == {e \in batch : OutcomeOf(e.at) = {}}

\* The outcomes restrict the deletion of their events: one of them in the batch
\* and the statement deletes nothing.
Deletes(batch) == IF \E e \in batch : OutcomeOf(e.at) # {} THEN {} ELSE batch

retain_prediction_events ==
    /\ OldestBatch # {}
    /\ events' = events \ Deletes(OldestBatch)
    /\ UNCHANGED <<started, outcomes, cutoff, failures, lost, call>>

-----------------------------------------------------------------------------

Next ==
    \/ Restart \/ Mature \/ Age \/ retain_prediction_events
    \/ \E c \in Calls : \/ Predict(c) \/ Record(c) \/ RecordFails(c)
                        \/ ReadOutcome(c) \/ StoreOutcome(c)

Spec == Init /\ [][Next]_vars

-----------------------------------------------------------------------------

\* However submissions for one event or with one key, retention and late captures
\* overlap, the performance summary counts each mature outcome once, for the
\* single prediction it was observed for.
EachOutcomeCountsOnce ==
    /\ LET s == performance_summary
       IN s.true_positive + s.true_negative + s.false_positive + s.false_negative
          = Cardinality({o \in outcomes : o.mature})
    /\ \A o, p \in outcomes : o # p => o.event # p.event /\ (o.key # p.key \/ o.key = NoKey)
    /\ \A o \in outcomes : \E e \in events : e.at = o.event /\ Labelled(e)

\* A prediction leaves an event, a counted failure, or died with its process:
\* none is dropped silently, in whatever order the captures end.
AttemptsAreAccounted ==
    \E deleted \in 0 .. started :
        /\ started = Cardinality(events) + failures + lost + deleted
                     + Cardinality({c \in Calls : call[c].pc = "capture"})
        /\ deleted <= cutoff

\* Retention stops at an outcome for good: once one of the oldest batch has an
\* outcome, and no older capture is under way, no event is deleted any more.
Stopped ==
    \E e \in OldestBatch :
        /\ OutcomeOf(e.at) # {}
        /\ \A c \in Calls : call[c].pc = "capture" => call[c].event.at > e.at

RetentionStopsForGood == [][Stopped => Stopped' /\ events \subseteq events']_vars
=============================================================================
