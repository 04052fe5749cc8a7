---------------------------- MODULE MCOperations ----------------------------
(* Instances for TLC of Operations and, beside it, of the two modules on what
   predictions leave in the database: MachineAlerts and PredictionEvents.  The
   three share no row, so a behaviour is one of either. *)
EXTENDS Operations, TLC

CONSTANTS ada, omar, MaxVersion, MaxElapsed, Calls, Keys, NoKey, Batch, MaxStarted

ASSUME CallsAssumption == IsFiniteSet(Calls)

VARIABLES part, alert, alertDesk, elapsed, last,
          started, stored, outcomes, cutoff, failures, lost, call

alertVars == <<alert, alertDesk, elapsed, last>>
eventVars == <<started, stored, outcomes, cutoff, failures, lost, call>>

A == INSTANCE MachineAlerts WITH desk <- alertDesk
E == INSTANCE PredictionEvents WITH events <- stored

MCInit == Init /\ A!Init /\ E!Init /\ part \in {"workspace", "alerts", "events"}

MCNext ==
    /\ \/ part = "workspace" /\ Next /\ UNCHANGED <<alertVars, eventVars>>
       \/ part = "alerts" /\ A!Next /\ UNCHANGED <<vars, eventVars>>
       \/ part = "events" /\ E!Next /\ UNCHANGED <<vars, alertVars>>
    /\ UNCHANGED part

MCSpec == MCInit /\ [][MCNext]_<<vars, alertVars, eventVars, part>>

\* The properties of the two other parts; their modules state them.
OncePerCooldown == A!OncePerCooldown
ResolvedStays == A!ResolvedStays
RetentionStopsForGood == E!RetentionStopsForGood

\* Every attempt to predict is stored or counted as lost, and no prediction has two
\* outcomes, however submissions and deletions overlap.
EventsAreAccounted == E!EachOutcomeCountsOnce /\ E!AttemptsAreAccounted

MCRole == [u \in Users |-> IF u = omar THEN "operator" ELSE "admin"]

\* Bound: the two halves of the workspace meet in the count of open actions alone,
\* so the shifts run while no tab works on an action and none has been changed.
Apart ==
    \/ shift = [s \in Shifts |-> NoShift] /\ \A d \in Desks : desk[d].pc = "idle"
    \/ /\ \A t \in Tabs : tab[t].pc = "idle"
       /\ \A a \in Actions : action[a].version <= 1

Symmetry == Permutations(Tabs) \cup Permutations(Desks) \cup Permutations(Shifts)
=============================================================================
