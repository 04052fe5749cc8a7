----------------------------- MODULE Operations -----------------------------
(***************************************************************************)
(* The operations workspace of one factory: operational actions with their *)
(* notes, feedback and timeline, and shift handovers                       *)
(* (api/routes/operations.py over services/operations.py).                 *)
(*                                                                         *)
(* A tab is one browser tab: it shows a user an action and submits that    *)
(* action's version with each request.  A request reads the row, checks it *)
(* in Python and commits the changed columns later; the audit entry is a   *)
(* transaction of its own after that.  Of a time the model keeps whether   *)
(* it is null and that a new one differs from the one it replaces; a       *)
(* summary may repeat the text it replaces.                                *)
(*                                                                         *)
(* Definitions that no other uses are faulty variants of the definition    *)
(* that follows them; each one makes a property below fail.                *)
(***************************************************************************)
EXTENDS Naturals, FiniteSets, UnitOfWork

CONSTANTS
    Users,          \* active users of the company
    None,           \* null, for a user, an action or a shift
    Role,           \* of each user: "admin", "engineer" or "operator"
    Actions,        \* operational actions of the factory's machines
    Tabs,           \* tabs that work on actions
    Shifts,         \* shifts of the factory
    Desks,          \* tabs that work on shifts
    Levels,         \* bound: the priorities that new actions are given
    MaxEvents       \* bound: timeline events of an action

ASSUME UsersAssumption == /\ None \notin Users \cup Actions \cup Shifts
                          /\ Role \in [Users -> {"admin", "engineer", "operator"}]
ASSUME RowsAssumption == IsFiniteSet(Actions) /\ IsFiniteSet(Tabs)
ASSUME BoundsAssumption == /\ Levels \subseteq {"critical", "high", "medium", "low"}
                           /\ MaxEvents \in Nat

VARIABLES
    action,         \* the operational_actions table
    tab,            \* each tab that works on actions
    shift,          \* the shift_handovers table
    desk,           \* each tab that works on shifts
    events,         \* timeline events of each action, one for each note or feedback too
    audited         \* the actions and shifts with an audit entry

vars == <<action, tab, shift, desk, events, audited>>

-----------------------------------------------------------------------------
(* The rows *)

Priorities == {"critical", "high", "medium", "low"}

ActionStatuses ==
    {"open", "assigned", "in_progress", "blocked", "completed", "cancelled"}

ShiftStatuses == {"active", "ended", "acknowledged"}

Closed == {"completed", "cancelled"}

\* _URGENT_PRIORITIES
Urgent == {"critical", "high"}

Someone == Users \cup {None}

\* 0 is null.
Times == 0 .. 2

Texts == 0 .. 2

\* utc_now, another time than the one on the row
Now(time) == IF time = 1 THEN 2 ELSE 1

\* version 0 is an action that does not exist.
Action == [status : ActionStatuses, priority : Priorities, assignee : Someone,
           acknowledged : Times, started : Times, completed : Times, summary : Texts,
           version : Nat]

NoAction == [status |-> "open", priority |-> "low", assignee |-> None,
             acknowledged |-> 0, started |-> 0, completed |-> 0, summary |-> 0,
             version |-> 0]

\* open is open_action_count of the snapshot.
Shift == [status : {"absent"} \cup ShiftStatuses, starter : Someone,
          ender : Someone, acknowledger : Someone, open : Nat]

NoShift == [status |-> "absent", starter |-> None, ender |-> None,
            acknowledger |-> None, open |-> 0]

\* read and new are the row as a request read it and as it will write it.
Tab == [pc : {"idle", "view", "commit", "audit"}, user : Someone, id : Actions \cup {None},
        view : Action, read : Action, new : Action, notes : 0 .. 1, due : 0 .. 2]

Desk == [pc : {"idle", "commit", "audit"}, id : Shifts \cup {None}, read : Shift, new : Shift]

Blank(a) == [pc |-> "idle", user |-> None, id |-> a, view |-> NoAction,
             read |-> NoAction, new |-> NoAction, notes |-> 0, due |-> 0]

Cleared == [pc |-> "idle", id |-> None, read |-> NoShift, new |-> NoShift]

TypeOK ==
    /\ action \in [Actions -> Action]
    /\ tab \in [Tabs -> Tab]
    /\ shift \in [Shifts -> Shift]
    /\ desk \in [Desks -> Desk]
    /\ events \in [Actions -> 0 .. MaxEvents]
    /\ audited \subseteq Actions \cup Shifts

Init ==
    /\ action = [a \in Actions |-> NoAction]
    /\ tab = [t \in Tabs |-> Blank(None)]
    /\ shift = [s \in Shifts |-> NoShift]
    /\ desk = [d \in Desks |-> Cleared]
    /\ events = [a \in Actions |-> 0]
    /\ audited = {}

-----------------------------------------------------------------------------
(* Who may do what *)

\* require_roles(ADMIN, ENGINEER)
Managers == {u \in Users : Role[u] \in {"admin", "engineer"}}

Operators == {u \in Users : Role[u] = "operator"}

\* _operator_can_access
OperatorCanAccess(r, u) ==
    \/ r.assignee = u
    \/ r.assignee = None /\ r.priority \in Urgent /\ r.status \notin Closed

\* get_action
CanGet(r, u) == r.version > 0 /\ (u \in Operators => OperatorCanAccess(r, u))

\* list_actions, without the filters of the query
Listed(u) == {a \in Actions : CanGet(action[a], u)}

\* _ACTION_TRANSITIONS, for the statuses a request may name
Transitions ==
    [status \in ActionStatuses |->
        CASE status = "open" -> {"assigned", "cancelled"}
          [] status = "assigned" -> {"in_progress", "blocked", "cancelled"}
          [] status = "in_progress" -> {"blocked", "completed", "cancelled"}
          [] status = "blocked" -> {"in_progress", "cancelled"}
          [] OTHER -> {}]

Requestable == {"in_progress", "blocked", "completed", "cancelled"}

-----------------------------------------------------------------------------
(* The changes of OperationsService, as functions of the row it read *)

CreateAction(p, w) ==
    [NoAction EXCEPT !.status = IF w = None THEN "open" ELSE "assigned",
                     !.priority = p, !.assignee = w, !.version = 1]

AssignAction(r, w) ==
    [r EXCEPT !.assignee = w, !.version = @ + 1,
              !.status = IF @ = "open" THEN "assigned" ELSE @]

AcknowledgeAction(r, u) ==
    [r EXCEPT !.assignee = IF @ = None THEN u ELSE @, !.status = "assigned",
              !.acknowledged = Now(@), !.version = @ + 1]

TransitionUnstamped(r, next, summary) ==
    [r EXCEPT !.status = next, !.version = @ + 1,
              !.summary = IF summary # 0 THEN summary ELSE @]

TransitionAction(r, next, summary) ==
    [r EXCEPT !.status = next, !.version = @ + 1,
              !.started = IF next = "in_progress" /\ @ = 0 THEN Now(@) ELSE @,
              !.completed = IF next = "completed" THEN Now(@) ELSE @,
              !.summary = IF summary # 0 THEN summary ELSE @]

ReopenAction(r) ==
    [r EXCEPT !.status = "open", !.assignee = None, !.acknowledged = 0,
              !.started = 0, !.completed = 0, !.summary = 0, !.version = @ + 1]

-----------------------------------------------------------------------------
(* Requests on actions *)

Pending(a) == {t \in Tabs : tab[t].pc = "commit" /\ tab[t].id = a}

\* Bound: n more timeline events and those of the requests under way.
Room(a, n) ==
    events[a] + n + Cardinality(Pending(a))
        + Cardinality({t \in Pending(a) : tab[t].notes = 1}) <= MaxEvents

Still == UNCHANGED <<shift, desk>>

\* A user opens an action that list_actions or get_action shows.
View(t, u, a) ==
    /\ tab[t].pc \in {"idle", "view"}
    /\ a \in Listed(u)
    /\ tab' = [tab EXCEPT ![t] = [Blank(a) EXCEPT !.pc = "view", !.user = u,
                                                  !.view = action[a]]]
    /\ UNCHANGED <<action, events, audited>> /\ Still

\* POST /actions: the row and its timeline events are one transaction.
Create(t, u, a, p, w) ==
    /\ tab[t].pc = "idle" /\ u \in Managers
    /\ action[a].version = 0
    /\ action' = [action EXCEPT ![a] = CreateAction(p, w)]
    /\ LET n == IF w = None THEN 1 ELSE 2
       IN /\ Room(a, n)
          /\ events' = [events EXCEPT ![a] = @ + n]
          /\ tab' = [tab EXCEPT ![t] = [Blank(a) EXCEPT !.pc = "audit", !.user = u,
                                                        !.due = n]]
    /\ UNCHANGED audited /\ Still

\* get_action and _check_version; a request they refuse changes nothing.
Accepts(t) ==
    LET r == action[tab[t].id]
    IN /\ tab[t].pc = "view"
       /\ CanGet(r, tab[t].user)
       /\ r.version = tab[t].view.version

\* An accepted request holds its changes until the session is flushed.
Hold(t, new, notes) ==
    /\ Room(tab[t].id, 1 + notes)
    /\ tab' = [tab EXCEPT ![t].pc = "commit", ![t].read = action[tab[t].id],
                          ![t].view = NoAction,
                          ![t].new = new, ![t].notes = notes]
    /\ UNCHANGED <<action, events, audited>> /\ Still

Assign(t, w) ==
    LET r == action[tab[t].id]
    IN /\ Accepts(t) /\ tab[t].user \in Managers
       /\ r.status \notin Closed
       /\ Hold(t, AssignAction(r, w), 0)

Acknowledge(t, notes) ==
    LET r == action[tab[t].id]
    IN /\ Accepts(t)
       /\ tab[t].user \in Operators => r.assignee \in {None, tab[t].user}
       /\ r.status \in {"open", "assigned"}
       /\ Hold(t, AcknowledgeAction(r, tab[t].user), notes)

Transition(t, next, summary) ==
    LET r == action[tab[t].id]
    IN /\ Accepts(t)
       /\ tab[t].user \in Operators => r.assignee = tab[t].user
       /\ next \in Transitions[r.status]
       /\ next = "completed" => summary # 0
       /\ Hold(t, TransitionAction(r, next, summary), 0)

Reopen(t) ==
    LET r == action[tab[t].id]
    IN /\ Accepts(t) /\ tab[t].user \in Managers
       /\ r.status \in Closed
       /\ Hold(t, ReopenAction(r), 0)

\* The change is committed and its audit entry is due.
Recorded(b) == [Blank(b.id) EXCEPT !.pc = "audit", !.user = b.user, !.due = 1]

CommitUnrecorded(t) ==
    LET a == tab[t].id
    IN /\ tab[t].pc = "commit"
       /\ action' = [action EXCEPT ![a] = Flush(@, tab[t].read, tab[t].new)]
       /\ events' = [events EXCEPT ![a] = @ + tab[t].notes]
       /\ tab' = [tab EXCEPT ![t] = Recorded(@)]
       /\ UNCHANGED audited /\ Still

\* _timeline, the note of an acknowledgement and the commit.
Commit(t) ==
    LET a == tab[t].id
    IN /\ tab[t].pc = "commit"
       /\ action' = [action EXCEPT ![a] = Flush(@, tab[t].read, tab[t].new)]
       /\ events' = [events EXCEPT ![a] = @ + 1 + tab[t].notes]
       /\ tab' = [tab EXCEPT ![t] = Recorded(@)]
       /\ UNCHANGED audited /\ Still

AppendTwice(t) ==
    LET a == tab[t].id
    IN /\ tab[t].pc = "view" /\ Room(a, 1)
       /\ CanGet(action[a], tab[t].user)
       /\ events' = [events EXCEPT ![a] = @ + 2]
       /\ tab' = [tab EXCEPT ![t] = Recorded(@)]
       /\ UNCHANGED <<action, audited>> /\ Still

\* A note or feedback is appended; no version is checked.
Append(t) ==
    LET a == tab[t].id
    IN /\ tab[t].pc = "view" /\ Room(a, 1)
       /\ CanGet(action[a], tab[t].user)
       /\ events' = [events EXCEPT ![a] = @ + 1]
       /\ tab' = [tab EXCEPT ![t] = Recorded(@)]
       /\ UNCHANGED <<action, audited>> /\ Still

AddActionNote(t) == Append(t)

SubmitFeedback(t) == Append(t)

\* AuditService.record, one transaction for each entry.
Audit(t) ==
    /\ tab[t].pc = "audit"
    /\ audited' = audited \cup {tab[t].id}
    /\ tab' = [tab EXCEPT ![t] = IF @.due > 1 THEN [@ EXCEPT !.due = 1] ELSE Blank(None)]
    /\ UNCHANGED <<action, events>> /\ Still

\* The process dies: what is not committed is rolled back.
Crash(t) ==
    /\ tab[t].pc \in {"commit", "audit"}
    /\ tab' = [tab EXCEPT ![t] = Blank(None)]
    /\ UNCHANGED <<action, events, audited>> /\ Still

-----------------------------------------------------------------------------
(* Shifts *)

Active == {s \in Shifts : shift[s].status = "active"}

OpenActions == {a \in Actions : action[a].version > 0 /\ action[a].status \notin Closed}

Quiet == UNCHANGED <<action, tab, events>>

Take(d, s, new) ==
    /\ desk' = [desk EXCEPT ![d] = [pc |-> "commit", id |-> s,
                                    read |-> shift[s], new |-> new]]
    /\ UNCHANGED <<shift, audited>> /\ Quiet

\* POST /shifts, with the check that precedes the insert.
StartShift(d, u, s) ==
    /\ desk[d].pc = "idle" /\ shift[s].status = "absent"
    /\ \A e \in Desks : desk[e].pc = "commit" => desk[e].id # s
    /\ Active = {}
    /\ Take(d, s, [NoShift EXCEPT !.status = "active", !.starter = u])

EndedUnsigned(r, u) == [r EXCEPT !.status = "ended", !.open = Cardinality(OpenActions)]

\* The changes of end_shift, of which the model keeps one count of the snapshot.
Ended(r, u) ==
    [r EXCEPT !.status = "ended", !.ender = u, !.open = Cardinality(OpenActions)]

EndShift(d, u, s) ==
    /\ desk[d].pc = "idle"
    /\ shift[s].status = "active"
    /\ u \in Operators => shift[s].starter = u
    /\ Take(d, s, Ended(shift[s], u))

AcknowledgeShift(d, u, s) ==
    /\ desk[d].pc = "idle"
    /\ shift[s].status = "ended"
    /\ Take(d, s, [shift[s] EXCEPT !.status = "acknowledged", !.acknowledger = u])

AdmitsAny(new) == new \in Shift

\* uq_shift_handovers_active_factory
Admits(new) == new.status = "active" => Active = {}

CommitShift(d) ==
    /\ desk[d].pc = "commit"
    /\ IF Admits(desk[d].new)
       THEN /\ shift' = [shift EXCEPT ![desk[d].id] = Flush(@, desk[d].read, desk[d].new)]
            /\ desk' = [desk EXCEPT ![d] = [Cleared EXCEPT !.pc = "audit", !.id = desk[d].id]]
       ELSE shift' = shift /\ desk' = [desk EXCEPT ![d] = Cleared]
    /\ UNCHANGED audited /\ Quiet

AuditShift(d) ==
    /\ desk[d].pc = "audit"
    /\ audited' = audited \cup {desk[d].id}
    /\ desk' = [desk EXCEPT ![d] = Cleared]
    /\ UNCHANGED shift /\ Quiet

CrashShift(d) ==
    /\ desk[d].pc # "idle"
    /\ desk' = [desk EXCEPT ![d] = Cleared]
    /\ UNCHANGED <<shift, audited>> /\ Quiet

-----------------------------------------------------------------------------

Next ==
    \/ \E t \in Tabs, u \in Users, a \in Actions :
          \/ View(t, u, a)
          \/ \E p \in Levels, w \in Someone : Create(t, u, a, p, w)
    \/ \E t \in Tabs :
          \/ \E w \in Users : Assign(t, w)
          \/ \E notes \in 0 .. 1 : Acknowledge(t, notes)
          \/ \E next \in Requestable, summary \in Texts :
                Transition(t, next, summary)
          \/ Reopen(t) \/ Commit(t) \/ Audit(t) \/ Crash(t)
          \/ AddActionNote(t) \/ SubmitFeedback(t)
    \/ \E d \in Desks, u \in Users, s \in Shifts :
          StartShift(d, u, s) \/ EndShift(d, u, s) \/ AcknowledgeShift(d, u, s)
    \/ \E d \in Desks : CommitShift(d) \/ AuditShift(d) \/ CrashShift(d)

Spec == Init /\ [][Next]_vars

-----------------------------------------------------------------------------
(* Properties *)

\* A completed action has its time, whatever the requests that were accepted on
\* earlier rows and write their columns after it was completed, cancelled or
\* reopened.  Its summary may be missing: a request that repeats the text it read
\* leaves the column alone, and an overlapping reopening may have cleared it.
CompletionIsRecorded ==
    \A a \in Actions : action[a].status = "completed" => action[a].completed # 0

\* No change of an action is missing from its timeline, although requests that
\* overlap may set its version back.
TimelineIsComplete == \A a \in Actions : action[a].version <= events[a]

\* A factory has one active shift at most, although two requests may both find
\* none and insert theirs.
OneActiveShift == Cardinality(Active) <= 1

\* A handover names who ended the shift and, acknowledged, who took it over,
\* also when two users end it at the same time.
HandoverIsSigned ==
    \A s \in Shifts :
        /\ shift[s].status \in {"ended", "acknowledged"} => shift[s].ender # None
        /\ shift[s].status = "acknowledged" => shift[s].acknowledger # None

\* What was done on actions and shifts is on record.
WorkIsRecorded ==
    TypeOK /\ CompletionIsRecorded /\ TimelineIsComplete /\ OneActiveShift /\ HandoverIsSigned
=============================================================================
