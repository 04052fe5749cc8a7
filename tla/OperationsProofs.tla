-------------------------- MODULE OperationsProofs --------------------------
(***************************************************************************)
(* Proofs about the operations workspace and what predictions leave behind,*)
(* for any users, tabs, shifts, requests and bounds.                       *)
(***************************************************************************)
EXTENDS MCOperations, FiniteSetTheorems, TLAPS

-----------------------------------------------------------------------------
(* Operational actions *)

\* What an accepted request has yet to write: its columns are those of the row it
\* read, but for a version one higher; completing writes a time, and nothing else
\* touches the time without the status.
Changes(read, new) ==
    /\ read \in Action /\ new \in Action
    /\ new.version = read.version + 1
    /\ new.status = "completed" => new.completed \notin {0, read.completed}
    /\ new.status # "completed" => \/ new.status # read.status
                                   \/ new.completed = read.completed

TabKnows(b, recorded) ==
    /\ b \in Tab
    /\ b.pc # "idle" => b.id \in Actions /\ b.user \in Users
    /\ b.pc = "commit" => Changes(b.read, b.new) /\ b.read.version <= recorded[b.id]

Waiting(a, tabs) == {t \in Tabs : tabs[t].pc = "commit" /\ tabs[t].id = a}

Noting(a, tabs) == {t \in Tabs : tabs[t].pc = "commit" /\ tabs[t].id = a /\ tabs[t].notes = 1}

\* The timeline events of the requests under way.
Reserved(a, tabs) == Cardinality(Waiting(a, tabs)) + Cardinality(Noting(a, tabs))

RowIsSound(row) == row \in Action /\ (row.status = "completed" => row.completed # 0)

ActionsInv ==
    /\ DOMAIN action = Actions /\ \A a \in Actions : RowIsSound(action[a])
    /\ DOMAIN tab = Tabs /\ \A t \in Tabs : TabKnows(tab[t], events)
    /\ events \in [Actions -> Nat]
    /\ \A a \in Actions : /\ action[a].version <= events[a]
                          /\ events[a] + Reserved(a, tab) <= MaxEvents

LEMMA Fields ==
    \A row : row \in Action =>
        /\ row.status \in ActionStatuses /\ row.priority \in Priorities
        /\ row.assignee \in Someone /\ row.acknowledged \in Times /\ row.started \in Times
        /\ row.completed \in Times /\ row.summary \in Texts /\ row.version \in Nat
        /\ DOMAIN row = {"status", "priority", "assignee", "acknowledged", "started",
                         "completed", "summary", "version"}
  BY DEF Action

LEMMA IsAction ==
    ASSUME NEW n, n = [f \in DOMAIN n |-> n[f]],
           DOMAIN n = {"status", "priority", "assignee", "acknowledged", "started",
                       "completed", "summary", "version"},
           n.status \in ActionStatuses, n.priority \in Priorities, n.assignee \in Someone,
           n.acknowledged \in Times, n.started \in Times, n.completed \in Times,
           n.summary \in Texts, n.version \in Nat
    PROVE  n \in Action
  BY DEF Action

LEMMA NoActionType == NoAction \in Action
  BY DEF Action, NoAction, ActionStatuses, Priorities, Someone, Times, Texts

LEMMA BlankIsSound ==
    ASSUME NEW a \in Actions \cup {None}, NEW recorded PROVE TabKnows(Blank(a), recorded)
  BY NoActionType DEF TabKnows, Blank, Tab, Someone

-----------------------------------------------------------------------------
(* Counting the requests under way *)

LEMMA Waiters ==
    ASSUME NEW a, NEW tabs
    PROVE  /\ IsFiniteSet(Waiting(a, tabs)) /\ IsFiniteSet(Noting(a, tabs))
           /\ Cardinality(Waiting(a, tabs)) \in Nat /\ Cardinality(Noting(a, tabs)) \in Nat
           /\ Reserved(a, tabs) \in Nat
<1>1. Waiting(a, tabs) \subseteq Tabs /\ Noting(a, tabs) \subseteq Tabs
  BY DEF Waiting, Noting
<1>2. IsFiniteSet(Waiting(a, tabs)) /\ IsFiniteSet(Noting(a, tabs))
  BY <1>1, RowsAssumption, FS_Subset
<1>3. Cardinality(Waiting(a, tabs)) \in Nat /\ Cardinality(Noting(a, tabs)) \in Nat
  BY <1>2, FS_CardinalityType
<1> QED
  BY <1>2, <1>3 DEF Reserved

-----------------------------------------------------------------------------
(* What the service changes of the row it read *)

LEMMA AssignChanges ==
    ASSUME NEW r \in Action, NEW w \in Users, r.status \notin Closed
    PROVE  Changes(r, AssignAction(r, w))
<1> DEFINE n == AssignAction(r, w)
<1>1. /\ n.status = IF r.status = "open" THEN "assigned" ELSE r.status
      /\ n.completed = r.completed /\ n.version = r.version + 1
  BY Fields DEF AssignAction
<1>2. n \in Action
  <2>1. n = [f \in DOMAIN n |-> n[f]] /\ DOMAIN n = DOMAIN r
    BY Fields DEF AssignAction
  <2>2. /\ n.status \in ActionStatuses /\ n.assignee \in Someone /\ n.version \in Nat
        /\ n.priority = r.priority
    BY Fields DEF AssignAction, ActionStatuses, Someone
  <2>3. n.acknowledged \in Times /\ n.started \in Times /\ n.completed \in Times
    BY Fields DEF AssignAction, Now, Times
  <2>4. n.summary \in Texts
    BY Fields DEF AssignAction, Texts
  <2> HIDE DEF n
  <2> QED
    BY <2>1, <2>2, <2>3, <2>4, Fields, IsAction
<1>3. r.status # "completed"
  BY DEF Closed
<1> HIDE DEF n
<1>4. Changes(r, n)
  BY <1>1, <1>2, <1>3 DEF Changes
<1> QED
  BY <1>4 DEF n

LEMMA AcknowledgeChanges ==
    ASSUME NEW r \in Action, NEW u \in Users, r.status \in {"open", "assigned"}
    PROVE  Changes(r, AcknowledgeAction(r, u))
<1> DEFINE n == AcknowledgeAction(r, u)
<1>1. /\ n.status = "assigned"
      /\ n.completed = r.completed /\ n.version = r.version + 1
  BY Fields DEF AcknowledgeAction
<1>2. n \in Action
  <2>1. n = [f \in DOMAIN n |-> n[f]] /\ DOMAIN n = DOMAIN r
    BY Fields DEF AcknowledgeAction
  <2>2. /\ n.status \in ActionStatuses /\ n.assignee \in Someone /\ n.version \in Nat
        /\ n.priority = r.priority
    BY Fields DEF AcknowledgeAction, ActionStatuses, Someone
  <2>3. n.acknowledged \in Times /\ n.started \in Times /\ n.completed \in Times
    BY Fields DEF AcknowledgeAction, Now, Times
  <2>4. n.summary \in Texts
    BY Fields DEF AcknowledgeAction, Texts
  <2> HIDE DEF n
  <2> QED
    BY <2>1, <2>2, <2>3, <2>4, Fields, IsAction
<1> HIDE DEF n
<1>3. Changes(r, n)
  BY <1>1, <1>2 DEF Changes
<1> QED
  BY <1>3 DEF n

LEMMA TransitionChanges ==
    ASSUME NEW r \in Action, NEW next \in Transitions[r.status], NEW summary \in Texts
    PROVE  Changes(r, TransitionAction(r, next, summary))
<1> DEFINE n == TransitionAction(r, next, summary)
<1>1. /\ n.status = next /\ n.version = r.version + 1
      /\ n.completed = IF next = "completed" THEN Now(r.completed) ELSE r.completed
  BY Fields DEF TransitionAction
<1>2. next \in ActionStatuses
  BY Fields DEF Transitions, ActionStatuses
<1>3. n \in Action
  <2>1. n = [f \in DOMAIN n |-> n[f]] /\ DOMAIN n = DOMAIN r
    BY Fields DEF TransitionAction
  <2>2. /\ n.status \in ActionStatuses /\ n.assignee \in Someone /\ n.version \in Nat
        /\ n.priority = r.priority
    BY <1>2, Fields DEF TransitionAction, ActionStatuses, Someone
  <2>3. n.acknowledged \in Times /\ n.started \in Times /\ n.completed \in Times
    BY Fields DEF TransitionAction, Now, Times
  <2>4. n.summary \in Texts
    BY Fields DEF TransitionAction, Texts
  <2> HIDE DEF n
  <2> QED
    BY <2>1, <2>2, <2>3, <2>4, Fields, IsAction
<1>4. Now(r.completed) \notin {0, r.completed}
  BY DEF Now
<1> HIDE DEF n
<1>5. Changes(r, n)
  BY <1>1, <1>3, <1>4 DEF Changes
<1> QED
  BY <1>5 DEF n

LEMMA ReopenChanges ==
    ASSUME NEW r \in Action, r.status \in Closed
    PROVE  Changes(r, ReopenAction(r))
<1> DEFINE n == ReopenAction(r)
<1>1. n.status = "open" /\ n.version = r.version + 1
  BY Fields DEF ReopenAction
<1>2. n \in Action
  <2>1. n = [f \in DOMAIN n |-> n[f]] /\ DOMAIN n = DOMAIN r
    BY Fields DEF ReopenAction
  <2>2. /\ n.status \in ActionStatuses /\ n.assignee \in Someone /\ n.version \in Nat
        /\ n.priority = r.priority
    BY Fields DEF ReopenAction, ActionStatuses, Someone
  <2>3. n.acknowledged \in Times /\ n.started \in Times /\ n.completed \in Times
    BY Fields DEF ReopenAction, Now, Times
  <2>4. n.summary \in Texts
    BY Fields DEF ReopenAction, Texts
  <2> HIDE DEF n
  <2> QED
    BY <2>1, <2>2, <2>3, <2>4, Fields, IsAction
<1>3. r.status # "open"
  BY DEF Closed
<1> HIDE DEF n
<1>4. Changes(r, n)
  BY <1>1, <1>2, <1>3 DEF Changes
<1> QED
  BY <1>4 DEF n

\* Written to whatever row it finds, a change leaves a sound one.
LEMMA Flushed ==
    ASSUME NEW row, RowIsSound(row), NEW read, NEW new, Changes(read, new)
    PROVE  /\ RowIsSound(Flush(row, read, new))
           /\ Flush(row, read, new).version = read.version + 1
<1> DEFINE n == Flush(row, read, new)
<1>1. /\ row \in Action /\ read \in Action /\ new \in Action
      /\ new.version = read.version + 1
  BY DEF RowIsSound, Changes
<1>2. /\ DOMAIN n = DOMAIN row
      /\ \A f \in DOMAIN row : n[f] = IF new[f] # read[f] THEN new[f] ELSE row[f]
  BY DEF Flush
<1>3. /\ n.status = IF new.status # read.status THEN new.status ELSE row.status
      /\ n.completed = IF new.completed # read.completed THEN new.completed ELSE row.completed
      /\ n.version = IF new.version # read.version THEN new.version ELSE row.version
  BY <1>1, <1>2, Fields
<1>4. n \in Action
  BY <1>1, <1>2, Fields DEF Action, Flush
<1>5. n.version = read.version + 1
  BY <1>1, <1>3, Fields
<1>6. n.status = "completed" => n.completed # 0
  <2>1. CASE new.status = "completed"
    BY <2>1, <1>3 DEF Changes
  <2>2. CASE new.status # "completed"
    BY <2>2, <1>3 DEF Changes, RowIsSound
  <2> QED
    BY <2>1, <2>2
<1> QED
  BY <1>4, <1>5, <1>6 DEF RowIsSound


-----------------------------------------------------------------------------
(* The steps of a tab *)

LEMMA Rows ==
    ASSUME ActionsInv
    PROVE  /\ DOMAIN action = Actions /\ DOMAIN tab = Tabs /\ DOMAIN events = Actions
           /\ events \in [Actions -> Nat]
           /\ \A a \in Actions : /\ RowIsSound(action[a]) /\ action[a].version \in Nat
                                 /\ events[a] \in Nat /\ Reserved(a, tab) \in Nat
           /\ \A t \in Tabs : TabKnows(tab[t], events)
  BY Waiters, Fields DEF ActionsInv, RowIsSound

LEMMA TabFields ==
    ASSUME NEW b \in Tab
    PROVE  /\ DOMAIN b = {"pc", "user", "id", "view", "read", "new", "notes", "due"}
           /\ b.pc \in {"idle", "view", "commit", "audit"} /\ b.user \in Someone
           /\ b.id \in Actions \cup {None} /\ b.view \in Action /\ b.read \in Action
           /\ b.new \in Action /\ b.notes \in 0 .. 1 /\ b.due \in 0 .. 2
  BY DEF Tab

LEMMA IsTab ==
    ASSUME NEW b, b = [f \in DOMAIN b |-> b[f]],
           DOMAIN b = {"pc", "user", "id", "view", "read", "new", "notes", "due"},
           b.pc \in {"idle", "view", "commit", "audit"}, b.user \in Someone,
           b.id \in Actions \cup {None}, b.view \in Action, b.read \in Action,
           b.new \in Action, b.notes \in 0 .. 1, b.due \in 0 .. 2
    PROVE  b \in Tab
  BY DEF Tab

\* More events leave what a tab knows.
LEMMA StillKnows ==
    ASSUME NEW b, NEW before, NEW after, TabKnows(b, before),
           \A a \in Actions : before[a] \in Nat /\ after[a] \in Nat /\ before[a] <= after[a]
    PROVE  TabKnows(b, after)
<1>1. CASE b.pc # "commit"
  BY <1>1 DEF TabKnows
<1>2. CASE b.pc = "commit"
  <2>1. b.id \in Actions /\ b.read.version \in Nat /\ b.read.version <= before[b.id]
    BY <1>2, Fields DEF TabKnows, Changes
  <2>2. b.read.version <= after[b.id]
    BY <2>1
  <2> QED
    BY <2>2 DEF TabKnows
<1> QED
  BY <1>1, <1>2

\* A tab that leaves the commit, or never was in it.
LEMMA TabLeaves ==
    ASSUME ActionsInv, NEW t \in Tabs, NEW b, b.pc # "commit",
           tab' = [tab EXCEPT ![t] = b], NEW a
    PROVE  /\ Reserved(a, tab') \in Nat /\ Reserved(a, tab') <= Reserved(a, tab)
           /\ tab[t].pc = "commit" /\ tab[t].id = a =>
                  Reserved(a, tab') = Reserved(a, tab) - (IF tab[t].notes = 1 THEN 2 ELSE 1)
<1>1. Waiting(a, tab') = Waiting(a, tab) \ {t}
  BY Rows DEF Waiting
<1>2. Noting(a, tab') = Noting(a, tab) \ {t}
  BY Rows DEF Noting
<1>3. Cardinality(Waiting(a, tab')) = IF t \in Waiting(a, tab)
                                       THEN Cardinality(Waiting(a, tab)) - 1
                                       ELSE Cardinality(Waiting(a, tab))
  BY <1>1, Waiters, FS_RemoveElement
<1>4. Cardinality(Noting(a, tab')) = IF t \in Noting(a, tab)
                                      THEN Cardinality(Noting(a, tab)) - 1
                                      ELSE Cardinality(Noting(a, tab))
  BY <1>2, Waiters, FS_RemoveElement
<1>5. /\ t \in Waiting(a, tab) <=> tab[t].pc = "commit" /\ tab[t].id = a
      /\ t \in Noting(a, tab) <=> tab[t].pc = "commit" /\ tab[t].id = a /\ tab[t].notes = 1
  BY DEF Waiting, Noting
<1> QED
  BY <1>3, <1>4, <1>5, Waiters DEF Reserved

\* A tab that joins it.
LEMMA TabJoins ==
    ASSUME ActionsInv, NEW t \in Tabs, NEW b,
           tab[t].pc # "commit", b.pc = "commit",
           tab' = [tab EXCEPT ![t] = b], NEW a
    PROVE  Reserved(a, tab') = Reserved(a, tab)
               + (IF b.id = a THEN IF b.notes = 1 THEN 2 ELSE 1 ELSE 0)
<1>1. Waiting(a, tab') = IF b.id = a THEN Waiting(a, tab) \cup {t} ELSE Waiting(a, tab)
  BY Rows DEF Waiting
<1>2. Noting(a, tab') = IF b.id = a /\ b.notes = 1
                         THEN Noting(a, tab) \cup {t} ELSE Noting(a, tab)
  BY Rows DEF Noting
<1>3. t \notin Waiting(a, tab) /\ t \notin Noting(a, tab)
  BY DEF Waiting, Noting
<1>4. Cardinality(Waiting(a, tab')) = Cardinality(Waiting(a, tab)) + (IF b.id = a THEN 1 ELSE 0)
  BY <1>1, <1>3, Waiters, FS_AddElement
<1>5. Cardinality(Noting(a, tab')) = Cardinality(Noting(a, tab))
                                      + (IF b.id = a /\ b.notes = 1 THEN 1 ELSE 0)
  BY <1>2, <1>3, Waiters, FS_AddElement
<1> QED
  BY <1>4, <1>5, Waiters DEF Reserved

\* A tab that writes nothing.
LEMMA TabMoves ==
    ASSUME ActionsInv, NEW t \in Tabs, NEW b, b.pc # "commit",
           tab' = [tab EXCEPT ![t] = b], TabKnows(b, events), UNCHANGED <<action, events>>
    PROVE  ActionsInv'
<1>1. DOMAIN tab' = Tabs /\ \A u \in Tabs : TabKnows(tab'[u], events')
  BY Rows
<1>2. \A a \in Actions : Reserved(a, tab') \in Nat /\ Reserved(a, tab') <= Reserved(a, tab)
  BY TabLeaves
<1>3. \A a \in Actions : events'[a] + Reserved(a, tab') <= MaxEvents
  <2> TAKE a \in Actions
  <2>1. events'[a] = events[a] /\ events[a] + Reserved(a, tab) <= MaxEvents
    BY DEF ActionsInv
  <2>2. /\ events[a] \in Nat /\ MaxEvents \in Nat
        /\ Reserved(a, tab) \in Nat /\ Reserved(a, tab') \in Nat
        /\ Reserved(a, tab') <= Reserved(a, tab)
    BY <1>2, Rows, BoundsAssumption
  <2> QED
    BY <2>1, <2>2
<1> QED
  BY <1>1, <1>3 DEF ActionsInv

\* An accepted request holds its changes.
LEMMA Holds ==
    ASSUME ActionsInv, NEW t \in Tabs, Accepts(t), NEW new, NEW notes \in 0 .. 1,
           Changes(action[tab[t].id], new), Hold(t, new, notes)
    PROVE  ActionsInv'
<1> DEFINE b == [tab[t] EXCEPT !.pc = "commit", !.read = action[tab[t].id],
                               !.view = NoAction, !.new = new, !.notes = notes]
           a == tab[t].id
<1>1. /\ tab[t] \in Tab /\ tab[t].pc = "view" /\ a \in Actions /\ tab[t].user \in Users
  BY Rows DEF Accepts, TabKnows
<1>2. tab' = [tab EXCEPT ![t] = b]
  BY Rows DEF Hold
<1>3. /\ b.pc = "commit" /\ b.id = a /\ b.user = tab[t].user /\ b.read = action[a]
      /\ b.new = new /\ b.notes = notes
  BY <1>1, TabFields
<1>4. b \in Tab
  BY <1>1, NoActionType DEF Tab, Changes
<1> HIDE DEF b
<1>5. TabKnows(b, events)
  BY <1>1, <1>3, <1>4, Rows DEF TabKnows, ActionsInv
<1>6. DOMAIN tab' = Tabs /\ \A u \in Tabs : TabKnows(tab'[u], events)
  BY <1>2, <1>5, Rows
<1>7. \A c \in Actions : Reserved(c, tab') = Reserved(c, tab)
                             + (IF c = a THEN IF notes = 1 THEN 2 ELSE 1 ELSE 0)
  <2>1. tab[t].pc # "commit"
    BY <1>1
  <2> QED
    BY <1>2, <1>3, <2>1, TabJoins
<1>8. events[a] + (1 + notes) + Reserved(a, tab) <= MaxEvents
  <2>1. /\ Pending(a) = Waiting(a, tab)
        /\ {u \in Pending(a) : tab[u].notes = 1} = Noting(a, tab)
    BY DEF Pending, Waiting, Noting
  <2>2. Room(a, 1 + notes)
    BY DEF Hold
  <2>3. Cardinality(Waiting(a, tab)) \in Nat /\ Cardinality(Noting(a, tab)) \in Nat
    BY Waiters
  <2>4. events[a] + (1 + notes) + Cardinality(Waiting(a, tab)) + Cardinality(Noting(a, tab))
            <= MaxEvents
    BY <2>1, <2>2 DEF Room
  <2> QED
    BY <1>1, <2>3, <2>4, Rows, BoundsAssumption DEF Reserved
<1>9. \A c \in Actions : events[c] + Reserved(c, tab') <= MaxEvents
  <2> TAKE c \in Actions
  <2>1. CASE c = a
    BY <2>1, <1>7, <1>8, Rows, BoundsAssumption
  <2>2. CASE c # a
    BY <2>2, <1>7, Rows DEF ActionsInv
  <2> QED
    BY <2>1, <2>2
<1> QED
  BY <1>6, <1>9 DEF Hold, ActionsInv

\* n events are added to the timeline of a, where the row is now row.
Added(t, b, a, n, row) ==
    /\ n \in Nat /\ RowIsSound(row) /\ row.version <= events[a] + n
    /\ b.pc # "commit" /\ TabKnows(b, events') /\ tab' = [tab EXCEPT ![t] = b]
    /\ events' \in [Actions -> Nat] /\ events'[a] = events[a] + n
    /\ DOMAIN action' = Actions /\ action'[a] = row
    /\ \A c \in Actions : c # a => events'[c] = events[c] /\ action'[c] = action[c]
    /\ events[a] + n + Reserved(a, tab') <= MaxEvents

LEMMA Adds ==
    ASSUME ActionsInv, NEW t \in Tabs, NEW b, NEW a \in Actions, NEW n, NEW row,
           Added(t, b, a, n, row)
    PROVE  ActionsInv'
<1> USE DEF Added
<1>1. \A c \in Actions : events[c] \in Nat /\ events'[c] \in Nat /\ events[c] <= events'[c]
  <2> TAKE c \in Actions
  <2> QED
    BY Rows
<1>2. DOMAIN tab' = Tabs /\ \A u \in Tabs : TabKnows(tab'[u], events')
  <2>1. \A u \in Tabs : TabKnows(tab[u], events')
    BY <1>1, Rows, StillKnows
  <2> QED
    BY <2>1, Rows
<1>3. DOMAIN action' = Actions /\ \A c \in Actions : RowIsSound(action'[c])
  BY Rows
<1>4. \A c \in Actions : action'[c].version <= events'[c]
  BY <1>1, Rows DEF ActionsInv
<1>5. \A c \in Actions : events'[c] + Reserved(c, tab') <= MaxEvents
  <2> TAKE c \in Actions
  <2>1. CASE c = a
    BY <2>1, Rows
  <2>2. CASE c # a
    <3>1. Reserved(c, tab') \in Nat /\ Reserved(c, tab') <= Reserved(c, tab)
      BY TabLeaves
    <3> QED
      BY <2>2, <3>1, Rows, BoundsAssumption DEF ActionsInv
  <2> QED
    BY <2>1, <2>2
<1> QED
  BY <1>1, <1>2, <1>3, <1>4, <1>5 DEF ActionsInv


LEMMA AcceptedRow ==
    ASSUME ActionsInv, NEW t \in Tabs, Accepts(t)
    PROVE  /\ action[tab[t].id] \in Action /\ tab[t].user \in Users /\ tab[t].id \in Actions
  BY Rows DEF Accepts, TabKnows, RowIsSound

LEMMA RequestKeeps ==
    ASSUME ActionsInv, NEW t \in Tabs,
           \/ \E w \in Users : Assign(t, w)
           \/ \E notes \in 0 .. 1 : Acknowledge(t, notes)
           \/ \E next \in Requestable, summary \in Texts : Transition(t, next, summary)
           \/ Reopen(t)
    PROVE  ActionsInv'
<1>1. CASE \E w \in Users : Assign(t, w)
  <2>1. PICK w \in Users : Assign(t, w)
    BY <1>1
  <2>2. Accepts(t) /\ action[tab[t].id].status \notin Closed
    BY <2>1 DEF Assign
  <2>3. Hold(t, AssignAction(action[tab[t].id], w), 0)
    BY <2>1 DEF Assign
  <2> QED
    BY <2>2, <2>3, AcceptedRow, AssignChanges, Holds
<1>2. CASE \E notes \in 0 .. 1 : Acknowledge(t, notes)
  <2>1. PICK notes \in 0 .. 1 : Acknowledge(t, notes)
    BY <1>2
  <2>2. Accepts(t) /\ action[tab[t].id].status \in {"open", "assigned"}
    BY <2>1 DEF Acknowledge
  <2>3. Hold(t, AcknowledgeAction(action[tab[t].id], tab[t].user), notes)
    BY <2>1 DEF Acknowledge
  <2> QED
    BY <2>2, <2>3, AcceptedRow, AcknowledgeChanges, Holds
<1>3. CASE \E next \in Requestable, summary \in Texts : Transition(t, next, summary)
  <2>1. PICK next \in Requestable, summary \in Texts : Transition(t, next, summary)
    BY <1>3
  <2>2. Accepts(t) /\ next \in Transitions[action[tab[t].id].status]
    BY <2>1 DEF Transition
  <2>3. Hold(t, TransitionAction(action[tab[t].id], next, summary), 0)
    BY <2>1 DEF Transition
  <2> QED
    BY <2>2, <2>3, AcceptedRow, TransitionChanges, Holds
<1>4. CASE Reopen(t)
  <2>1. Accepts(t) /\ action[tab[t].id].status \in Closed
    BY <1>4 DEF Reopen
  <2>2. Hold(t, ReopenAction(action[tab[t].id]), 0)
    BY <1>4 DEF Reopen
  <2> QED
    BY <2>1, <2>2, AcceptedRow, ReopenChanges, Holds
<1> QED
  BY <1>1, <1>2, <1>3, <1>4

LEMMA ViewKeeps ==
    ASSUME ActionsInv, NEW t \in Tabs, NEW u \in Users, NEW a \in Actions, View(t, u, a)
    PROVE  ActionsInv'
<1> DEFINE b == [Blank(a) EXCEPT !.pc = "view", !.user = u, !.view = action[a]]
<1>1. tab' = [tab EXCEPT ![t] = b] /\ UNCHANGED <<action, events>>
  BY DEF View
<1>4. /\ b = [f \in DOMAIN b |-> b[f]]
      /\ DOMAIN b = {"pc", "user", "id", "view", "read", "new", "notes", "due"}
      /\ b.pc = "view" /\ b.user = u /\ b.id = a /\ b.view = action[a]
      /\ b.read = NoAction /\ b.new = NoAction /\ b.notes = 0 /\ b.due = 0
  BY DEF Blank
<1> HIDE DEF b
<1>2. b \in Tab /\ b.pc = "view" /\ b.id = a /\ b.user = u
  BY <1>4, Rows, NoActionType, IsTab DEF Someone, RowIsSound
<1>3. TabKnows(b, events) /\ b.pc # "commit"
  BY <1>2 DEF TabKnows
<1> QED
  BY <1>1, <1>3, TabMoves

\* The record of a tab that owes audit entries.
LEMMA Owes ==
    ASSUME NEW a \in Actions, NEW u \in Users, NEW n \in 1 .. 2, NEW recorded
    PROVE  LET b == [Blank(a) EXCEPT !.pc = "audit", !.user = u, !.due = n]
           IN b.pc # "commit" /\ TabKnows(b, recorded)
<1> DEFINE b == [Blank(a) EXCEPT !.pc = "audit", !.user = u, !.due = n]
<1>1. /\ b = [f \in DOMAIN b |-> b[f]]
      /\ DOMAIN b = {"pc", "user", "id", "view", "read", "new", "notes", "due"}
      /\ b.pc = "audit" /\ b.user = u /\ b.id = a /\ b.view = NoAction
      /\ b.read = NoAction /\ b.new = NoAction /\ b.notes = 0 /\ b.due = n
  BY DEF Blank
<1> HIDE DEF b
<1>2. b \in Tab
  BY <1>1, NoActionType, IsTab DEF Someone
<1>3. b.pc # "commit" /\ TabKnows(b, recorded)
  BY <1>1, <1>2 DEF TabKnows
<1> QED
  BY <1>3 DEF b

LEMMA Owed ==
    ASSUME NEW c, c.id \in Actions, c.user \in Users, NEW recorded
    PROVE  TabKnows(Recorded(c), recorded) /\ Recorded(c).pc # "commit"
<1>1. 1 \in 1 .. 2
  OBVIOUS
<1> QED
  BY <1>1, Owes DEF Recorded

LEMMA RoomLeft ==
    ASSUME ActionsInv, NEW a \in Actions, NEW n \in Nat, Room(a, n)
    PROVE  events[a] + n + Reserved(a, tab) <= MaxEvents
<1>1. /\ Pending(a) = Waiting(a, tab)
      /\ {u \in Pending(a) : tab[u].notes = 1} = Noting(a, tab)
  BY DEF Pending, Waiting, Noting
<1>2. Cardinality(Waiting(a, tab)) \in Nat /\ Cardinality(Noting(a, tab)) \in Nat
  BY Waiters
<1>3. events[a] + n + Cardinality(Waiting(a, tab)) + Cardinality(Noting(a, tab)) <= MaxEvents
  BY <1>1 DEF Room
<1> QED
  BY <1>2, <1>3, Rows, BoundsAssumption DEF Reserved

LEMMA CreateKeeps ==
    ASSUME ActionsInv, NEW t \in Tabs, NEW u \in Users, NEW a \in Actions, NEW p \in Levels,
           NEW w \in Someone, Create(t, u, a, p, w)
    PROVE  ActionsInv'
<1> DEFINE n == IF w = None THEN 1 ELSE 2
           b == [Blank(a) EXCEPT !.pc = "audit", !.user = u, !.due = n]
           row == CreateAction(p, w)
<1>1. /\ tab' = [tab EXCEPT ![t] = b] /\ events' = [events EXCEPT ![a] = @ + n]
      /\ action' = [action EXCEPT ![a] = row] /\ Room(a, n)
  BY DEF Create
<1>9. /\ events' \in [Actions -> Nat]
      /\ events'[a] = events[a] + n
      /\ DOMAIN action' = Actions /\ action'[a] = row
      /\ \A c \in Actions : c # a => events'[c] = events[c] /\ action'[c] = action[c]
  <2>1. n \in Nat
    OBVIOUS
  <2> HIDE DEF n, b, row
  <2> QED
    BY <1>1, <2>1, Rows
<1>2. n \in 1 .. 2
  OBVIOUS
<1>3. TabKnows(b, events') /\ b.pc # "commit"
  BY <1>2, Owes
<1>4. row \in Action /\ row.status # "completed" /\ row.version = 1
  <2>1. /\ row.status = IF w = None THEN "open" ELSE "assigned"
        /\ row.priority = p /\ row.assignee = w /\ row.version = 1
        /\ row.acknowledged = 0 /\ row.started = 0 /\ row.completed = 0 /\ row.summary = 0
    BY DEF CreateAction, NoAction
  <2>2. row = [f \in DOMAIN row |-> row[f]] /\ DOMAIN row = DOMAIN NoAction
    BY DEF CreateAction, NoAction
  <2>3. DOMAIN NoAction = {"status", "priority", "assignee", "acknowledged", "started",
                           "completed", "summary", "version"}
    BY DEF NoAction
  <2>4. row.status \in ActionStatuses \ {"completed"} /\ p \in Priorities
    BY <2>1, BoundsAssumption DEF ActionStatuses, Priorities
  <2> HIDE DEF row
  <2> QED
    BY <2>1, <2>2, <2>3, <2>4, IsAction DEF Times, Texts
<1> HIDE DEF n, b, row
<1>5. RowIsSound(row) /\ row.version <= events[a] + n
  BY <1>2, <1>4, Rows DEF RowIsSound
<1>6. events[a] + n + Reserved(a, tab) <= MaxEvents
  BY <1>1, <1>2, RoomLeft
<1>7. Reserved(a, tab') \in Nat /\ Reserved(a, tab') <= Reserved(a, tab)
  BY <1>1, <1>3, TabLeaves
<1>8. events[a] + n + Reserved(a, tab') <= MaxEvents
  BY <1>2, <1>6, <1>7, Rows, BoundsAssumption
<1>10. Added(t, b, a, n, row)
  BY <1>1, <1>2, <1>3, <1>5, <1>8, <1>9 DEF Added
<1> QED
  BY <1>10, Adds

LEMMA AppendKeeps ==
    ASSUME ActionsInv, NEW t \in Tabs, Append(t) PROVE ActionsInv'
<1> DEFINE a == tab[t].id
           b == Recorded(tab[t])
<1>1. /\ tab' = [tab EXCEPT ![t] = b] /\ events' = [events EXCEPT ![a] = @ + 1]
      /\ UNCHANGED action /\ Room(a, 1) /\ tab[t].pc = "view"
  BY Rows DEF Append
<1>2. a \in Actions /\ tab[t].user \in Users
  BY <1>1, Rows DEF TabKnows
<1>3. TabKnows(b, events') /\ b.pc # "commit"
  BY <1>2, Owed
<1> HIDE DEF b
<1>9. /\ events' \in [Actions -> Nat]
      /\ events'[a] = events[a] + 1
      /\ \A c \in Actions : c # a => events'[c] = events[c]
  BY <1>1, <1>2, Rows
<1>4. action' = action /\ DOMAIN action = Actions /\ RowIsSound(action[a])
  BY <1>1, <1>2, Rows
<1>5. action[a].version <= events[a] + 1
  BY <1>2, Rows DEF ActionsInv
<1>6. events[a] + 1 + Reserved(a, tab) <= MaxEvents
  BY <1>1, <1>2, RoomLeft
<1>7. Reserved(a, tab') \in Nat /\ Reserved(a, tab') <= Reserved(a, tab)
  BY <1>1, <1>3, TabLeaves
<1>8. events[a] + 1 + Reserved(a, tab') <= MaxEvents
  BY <1>2, <1>6, <1>7, Rows, BoundsAssumption
<1> HIDE DEF a
<1>10. Added(t, b, a, 1, action[a])
  BY <1>1, <1>2, <1>3, <1>4, <1>5, <1>8, <1>9 DEF Added
<1> QED
  BY <1>2, <1>10, Adds

LEMMA CommitKeeps ==
    ASSUME ActionsInv, NEW t \in Tabs, Commit(t) PROVE ActionsInv'
<1> DEFINE a == tab[t].id
           b == Recorded(tab[t])
           row == Flush(action[a], tab[t].read, tab[t].new)
           n == 1 + tab[t].notes
<1>1. /\ tab' = [tab EXCEPT ![t] = b]
      /\ events' = [events EXCEPT ![a] = @ + 1 + tab[t].notes]
      /\ action' = [action EXCEPT ![a] = row] /\ tab[t].pc = "commit"
  BY Rows DEF Commit
<1>2. a \in Actions /\ tab[t].user \in Users /\ tab[t].notes \in 0 .. 1
  BY <1>1, Rows, TabFields DEF TabKnows
<1>3. TabKnows(b, events') /\ b.pc # "commit"
  BY <1>2, Owed
<1>4. Changes(tab[t].read, tab[t].new) /\ tab[t].read.version <= events[a]
  BY <1>1, Rows DEF TabKnows
<1>5. RowIsSound(row) /\ row.version = tab[t].read.version + 1
  BY <1>2, <1>4, Rows, Flushed
<1> HIDE DEF b, row
<1>6. tab[t].read.version \in Nat
  BY <1>4, Fields DEF Changes
<1>7. n \in Nat /\ row.version <= events[a] + n
  BY <1>2, <1>4, <1>5, <1>6, Rows
<1>8. /\ events' \in [Actions -> Nat]
      /\ events'[a] = events[a] + n
      /\ DOMAIN action' = Actions /\ action'[a] = row
      /\ \A c \in Actions : c # a => events'[c] = events[c] /\ action'[c] = action[c]
  BY <1>1, <1>2, Rows
<1>9. events[a] + n + Reserved(a, tab') <= MaxEvents
  <2>1. /\ Reserved(a, tab') = Reserved(a, tab) - (IF tab[t].notes = 1 THEN 2 ELSE 1)
        /\ Reserved(a, tab') \in Nat
    BY <1>1, <1>3, TabLeaves
  <2>2. events[a] + Reserved(a, tab) <= MaxEvents
    BY <1>2 DEF ActionsInv
  <2> QED
    BY <2>1, <2>2, <1>2, Rows, BoundsAssumption
<1> HIDE DEF a, n
<1>10. Added(t, b, a, n, row)
  BY <1>1, <1>2, <1>3, <1>5, <1>7, <1>8, <1>9 DEF Added
<1> QED
  BY <1>2, <1>10, Adds

LEMMA AuditKeeps ==
    ASSUME ActionsInv, NEW t \in Tabs, Audit(t) \/ Crash(t) PROVE ActionsInv'
<1>1. CASE tab[t].due > 1 /\ Audit(t)
  <2> DEFINE b == [tab[t] EXCEPT !.due = 1]
  <2>1. tab' = [tab EXCEPT ![t] = b] /\ UNCHANGED <<action, events>>
    BY <1>1, Rows DEF Audit
  <2>2. tab[t].pc = "audit" /\ tab[t] \in Tab /\ TabKnows(tab[t], events)
    BY <1>1, Rows DEF Audit, TabKnows
  <2>3. /\ b \in Tab /\ b.pc = "audit" /\ b.id = tab[t].id /\ b.user = tab[t].user
    BY <2>2 DEF Tab
  <2> HIDE DEF b
  <2>4. TabKnows(b, events) /\ b.pc # "commit"
    BY <2>2, <2>3 DEF TabKnows
  <2> QED
    BY <2>1, <2>4, TabMoves
<1>2. CASE ~(tab[t].due > 1 /\ Audit(t))
  <2> DEFINE b == Blank(None)
  <2>1. tab' = [tab EXCEPT ![t] = b] /\ UNCHANGED <<action, events>>
    BY <1>2, Rows DEF Audit, Crash
  <2>2. TabKnows(b, events) /\ b.pc # "commit"
    BY BlankIsSound DEF Blank
  <2> HIDE DEF b
  <2> QED
    BY <2>1, <2>2, TabMoves
<1> QED
  BY <1>1, <1>2


-----------------------------------------------------------------------------
(* Shift handovers *)

SignedRow(r) ==
    /\ r \in Shift
    /\ r.status = "absent" => r = NoShift
    /\ r.status = "active" => r.ender = None
    /\ r.status \in {"ended", "acknowledged"} => r.ender # None
    /\ r.status = "acknowledged" => r.acknowledger # None

\* A start waits for a row that is not there; an end and an acknowledgement change the
\* status they read, and what they leave alone is signed and stays so.
Starts(read, new, row) ==
    /\ read = NoShift /\ row = NoShift
    /\ new.status = "active" /\ new.ender = None

Ends(read, new, row) ==
    /\ read.status = "active" /\ read.ender = None /\ row.status # "absent"
    /\ new.status = "ended" /\ new.ender # None /\ new.acknowledger = read.acknowledger

Acknowledges(read, new, row) ==
    /\ read.status = "ended" /\ row.status # "absent" /\ row.ender # None
    /\ read.acknowledger # None => row.acknowledger # None
    /\ new.status = "acknowledged" /\ new.ender = read.ender /\ new.acknowledger # None

DeskKnows(b, row) ==
    b.pc = "commit" =>
        \/ Starts(b.read, b.new, row) \/ Ends(b.read, b.new, row)
        \/ Acknowledges(b.read, b.new, row)

DeskType(b) == b \in Desk /\ (b.pc # "idle" => b.id \in Shifts)

ShiftsInv ==
    /\ DOMAIN shift = Shifts /\ \A s \in Shifts : SignedRow(shift[s])
    /\ DOMAIN desk = Desks
    /\ \A d \in Desks : DeskType(desk[d]) /\ DeskKnows(desk[d], shift[desk[d].id])
    /\ \A d, e \in Desks :
          desk[d].pc = "commit" /\ desk[e].pc = "commit" /\ desk[d].id = desk[e].id
          /\ desk[d].new.status = "active" => d = e
    /\ \A s, u \in Active : s = u

LEMMA ShiftFields ==
    ASSUME NEW r \in Shift
    PROVE  /\ DOMAIN r = {"status", "starter", "ender", "acknowledger", "open"}
           /\ r.status \in {"absent"} \cup ShiftStatuses /\ r.starter \in Someone
           /\ r.ender \in Someone /\ r.acknowledger \in Someone /\ r.open \in Nat
  BY DEF Shift

LEMMA NoShiftType == SignedRow(NoShift) /\ NoShift.status = "absent"
  BY DEF SignedRow, NoShift, Shift, Someone

LEMMA ClearedType ==
    /\ DeskType(Cleared) /\ Cleared.pc = "idle"
    /\ \A row : DeskKnows(Cleared, row)
  BY NoShiftType DEF DeskType, DeskKnows, Cleared, Desk, SignedRow

LEMMA OpenCount == Cardinality(OpenActions) \in Nat
<1>1. OpenActions \subseteq Actions
  BY DEF OpenActions
<1> QED
  BY <1>1, RowsAssumption, FS_Subset, FS_CardinalityType

\* A desk that takes up work, or leaves it: b is not a start unless no other desk waits.
LEMMA DeskMoves ==
    ASSUME ShiftsInv, NEW d \in Desks, NEW b, DeskType(b), DeskKnows(b, shift[b.id]),
           desk' = [desk EXCEPT ![d] = b], UNCHANGED shift,
           b.pc = "commit" =>
              \A e \in Desks : desk[e].pc = "commit" /\ desk[e].id = b.id =>
                  desk[e].new.status # "active" /\ b.new.status # "active"
    PROVE  ShiftsInv'
<1>1. DOMAIN desk' = Desks /\ desk'[d] = b /\ \A e \in Desks : e # d => desk'[e] = desk[e]
  BY DEF ShiftsInv
<1>2. \A e \in Desks : DeskType(desk'[e]) /\ DeskKnows(desk'[e], shift'[desk'[e].id])
  BY <1>1 DEF ShiftsInv
<1>3. \A c, e \in Desks :
         desk'[c].pc = "commit" /\ desk'[e].pc = "commit" /\ desk'[c].id = desk'[e].id
         /\ desk'[c].new.status = "active" => c = e
  BY <1>1 DEF ShiftsInv
<1>4. \A s, u \in Active' : s = u
  BY DEF ShiftsInv, Active
<1> QED
  BY <1>1, <1>2, <1>3, <1>4 DEF ShiftsInv

\* The record of a desk that waits to commit.
LEMMA Takes ==
    ASSUME ShiftsInv, NEW d \in Desks, NEW s \in Shifts, NEW new \in Shift, Take(d, s, new),
           \/ Starts(shift[s], new, shift[s]) \/ Ends(shift[s], new, shift[s])
           \/ Acknowledges(shift[s], new, shift[s]),
           \A e \in Desks : desk[e].pc = "commit" /\ desk[e].id = s =>
                  desk[e].new.status # "active" /\ new.status # "active"
    PROVE  ShiftsInv'
<1> DEFINE b == [pc |-> "commit", id |-> s, read |-> shift[s], new |-> new]
<1>1. desk' = [desk EXCEPT ![d] = b] /\ UNCHANGED shift
  BY DEF Take
<1>2. b.pc = "commit" /\ b.id = s /\ b.read = shift[s] /\ b.new = new
  OBVIOUS
<1>3. shift[s] \in Shift
  BY DEF ShiftsInv, SignedRow
<1>4. DeskType(b)
  BY <1>3 DEF DeskType, Desk
<1> HIDE DEF b
<1>5. DeskKnows(b, shift[b.id])
  BY <1>2 DEF DeskKnows
<1> QED
  BY <1>1, <1>2, <1>4, <1>5, DeskMoves

LEMMA StartKeeps ==
    ASSUME ShiftsInv, NEW d \in Desks, NEW u \in Users, NEW s \in Shifts, StartShift(d, u, s)
    PROVE  ShiftsInv'
<1> DEFINE new == [NoShift EXCEPT !.status = "active", !.starter = u]
<1>1. Take(d, s, new) /\ shift[s].status = "absent"
  BY DEF StartShift
<1>2. new \in Shift /\ new.status = "active" /\ new.ender = None
  BY DEF NoShift, Shift, ShiftStatuses, Someone
<1>3. \A e \in Desks : ~(desk[e].pc = "commit" /\ desk[e].id = s)
  BY DEF StartShift
<1>4. shift[s] = NoShift
  BY <1>1 DEF ShiftsInv, SignedRow
<1> HIDE DEF new
<1>5. Starts(shift[s], new, shift[s])
  BY <1>2, <1>4 DEF Starts
<1> QED
  BY <1>1, <1>2, <1>3, <1>5, Takes


\* Nobody starts a shift whose row is there.
LEMMA NoStarts ==
    ASSUME ShiftsInv, NEW s \in Shifts, shift[s].status # "absent"
    PROVE  \A e \in Desks : desk[e].pc = "commit" /\ desk[e].id = s =>
               desk[e].new.status # "active"
  BY NoShiftType DEF ShiftsInv, DeskKnows, Starts, Ends, Acknowledges

LEMMA EndKeeps ==
    ASSUME ShiftsInv, NEW d \in Desks, NEW u \in Users, NEW s \in Shifts, EndShift(d, u, s)
    PROVE  ShiftsInv'
<1> DEFINE new == Ended(shift[s], u)
<1>1. Take(d, s, new) /\ shift[s].status = "active"
  BY DEF EndShift
<1>2. shift[s] \in Shift /\ shift[s].ender = None
  BY <1>1 DEF ShiftsInv, SignedRow
<1>3. /\ new \in Shift /\ new.status = "ended" /\ new.ender = u
      /\ new.acknowledger = shift[s].acknowledger
  BY <1>2, OpenCount DEF Ended, Shift, ShiftStatuses, Someone
<1>4. u # None
  BY UsersAssumption
<1> HIDE DEF new
<1>5. Ends(shift[s], new, shift[s])
  BY <1>1, <1>2, <1>3, <1>4 DEF Ends
<1> QED
  BY <1>1, <1>3, <1>5, NoStarts, Takes

LEMMA AcknowledgeShiftKeeps ==
    ASSUME ShiftsInv, NEW d \in Desks, NEW u \in Users, NEW s \in Shifts,
           AcknowledgeShift(d, u, s)
    PROVE  ShiftsInv'
<1> DEFINE new == [shift[s] EXCEPT !.status = "acknowledged", !.acknowledger = u]
<1>1. Take(d, s, new) /\ shift[s].status = "ended"
  BY DEF AcknowledgeShift
<1>2. shift[s] \in Shift /\ shift[s].ender # None
  BY <1>1 DEF ShiftsInv, SignedRow
<1>3. /\ new \in Shift /\ new.status = "acknowledged" /\ new.acknowledger = u
      /\ new.ender = shift[s].ender
  BY <1>2 DEF Shift, ShiftStatuses, Someone
<1>4. u # None
  BY UsersAssumption
<1> HIDE DEF new
<1>5. Acknowledges(shift[s], new, shift[s])
  BY <1>1, <1>2, <1>3, <1>4 DEF Acknowledges
<1> QED
  BY <1>1, <1>3, <1>5, NoStarts, Takes

LEMMA RestKeeps ==
    ASSUME ShiftsInv, NEW d \in Desks, AuditShift(d) \/ CrashShift(d) PROVE ShiftsInv'
<1>1. desk' = [desk EXCEPT ![d] = Cleared] /\ UNCHANGED shift
  BY DEF AuditShift, CrashShift
<1>2. DeskType(Cleared) /\ DeskKnows(Cleared, shift[Cleared.id]) /\ Cleared.pc # "commit"
  BY ClearedType
<1> QED
  BY <1>1, <1>2, DeskMoves

\* The row after a commit, whatever was committed since the row was read.
LEMMA Signed ==
    ASSUME NEW row, SignedRow(row), NEW read \in Shift, NEW new \in Shift,
           \/ Starts(read, new, row) \/ Ends(read, new, row) \/ Acknowledges(read, new, row)
    PROVE  LET r == Flush(row, read, new)
           IN /\ SignedRow(r) /\ r.status = new.status
              /\ row.acknowledger # None => r.acknowledger # None
              /\ row.ender # None => r.ender # None
              /\ r.status # "absent"
<1> DEFINE r == Flush(row, read, new)
<1>1. row \in Shift
  BY DEF SignedRow
<1>2. /\ DOMAIN r = DOMAIN row /\ r = [f \in DOMAIN row |-> r[f]]
      /\ \A f \in DOMAIN row : r[f] = IF new[f] # read[f] THEN new[f] ELSE row[f]
  BY DEF Flush
<1>3. /\ r.status = IF new.status # read.status THEN new.status ELSE row.status
      /\ r.ender = IF new.ender # read.ender THEN new.ender ELSE row.ender
      /\ r.acknowledger = IF new.acknowledger # read.acknowledger
                          THEN new.acknowledger ELSE row.acknowledger
  BY <1>1, <1>2, ShiftFields
<1>4. r \in Shift
  BY <1>1, <1>2, ShiftFields DEF Shift, Flush
<1> HIDE DEF r
<1>5. CASE Starts(read, new, row)
  <2>1. r.status = "active" /\ r.ender = None
    BY <1>3, <1>5, NoShiftType DEF Starts, NoShift
  <2>2. row.ender = None /\ row.acknowledger = None
    BY <1>5 DEF Starts, NoShift
  <2> QED
    BY <1>4, <2>1, <2>2, <1>5 DEF SignedRow, Starts, r
<1>6. CASE Ends(read, new, row)
  <2>1. r.status = "ended" /\ r.ender = new.ender /\ r.ender # None
    BY <1>3, <1>6 DEF Ends
  <2>2. r.acknowledger = row.acknowledger
    BY <1>3, <1>6 DEF Ends
  <2> QED
    BY <1>4, <2>1, <2>2, <1>6 DEF SignedRow, Ends, r
<1>7. CASE Acknowledges(read, new, row)
  <2>1. r.status = "acknowledged" /\ r.ender = row.ender /\ r.ender # None
    BY <1>3, <1>7 DEF Acknowledges
  <2>2. r.acknowledger # None
    BY <1>3, <1>7 DEF Acknowledges
  <2> QED
    BY <1>4, <2>1, <2>2, <1>7 DEF SignedRow, Acknowledges, r
<1> QED
  BY <1>5, <1>6, <1>7


LEMMA CommitShiftKeeps ==
    ASSUME ShiftsInv, NEW d \in Desks, CommitShift(d) PROVE ShiftsInv'
<1> DEFINE s == desk[d].id
           r == Flush(shift[s], desk[d].read, desk[d].new)
           b == [Cleared EXCEPT !.pc = "audit", !.id = s]
<1>1. CASE ~Admits(desk[d].new)
  <2>1. desk' = [desk EXCEPT ![d] = Cleared] /\ UNCHANGED shift
    BY <1>1 DEF CommitShift
  <2>2. DeskType(Cleared) /\ DeskKnows(Cleared, shift[Cleared.id]) /\ Cleared.pc # "commit"
    BY ClearedType
  <2> QED
    BY <2>1, <2>2, DeskMoves
<1>2. CASE Admits(desk[d].new)
  <2>1. /\ shift' = [shift EXCEPT ![s] = r] /\ desk' = [desk EXCEPT ![d] = b]
        /\ desk[d].pc = "commit"
    BY <1>2 DEF CommitShift
  <2>2. DeskType(desk[d]) /\ DeskKnows(desk[d], shift[s])
    BY DEF ShiftsInv
  <2>3. /\ s \in Shifts /\ desk[d].read \in Shift /\ desk[d].new \in Shift
        /\ SignedRow(shift[s])
    BY <2>1, <2>2 DEF DeskType, Desk, ShiftsInv
  <2>4. /\ SignedRow(r) /\ r.status = desk[d].new.status /\ r.status # "absent"
        /\ shift[s].acknowledger # None => r.acknowledger # None
        /\ shift[s].ender # None => r.ender # None
    BY <2>1, <2>2, <2>3, Signed DEF DeskKnows
  <2>5. b.pc = "audit" /\ b.id = s /\ b \in Desk
    BY <2>3, NoShiftType DEF Cleared, Desk, SignedRow
  <2> HIDE DEF r, b
  <2>6. /\ DOMAIN shift' = Shifts /\ shift'[s] = r
        /\ \A u \in Shifts : u # s => shift'[u] = shift[u]
        /\ DOMAIN desk' = Desks /\ desk'[d] = b
        /\ \A e \in Desks : e # d => desk'[e] = desk[e]
    BY <2>1, <2>3 DEF ShiftsInv
  <2>7. \A u \in Shifts : SignedRow(shift'[u])
    BY <2>4, <2>6 DEF ShiftsInv
  <2>8. \A e \in Desks : DeskType(desk'[e]) /\ DeskKnows(desk'[e], shift'[desk'[e].id])
    <3> TAKE e \in Desks
    <3>1. CASE e = d
      BY <3>1, <2>3, <2>5, <2>6 DEF DeskType, DeskKnows
    <3>2. CASE e # d
      <4>1. desk'[e] = desk[e] /\ DeskType(desk[e]) /\ DeskKnows(desk[e], shift[desk[e].id])
        BY <3>2, <2>6 DEF ShiftsInv
      <4>2. CASE desk[e].pc # "commit"
        BY <4>1, <4>2 DEF DeskKnows
      <4>3. CASE desk[e].pc = "commit" /\ desk[e].id # s
        BY <4>1, <4>3, <2>6 DEF DeskKnows, DeskType
      <4>4. CASE desk[e].pc = "commit" /\ desk[e].id = s
        <5>1. desk[e].new.status # "active"
          BY <3>2, <4>4, <2>1 DEF ShiftsInv
        <5>2. Ends(desk[e].read, desk[e].new, shift[s])
              \/ Acknowledges(desk[e].read, desk[e].new, shift[s])
          BY <4>1, <4>4, <5>1 DEF DeskKnows, Starts
        <5>3. Ends(desk[e].read, desk[e].new, r) \/ Acknowledges(desk[e].read, desk[e].new, r)
          BY <5>2, <2>4 DEF Ends, Acknowledges
        <5> QED
          BY <4>1, <4>4, <5>3, <2>6 DEF DeskKnows
      <4> QED
        BY <4>2, <4>3, <4>4
    <3> QED
      BY <3>1, <3>2
  <2>9. \A c, e \in Desks :
           desk'[c].pc = "commit" /\ desk'[e].pc = "commit" /\ desk'[c].id = desk'[e].id
           /\ desk'[c].new.status = "active" => c = e
    BY <2>5, <2>6 DEF ShiftsInv
  <2>10. \A x, y \in Active' : x = y
    <3>1. CASE desk[d].new.status = "active"
      <4>1. Active = {}
        BY <1>2, <3>1 DEF Admits
      <4>2. \A x \in Shifts : x # s => shift'[x].status # "active"
        BY <4>1, <2>6 DEF Active
      <4> QED
        BY <4>2 DEF Active
    <3>2. CASE desk[d].new.status # "active"
      <4>1. \A x \in Shifts : shift'[x].status = "active" => shift[x].status = "active"
        BY <3>2, <2>4, <2>6
      <4> QED
        BY <4>1 DEF Active, ShiftsInv
    <3> QED
      BY <3>1, <3>2
  <2> QED
    BY <2>6, <2>7, <2>8, <2>9, <2>10 DEF ShiftsInv
<1> QED
  BY <1>1, <1>2

-----------------------------------------------------------------------------
(* The workspace *)

Tables ==
    /\ action = [a \in Actions |-> action[a]] /\ tab = [t \in Tabs |-> tab[t]]
    /\ shift = [s \in Shifts |-> shift[s]] /\ desk = [d \in Desks |-> desk[d]]

WorkInv == ActionsInv /\ ShiftsInv /\ Tables /\ audited \subseteq Actions \cup Shifts

TabStep(t) ==
    \/ \E u \in Users, a \in Actions :
          \/ View(t, u, a)
          \/ \E p \in Levels, w \in Someone : Create(t, u, a, p, w)
    \/ \E w \in Users : Assign(t, w)
    \/ \E notes \in 0 .. 1 : Acknowledge(t, notes)
    \/ \E next \in Requestable, summary \in Texts : Transition(t, next, summary)
    \/ Reopen(t)
    \/ Append(t) \/ Commit(t) \/ Audit(t) \/ Crash(t)

LEMMA HoldWrites ==
    ASSUME DOMAIN tab = Tabs, NEW t \in Tabs, NEW new, NEW notes, Hold(t, new, notes)
    PROVE  /\ \E b : tab' = [tab EXCEPT ![t] = b]
           /\ UNCHANGED action
<1> DEFINE b == [tab[t] EXCEPT !.pc = "commit", !.read = action[tab[t].id],
                               !.view = NoAction, !.new = new, !.notes = notes]
<1>1. tab' = [tab EXCEPT ![t] = b] /\ UNCHANGED action
  BY DEF Hold
<1> HIDE DEF b
<1> QED
  BY <1>1

LEMMA TabWrites ==
    ASSUME Tables, NEW t \in Tabs, TabStep(t), UNCHANGED <<shift, desk>> PROVE Tables'
<1>1. /\ \E b : tab' = [tab EXCEPT ![t] = b]
      /\ \/ UNCHANGED action
         \/ \E a, row : action' = [action EXCEPT ![a] = row]
  <2>1. CASE \E u \in Users, a \in Actions : View(t, u, a)
    BY <2>1 DEF View
  <2>2. CASE \E u \in Users, a \in Actions, p \in Levels, w \in Someone : Create(t, u, a, p, w)
    BY <2>2 DEF Create
  <2>3. CASE (\E w \in Users : Assign(t, w)) \/ Reopen(t)
    <3>1. DOMAIN tab = Tabs
      BY DEF Tables
    <3>2. \E new : Hold(t, new, 0)
      BY <2>3 DEF Assign, Reopen
    <3> QED
      BY <3>1, <3>2, HoldWrites
  <2>4. CASE \E notes \in 0 .. 1 : Acknowledge(t, notes)
    <3>1. DOMAIN tab = Tabs
      BY DEF Tables
    <3>2. \E new, notes : Hold(t, new, notes)
      BY <2>4 DEF Acknowledge
    <3> QED
      BY <3>1, <3>2, HoldWrites
  <2>5. CASE \E next \in Requestable, summary \in Texts : Transition(t, next, summary)
    <3>1. DOMAIN tab = Tabs
      BY DEF Tables
    <3>2. \E new : Hold(t, new, 0)
      BY <2>5 DEF Transition
    <3> QED
      BY <3>1, <3>2, HoldWrites
  <2>6. CASE Append(t) \/ Commit(t)
    BY <2>6 DEF Append, Commit
  <2>7. CASE Audit(t) \/ Crash(t)
    BY <2>7 DEF Audit, Crash
  <2> QED
    BY <2>1, <2>2, <2>3, <2>4, <2>5, <2>6, <2>7 DEF TabStep
<1>2. tab' = [u \in Tabs |-> tab'[u]]
  BY <1>1 DEF Tables
<1>3. action' = [a \in Actions |-> action'[a]]
  BY <1>1 DEF Tables
<1> QED
  BY <1>2, <1>3 DEF Tables

LEMMA TabStepKeeps ==
    ASSUME WorkInv, NEW t \in Tabs, TabStep(t) PROVE WorkInv'
<1> USE DEF WorkInv
<1>1. ActionsInv'
  <2>1. CASE \E u \in Users, a \in Actions : View(t, u, a)
    BY <2>1, ViewKeeps
  <2>2. CASE \E u \in Users, a \in Actions, p \in Levels, w \in Someone : Create(t, u, a, p, w)
    BY <2>2, CreateKeeps
  <2>3. CASE \/ \E w \in Users : Assign(t, w)
             \/ \E notes \in 0 .. 1 : Acknowledge(t, notes)
             \/ \E next \in Requestable, summary \in Texts : Transition(t, next, summary)
             \/ Reopen(t)
    BY <2>3, RequestKeeps
  <2>4. CASE Append(t) \/ Commit(t)
    BY <2>4, AppendKeeps, CommitKeeps
  <2>5. CASE Audit(t) \/ Crash(t)
    BY <2>5, AuditKeeps
  <2> QED
    BY <2>1, <2>2, <2>3, <2>4, <2>5 DEF TabStep
<1>2. UNCHANGED <<shift, desk>>
  <2>1. CASE \E u \in Users, a \in Actions :
                View(t, u, a) \/ \E p \in Levels, w \in Someone : Create(t, u, a, p, w)
    BY <2>1 DEF View, Create, Still
  <2>2. CASE (\E w \in Users : Assign(t, w)) \/ Reopen(t)
    BY <2>2 DEF Assign, Reopen, Hold, Still
  <2>3. CASE \E notes \in 0 .. 1 : Acknowledge(t, notes)
    BY <2>3 DEF Acknowledge, Hold, Still
  <2>4. CASE \E next \in Requestable, summary \in Texts : Transition(t, next, summary)
    BY <2>4 DEF Transition, Hold, Still
  <2>5. CASE Append(t) \/ Commit(t) \/ Audit(t) \/ Crash(t)
    BY <2>5 DEF Append, Commit, Audit, Crash, Still
  <2> QED
    BY <2>1, <2>2, <2>3, <2>4, <2>5 DEF TabStep
<1>3. ShiftsInv'
  BY <1>2 DEF ShiftsInv, Active
<1>5. Tables'
  BY <1>2, TabWrites
<1>4. audited' \subseteq Actions \cup Shifts
  <2>1. CASE Audit(t)
    <3>1. tab[t].id \in Actions
      BY <2>1, Rows DEF Audit, TabKnows
    <3> QED
      BY <2>1, <3>1 DEF Audit
  <2>2. CASE UNCHANGED audited
    BY <2>2
  <2>3. Audit(t) \/ UNCHANGED audited
    <3>1. CASE \E u \in Users, a \in Actions :
                  View(t, u, a) \/ \E p \in Levels, w \in Someone : Create(t, u, a, p, w)
      BY <3>1 DEF View, Create
    <3>2. CASE (\E w \in Users : Assign(t, w)) \/ Reopen(t)
      BY <3>2 DEF Assign, Reopen, Hold
    <3>3. CASE \E notes \in 0 .. 1 : Acknowledge(t, notes)
      BY <3>3 DEF Acknowledge, Hold
    <3>4. CASE \E next \in Requestable, summary \in Texts : Transition(t, next, summary)
      BY <3>4 DEF Transition, Hold
    <3>5. CASE Append(t) \/ Commit(t) \/ Audit(t) \/ Crash(t)
      BY <3>5 DEF Append, Commit, Crash
    <3> QED
      BY <3>1, <3>2, <3>3, <3>4, <3>5 DEF TabStep
  <2> QED
    BY <2>1, <2>2, <2>3
<1> QED
  BY <1>1, <1>3, <1>4, <1>5

LEMMA DeskStepKeeps ==
    ASSUME WorkInv, NEW d \in Desks,
           \/ \E u \in Users, s \in Shifts :
                 StartShift(d, u, s) \/ EndShift(d, u, s) \/ AcknowledgeShift(d, u, s)
           \/ CommitShift(d) \/ AuditShift(d) \/ CrashShift(d)
    PROVE  WorkInv'
<1> USE DEF WorkInv
<1>1. ShiftsInv'
  BY StartKeeps, EndKeeps, AcknowledgeShiftKeeps, CommitShiftKeeps, RestKeeps
<1>2. UNCHANGED <<action, tab, events>>
  BY DEF StartShift, EndShift, AcknowledgeShift, CommitShift, AuditShift, CrashShift, Take, Quiet
<1>3. ActionsInv'
  BY <1>2 DEF ActionsInv
<1>5. Tables'
  <2>1. /\ \E b : desk' = [desk EXCEPT ![d] = b]
        /\ \/ UNCHANGED shift
           \/ \E s, row : shift' = [shift EXCEPT ![s] = row]
    <3>1. CASE \E u \in Users, s \in Shifts :
                  StartShift(d, u, s) \/ EndShift(d, u, s) \/ AcknowledgeShift(d, u, s)
      BY <3>1 DEF StartShift, EndShift, AcknowledgeShift, Take
    <3>2. CASE CommitShift(d)
      BY <3>2 DEF CommitShift
    <3>3. CASE AuditShift(d) \/ CrashShift(d)
      BY <3>3 DEF AuditShift, CrashShift
    <3> QED
      BY <3>1, <3>2, <3>3
  <2>2. desk' = [e \in Desks |-> desk'[e]]
    BY <2>1 DEF Tables
  <2>3. shift' = [s \in Shifts |-> shift'[s]]
    BY <2>1 DEF Tables
  <2> QED
    BY <1>2, <2>2, <2>3 DEF Tables
<1>4. audited' \subseteq Actions \cup Shifts
  <2>1. CASE AuditShift(d)
    <3>1. desk[d].id \in Shifts
      BY <2>1 DEF AuditShift, ShiftsInv, DeskType
    <3> QED
      BY <2>1, <3>1 DEF AuditShift
  <2>2. CASE ~AuditShift(d)
    BY <2>2 DEF StartShift, EndShift, AcknowledgeShift, CommitShift, CrashShift, Take
  <2> QED
    BY <2>1, <2>2
<1> QED
  BY <1>1, <1>3, <1>4, <1>5


LEMMA WorkBegins == Init => WorkInv
<1> SUFFICES ASSUME Init PROVE WorkInv
  OBVIOUS
<1> USE DEF Init
<1>1. NoAction.version = 0 /\ NoAction.status = "open"
  BY DEF NoAction
<1>2. \A a : Waiting(a, tab) = {} /\ Noting(a, tab) = {}
  BY DEF Waiting, Noting, Blank
<1>3. \A a : Reserved(a, tab) = 0
  BY <1>2, FS_EmptySet DEF Reserved
<1>4. ActionsInv
  <2>1. \A a \in Actions : RowIsSound(action[a])
    BY <1>1, NoActionType DEF RowIsSound
  <2>2. \A t \in Tabs : TabKnows(tab[t], events)
    BY BlankIsSound
  <2> QED
    BY <1>1, <1>3, <2>1, <2>2, BoundsAssumption DEF ActionsInv
<1>5. ShiftsInv
  <2>1. \A d \in Desks : desk[d] = Cleared
    OBVIOUS
  <2>2. \A s \in Shifts : SignedRow(shift[s]) /\ shift[s].status = "absent"
    BY NoShiftType
  <2>3. \A s \in Shifts : s \notin Active
    BY <2>2 DEF Active
  <2>4. \A d \in Desks : /\ DeskType(desk[d]) /\ DeskKnows(desk[d], shift[desk[d].id])
                         /\ desk[d].pc # "commit"
    BY <2>1, ClearedType
  <2> QED
    BY <2>2, <2>3, <2>4 DEF ShiftsInv, Active
<1>6. Tables
  BY DEF Tables
<1> QED
  BY <1>4, <1>5, <1>6 DEF WorkInv

LEMMA WorkStep == ASSUME WorkInv, [Next]_vars PROVE WorkInv'
<1>1. CASE \E t \in Tabs : TabStep(t)
  BY <1>1, TabStepKeeps
<1>2. CASE \E d \in Desks :
              \/ \E u \in Users, s \in Shifts :
                    StartShift(d, u, s) \/ EndShift(d, u, s) \/ AcknowledgeShift(d, u, s)
              \/ CommitShift(d) \/ AuditShift(d) \/ CrashShift(d)
  BY <1>2, DeskStepKeeps
<1>3. CASE UNCHANGED vars
  BY <1>3 DEF vars, WorkInv, ActionsInv, ShiftsInv, Tables, Active
<1>4. Next => \/ \E t \in Tabs : TabStep(t)
              \/ \E d \in Desks :
                    \/ \E u \in Users, s \in Shifts :
                          StartShift(d, u, s) \/ EndShift(d, u, s) \/ AcknowledgeShift(d, u, s)
                    \/ CommitShift(d) \/ AuditShift(d) \/ CrashShift(d)
  BY DEF Next, TabStep, AddActionNote, SubmitFeedback
<1> QED
  BY <1>1, <1>2, <1>3, <1>4

\* Whatever the users, tabs, shifts and bounds: the invariant of the workspace.
THEOREM WorkspaceInvariance == Spec => []WorkInv
  BY WorkBegins, WorkStep, PTL DEF Spec

\* Completed actions have their time, no change is missing from a timeline, a factory has
\* one active shift at most and handovers are signed, although OperationsService writes
\* the columns it changed over whatever was committed since it read the row.
THEOREM WorkRecords == Spec => []WorkIsRecorded
<1>1. WorkInv => WorkIsRecorded
  <2> SUFFICES ASSUME WorkInv PROVE WorkIsRecorded
    OBVIOUS
  <2> USE DEF WorkInv
  <2>1. TypeOK
    <3>1. \A a \in Actions : events[a] \in 0 .. MaxEvents
      BY Rows, BoundsAssumption DEF ActionsInv
    <3>2. action \in [Actions -> Action] /\ tab \in [Tabs -> Tab]
      BY Rows DEF Tables, RowIsSound, TabKnows
    <3>3. shift \in [Shifts -> Shift] /\ desk \in [Desks -> Desk]
      BY DEF Tables, ShiftsInv, SignedRow, DeskType
    <3> QED
      BY <3>1, <3>2, <3>3, Rows DEF TypeOK
  <2>2. CompletionIsRecorded /\ TimelineIsComplete
    BY Rows DEF CompletionIsRecorded, TimelineIsComplete, RowIsSound, ActionsInv
  <2>3. OneActiveShift
    <3>1. CASE Active = {}
      BY <3>1, FS_EmptySet DEF OneActiveShift
    <3>2. CASE Active # {}
      <4>1. PICK s \in Active : TRUE
        BY <3>2
      <4>2. Active = {s}
        BY <4>1 DEF ShiftsInv
      <4>3. Cardinality({s}) = 1
        BY FS_Singleton
      <4> QED
        BY <4>2, <4>3 DEF OneActiveShift
    <3> QED
      BY <3>1, <3>2
  <2>4. HandoverIsSigned
    BY DEF ShiftsInv, SignedRow, HandoverIsSigned
  <2> QED
    BY <2>1, <2>2, <2>3, <2>4 DEF WorkIsRecorded
<1> QED
  BY <1>1, WorkspaceInvariance, PTL


-----------------------------------------------------------------------------
(* The alert of a machine *)

\* An alert that counts a detection has been cooling since, or its cooldown has ended.
Counted(row, ended) ==
    /\ DOMAIN row = DOMAIN A!NoAlert
    /\ row.occurrences \in Nat /\ row.cooling \in BOOLEAN
    /\ row.occurrences <= ended + 1 /\ (~row.cooling => row.occurrences <= ended)

\* A request keeps a row as it was; a transition was allowed on that row.
RequestKnowsRow(d, ended) ==
    /\ Counted(d.read, ended)
    /\ d.pc = "transition" => /\ d.kind \in A!Transitions
                              /\ d.kind = "reopen" \/ d.read.status # "resolved"

AlertInv ==
    /\ elapsed \in Nat /\ Counted(alert, elapsed)
    /\ DOMAIN alertDesk = Desks
    /\ \A d \in Desks : RequestKnowsRow(alertDesk[d], elapsed)

AlertFields == {"status", "occurrences", "cooling", "resolvedAt", "assigned", "version"}

LEMMA NoAlertFields ==
    /\ DOMAIN A!NoAlert = AlertFields
    /\ A!NoAlert.occurrences = 0 /\ A!NoAlert.cooling \in BOOLEAN /\ A!NoAlert.status = "absent"
  BY DEF A!NoAlert, AlertFields

\* A row that keeps its count and its cooldown keeps its place.
LEMMA FlushedCount ==
    ASSUME NEW ended, NEW row, Counted(row, ended), NEW read, NEW new
    PROVE  LET r == A!Flush(row, read, new)
           IN /\ r.occurrences = IF new.occurrences # read.occurrences
                                 THEN new.occurrences ELSE row.occurrences
              /\ r.cooling = IF new.cooling # read.cooling THEN new.cooling ELSE row.cooling
              /\ r.status = IF new.status # read.status THEN new.status ELSE row.status
              /\ DOMAIN r = DOMAIN A!NoAlert
  BY NoAlertFields DEF Counted, A!Flush, AlertFields

LEMMA FlushKeepsCount ==
    ASSUME NEW ended, NEW row, Counted(row, ended), NEW read, NEW new,
           new.occurrences = read.occurrences, new.cooling = read.cooling
    PROVE  Counted(A!Flush(row, read, new), ended)
<1> DEFINE r == A!Flush(row, read, new)
<1>1. /\ r.occurrences = row.occurrences /\ r.cooling = row.cooling
      /\ DOMAIN r = DOMAIN A!NoAlert
  BY FlushedCount
<1> HIDE DEF r
<1>2. Counted(r, ended)
  BY <1>1 DEF Counted
<1> QED
  BY <1>2 DEF r

\* The counts hold when a cooldown ends, too.
LEMMA CountedLater ==
    ASSUME NEW ended \in Nat, NEW row, Counted(row, ended) PROVE Counted(row, ended + 1)
  BY DEF Counted

\* A step of one request.
LEMMA RequestMoves ==
    ASSUME AlertInv, UNCHANGED elapsed, Counted(alert', elapsed), NEW d \in Desks, NEW b,
           alertDesk' = [alertDesk EXCEPT ![d] = b], RequestKnowsRow(b, elapsed)
    PROVE  AlertInv'
  BY DEF AlertInv

LEMMA NoAlertCounted == ASSUME NEW ended \in Nat PROVE Counted(A!NoAlert, ended)
<1> DEFINE row == A!NoAlert
<1>1. row.occurrences = 0 /\ row.cooling \in BOOLEAN
  BY NoAlertFields
<1>2. 0 \in Nat /\ 0 <= ended + 1 /\ 0 <= ended
  OBVIOUS
<1> QED
  BY <1>1, <1>2 DEF Counted

LEMMA FreeKnows == ASSUME NEW ended \in Nat PROVE RequestKnowsRow(A!Free, ended)
<1>1. A!Free.pc = "free" /\ A!Free.read = A!NoAlert
  BY DEF A!Free
<1> QED
  BY <1>1, NoAlertCounted DEF RequestKnowsRow

LEMMA PredictKeeps ==
    ASSUME AlertInv, NEW d \in Desks, A!Predict(d) PROVE AlertInv'
<1> DEFINE b == [A!Free EXCEPT !.pc = "predict",
                               !.read = IF alert.status = "resolved" THEN A!NoAlert ELSE alert]
<1>1. /\ alertDesk' = [alertDesk EXCEPT ![d] = b] /\ UNCHANGED <<alert, elapsed>>
  BY DEF A!Predict, A!Begin
<1>2. b.pc = "predict" /\ b.read \in {A!NoAlert, alert}
  BY DEF A!Free
<1>3. Counted(A!NoAlert, elapsed)
  BY NoAlertCounted DEF AlertInv
<1> HIDE DEF b
<1>4. RequestKnowsRow(b, elapsed)
  BY <1>2, <1>3 DEF RequestKnowsRow, AlertInv
<1> QED
  BY <1>1, <1>4, RequestMoves DEF AlertInv

LEMMA StoreKeeps ==
    ASSUME AlertInv, NEW d \in Desks, A!StoreAssessment(d) PROVE AlertInv'
<1> DEFINE read == alertDesk[d].read
<1>1. /\ alertDesk' = [alertDesk EXCEPT ![d] = A!Free] /\ UNCHANGED elapsed
      /\ elapsed \in Nat /\ Counted(read, elapsed) /\ Counted(alert, elapsed)
  BY DEF A!StoreAssessment, A!Finish, AlertInv, RequestKnowsRow
<1>2. \/ UNCHANGED alert
      \/ alert' = A!NewAlert
      \/ alert' = A!Flush(alert, read, A!Redetected(read))
  BY DEF A!StoreAssessment
<1>3. Counted(alert', elapsed)
  <2>1. CASE UNCHANGED alert
    BY <2>1, <1>1
  <2>2. CASE alert' = A!NewAlert
    <3>1. /\ A!NewAlert.occurrences = 1 /\ A!NewAlert.cooling \in BOOLEAN /\ A!NewAlert.cooling
          /\ DOMAIN A!NewAlert = DOMAIN A!NoAlert
      BY DEF A!NewAlert, A!NoAlert
    <3> QED
      BY <2>2, <3>1, <1>1 DEF Counted
  <2>3. CASE alert' = A!Flush(alert, read, A!Redetected(read)) /\ read.cooling
    <3>1. A!Redetected(read) = read
      BY <2>3 DEF A!Redetected
    <3> QED
      BY <2>3, <3>1, <1>1, FlushKeepsCount
  <2>4. CASE alert' = A!Flush(alert, read, A!Redetected(read)) /\ ~read.cooling
    <3> DEFINE new == A!Redetected(read)
    <3>1. new.occurrences = read.occurrences + 1 /\ new.cooling \in BOOLEAN /\ new.cooling
      BY <2>4, <1>1, NoAlertFields DEF A!Redetected, Counted, AlertFields
    <3> HIDE DEF new, read
    <3>3. new.cooling # read.cooling
      BY <2>4, <3>1
    <3>4. new.occurrences # read.occurrences
      BY <1>1, <3>1 DEF Counted
    <3>5. /\ alert'.occurrences = new.occurrences /\ alert'.cooling = new.cooling
          /\ DOMAIN alert' = DOMAIN A!NoAlert
      BY <1>1, <2>4, <3>3, <3>4, FlushedCount DEF new
    <3>2. /\ alert'.occurrences = read.occurrences + 1 /\ alert'.cooling \in BOOLEAN /\ alert'.cooling
          /\ DOMAIN alert' = DOMAIN A!NoAlert
      BY <3>1, <3>5
    <3> QED
      BY <1>1, <2>4, <3>2 DEF Counted
  <2> QED
    BY <1>1, <1>2, <2>1, <2>2, <2>3, <2>4 DEF Counted
<1> QED
  BY <1>1, <1>3, FreeKnows, RequestMoves

LEMMA OpenTransitionKeeps ==
    ASSUME AlertInv, NEW d \in Desks, A!OpenTransition(d) PROVE AlertInv'
<1>1. PICK kind \in A!Transitions, actor \in Users :
          /\ A!May(kind, alert, actor)
          /\ alertDesk' = [alertDesk EXCEPT ![d] = [pc |-> "transition", kind |-> kind,
                                                    actor |-> actor, read |-> alert]]
  BY DEF A!OpenTransition, A!Begin
<1>2. kind = "reopen" \/ alert.status # "resolved"
  BY <1>1 DEF A!May, A!Transitions
<1> DEFINE b == [pc |-> "transition", kind |-> kind, actor |-> actor, read |-> alert]
<1>3. RequestKnowsRow(b, elapsed)
  BY <1>2 DEF RequestKnowsRow, AlertInv
<1>4. UNCHANGED <<alert, elapsed>>
  BY DEF A!OpenTransition
<1> HIDE DEF b
<1> QED
  BY <1>1, <1>3, <1>4, RequestMoves DEF AlertInv, b

LEMMA OpenRiskKeeps ==
    ASSUME AlertInv, NEW d \in Desks, A!OpenRisk(d) PROVE AlertInv'
<1> DEFINE b == [A!Free EXCEPT !.pc = "risk", !.read = alert]
<1>1. alertDesk' = [alertDesk EXCEPT ![d] = b] /\ UNCHANGED <<alert, elapsed>>
  BY DEF A!OpenRisk, A!Begin
<1>2. b.pc = "risk" /\ b.read = alert
  BY DEF A!Free
<1> HIDE DEF b
<1>3. RequestKnowsRow(b, elapsed)
  BY <1>2 DEF RequestKnowsRow, AlertInv
<1> QED
  BY <1>1, <1>3, RequestMoves DEF AlertInv

\* A transition or a risk acknowledgement touches neither the count nor the cooldown.
LEMMA MovedKeepsCount ==
    ASSUME NEW ended, NEW row, Counted(row, ended), NEW kind \in A!Transitions, NEW actor,
           NEW assignee
    PROVE  /\ A!Moved(kind, row, actor, assignee).occurrences = row.occurrences
           /\ A!Moved(kind, row, actor, assignee).cooling = row.cooling
  BY NoAlertFields DEF A!Moved, A!Transitions, Counted, AlertFields


LEMMA WriteKeeps ==
    ASSUME AlertInv, NEW d \in Desks, A!transition_alert(d) \/ A!acknowledge_machine_risk(d)
    PROVE  AlertInv'
<1> DEFINE read == alertDesk[d].read
<1>1. /\ alertDesk' = [alertDesk EXCEPT ![d] = A!Free] /\ UNCHANGED elapsed
      /\ elapsed \in Nat /\ Counted(read, elapsed) /\ Counted(alert, elapsed)
  BY DEF A!transition_alert, A!acknowledge_machine_risk, A!Finish, AlertInv, RequestKnowsRow
<1>2. PICK new : /\ alert' = A!Flush(alert, read, new)
                 /\ new.occurrences = read.occurrences /\ new.cooling = read.cooling
  <2>1. CASE A!transition_alert(d)
    <3>1. PICK assignee \in Users :
              alert' = A!Flush(alert, read, A!Moved(alertDesk[d].kind, read,
                                                    alertDesk[d].actor, assignee))
      BY <2>1 DEF A!transition_alert
    <3>2. alertDesk[d].kind \in A!Transitions
      BY <2>1 DEF A!transition_alert, AlertInv, RequestKnowsRow
    <3> HIDE DEF read
    <3> QED
      BY <1>1, <3>1, <3>2, MovedKeepsCount
  <2>2. CASE A!acknowledge_machine_risk(d)
    <3> DEFINE new == IF read.status = "open"
                      THEN [read EXCEPT !.status = "acknowledged"] ELSE read
    <3>1. alert' = A!Flush(alert, read, new)
      BY <2>2 DEF A!acknowledge_machine_risk
    <3>2. new.occurrences = read.occurrences /\ new.cooling = read.cooling
      OBVIOUS
    <3> HIDE DEF new
    <3> QED
      BY <3>1, <3>2
  <2> QED
    BY <2>1, <2>2
<1> HIDE DEF read
<1>3. Counted(alert', elapsed)
  BY <1>1, <1>2, FlushKeepsCount
<1> QED
  BY <1>1, <1>3, FreeKnows, RequestMoves

LEMMA EndpointKeeps ==
    ASSUME AlertInv, A!acknowledge_monitoring_alert \/ A!resolve_monitoring_alert
    PROVE  AlertInv'
<1>1. /\ UNCHANGED <<alertDesk, elapsed>>
      /\ \/ alert' = [alert EXCEPT !.status = "acknowledged"]
         \/ alert' = [alert EXCEPT !.status = "resolved", !.resolvedAt = TRUE]
  BY DEF A!acknowledge_monitoring_alert, A!resolve_monitoring_alert
<1>2. /\ DOMAIN alert' = DOMAIN alert
      /\ alert'.occurrences = alert.occurrences /\ alert'.cooling = alert.cooling
  <2>1. DOMAIN alert = AlertFields
    BY NoAlertFields DEF AlertInv, Counted
  <2> QED
    BY <1>1, <2>1 DEF AlertFields
<1>3. Counted(alert', elapsed)
  BY <1>2 DEF Counted, AlertInv
<1> QED
  BY <1>1, <1>3 DEF AlertInv

LEMMA CooldownKeeps == ASSUME AlertInv, A!EndCooldown PROVE AlertInv'
<1>1. /\ alert' = [alert EXCEPT !.cooling = FALSE] /\ elapsed' = elapsed + 1
      /\ UNCHANGED alertDesk /\ elapsed \in Nat /\ Counted(alert, elapsed)
  BY DEF A!EndCooldown, AlertInv
<1>2. /\ DOMAIN alert' = DOMAIN A!NoAlert /\ alert'.occurrences = alert.occurrences
      /\ alert'.cooling \in BOOLEAN
  BY <1>1, NoAlertFields DEF Counted, AlertFields
<1>3. Counted(alert', elapsed + 1)
  BY <1>1, <1>2 DEF Counted
<1>4. \A d \in Desks : RequestKnowsRow(alertDesk[d], elapsed + 1)
  BY <1>1, CountedLater DEF RequestKnowsRow, AlertInv
<1>5. elapsed + 1 \in Nat
  BY <1>1
<1> QED
  BY <1>1, <1>3, <1>4, <1>5 DEF AlertInv

\* Whatever the requests, the users and the bounds: the invariant of the alert.
THEOREM AlertInvariance == A!Spec => []AlertInv
<1>1. A!Init => AlertInv
  <2> SUFFICES ASSUME A!Init PROVE AlertInv
    OBVIOUS
  <2>1. /\ alert = A!NoAlert /\ elapsed = 0 /\ alertDesk = [d \in Desks |-> A!Free]
    BY DEF A!Init
  <2>2. Counted(A!NoAlert, 0) /\ RequestKnowsRow(A!Free, 0)
    BY NoAlertCounted, FreeKnows
  <2> QED
    BY <2>1, <2>2 DEF AlertInv
<1>2. AlertInv /\ [A!Next]_(A!vars) => AlertInv'
  <2> SUFFICES ASSUME AlertInv, [A!Next]_(A!vars) PROVE AlertInv'
    OBVIOUS
  <2>1. CASE A!EndCooldown \/ A!acknowledge_monitoring_alert \/ A!resolve_monitoring_alert
    BY <2>1, CooldownKeeps, EndpointKeeps
  <2>2. CASE \E d \in Desks : \/ A!Predict(d) \/ A!StoreAssessment(d)
                              \/ A!OpenTransition(d) \/ A!transition_alert(d)
                              \/ A!OpenRisk(d) \/ A!acknowledge_machine_risk(d)
    BY <2>2, PredictKeeps, StoreKeeps, OpenTransitionKeeps, WriteKeeps, OpenRiskKeeps
  <2>3. CASE UNCHANGED A!vars
    BY <2>3 DEF A!vars, AlertInv
  <2> QED
    BY <2>1, <2>2, <2>3 DEF A!Next
<1> QED
  BY <1>1, <1>2, PTL DEF A!Spec

\* However predictions overlap with each other and with the operations workspace: an
\* alert counts one detection for each cooldown that has ended, and the first.
THEOREM DetectionsAreCounted == A!Spec => []OncePerCooldown
<1>1. AlertInv => OncePerCooldown
  <2> SUFFICES ASSUME AlertInv PROVE alert.occurrences <= 1 + elapsed
    BY DEF OncePerCooldown, A!OncePerCooldown
  <2> QED
    BY DEF AlertInv, Counted
<1> QED
  BY <1>1, AlertInvariance, PTL


LEMMA UnresolvedBy ==
    ASSUME AlertInv, [A!Next]_(A!vars), alert.status = "resolved", alert'.status # "resolved"
    PROVE  \E d \in Desks :
               /\ alertDesk'[d] # alertDesk[d]
               /\ alertDesk[d].kind = "reopen" \/ alertDesk[d].read.status # "resolved"
<1> USE DEF AlertInv
<1>1. alert' # alert
  OBVIOUS
<1>2. DOMAIN alert = AlertFields
  BY NoAlertFields DEF Counted
<1>3. ~A!EndCooldown
  BY <1>2 DEF A!EndCooldown, AlertFields
<1>4. ~A!acknowledge_monitoring_alert /\ ~A!resolve_monitoring_alert
  BY DEF A!acknowledge_monitoring_alert, A!resolve_monitoring_alert
<1>5. PICK d \in Desks : \/ A!Predict(d) \/ A!StoreAssessment(d)
                         \/ A!OpenTransition(d) \/ A!transition_alert(d)
                         \/ A!OpenRisk(d) \/ A!acknowledge_machine_risk(d)
  BY <1>1, <1>3, <1>4 DEF A!Next, A!vars
<1>6. ~A!Predict(d) /\ ~A!OpenTransition(d) /\ ~A!OpenRisk(d)
  BY <1>1 DEF A!Predict, A!OpenTransition, A!OpenRisk
<1> DEFINE read == alertDesk[d].read
<1>7. /\ alertDesk[d].pc # "free" /\ alertDesk' = [alertDesk EXCEPT ![d] = A!Free]
      /\ DOMAIN alertDesk = Desks /\ RequestKnowsRow(alertDesk[d], elapsed)
  BY <1>5, <1>6 DEF A!StoreAssessment, A!transition_alert, A!acknowledge_machine_risk, A!Finish
<1>8. alertDesk'[d] # alertDesk[d]
  <2>1. alertDesk'[d] = A!Free /\ A!Free.pc = "free"
    BY <1>7 DEF A!Free
  <2> QED
    BY <1>7, <2>1
<1>9. DOMAIN read = AlertFields
  BY <1>7, NoAlertFields DEF RequestKnowsRow, Counted
<1>10. CASE A!StoreAssessment(d)
  <2>1. read.status # "resolved"
    <3> SUFFICES ASSUME read.status = "resolved" PROVE FALSE
      OBVIOUS
    <3>1. read # A!NoAlert
      BY NoAlertFields
    <3>2. alert' = A!Flush(alert, read, A!Redetected(read))
      BY <1>10, <3>1 DEF A!StoreAssessment
    <3>3. A!Redetected(read).status = read.status
      BY <1>9 DEF A!Redetected, AlertFields
    <3> QED
      BY <3>2, <3>3, FlushedCount
  <2> QED
    BY <1>8, <2>1
<1>11. CASE A!transition_alert(d)
  BY <1>7, <1>8, <1>11 DEF RequestKnowsRow, A!transition_alert
<1>12. CASE A!acknowledge_machine_risk(d)
  <2>1. read.status # "resolved"
    <3> SUFFICES ASSUME read.status = "resolved" PROVE FALSE
      OBVIOUS
    <3>1. alert' = A!Flush(alert, read, read)
      BY <1>12 DEF A!acknowledge_machine_risk
    <3> QED
      BY <3>1, FlushedCount
  <2> QED
    BY <1>8, <2>1
<1> QED
  BY <1>5, <1>6, <1>10, <1>11, <1>12

\* A resolved alert stays resolved until someone reopens it, or a request writes what it
\* decided before the alert was resolved.
THEOREM ResolutionStays == A!Spec => ResolvedStays
<1>1. AlertInv /\ [A!Next]_(A!vars)
      => [alert.status = "resolved" /\ alert'.status # "resolved" =>
            \E d \in Desks :
                /\ alertDesk'[d] # alertDesk[d]
                /\ alertDesk[d].kind = "reopen"
                   \/ alertDesk[d].read.status # "resolved"]_(A!vars)
  BY UnresolvedBy
<1> QED
  BY <1>1, AlertInvariance, PTL DEF A!Spec, ResolvedStays, A!ResolvedStays


-----------------------------------------------------------------------------
(* Prediction events and their outcomes *)

SameCardinality == \A S : E!Cardinality(S) = Cardinality(S)

LEMMA OneCardinality == SameCardinality
  BY DEF SameCardinality, E!Cardinality, Cardinality

OutcomeRow == [event : Nat, key : Keys \cup {NoKey}, actual : {0, 1}, mature : BOOLEAN]

SoundEvent(e, n) == e.at \in 0 .. (n - 1) /\ e.label \in {0, 1}

\* What a request has yet to write: a capture, an event nobody has; an outcome, one of a
\* labelled event, unless that event has been deleted since it was read.
CallKnows(c, rows, n) ==
    /\ c.pc = "capture" => SoundEvent(c.event, n) /\ \A e \in rows : e.at # c.event.at
    /\ c.pc = "upsert" => /\ c.row \in OutcomeRow /\ c.row.event \in 0 .. (n - 1)
                          /\ \A e \in rows : e.at = c.row.event => E!Labelled(e)

Captures(calls) == {c \in Calls : calls[c].pc = "capture"}

Numbers == /\ started \in Nat /\ cutoff \in Nat /\ failures \in Nat /\ lost \in Nat
           /\ cutoff <= started

\* Events are told apart by the time their prediction started.
EventsApart ==
    /\ IsFiniteSet(stored) /\ \A e \in stored : SoundEvent(e, started)
    /\ \A e, f \in stored : e.at = f.at => e = f

CallsApart ==
    /\ DOMAIN call = Calls /\ \A c \in Calls : CallKnows(call[c], stored, started)
    /\ \A c, d \in Calls :
          call[c].pc = "capture" =>
              /\ call[d].pc = "capture" /\ call[c].event.at = call[d].event.at => c = d
              /\ call[d].pc = "upsert" => call[c].event.at # call[d].row.event

OutcomesApart ==
    /\ IsFiniteSet(outcomes) /\ outcomes \subseteq OutcomeRow
    /\ \A o, p \in outcomes : o # p => o.event # p.event /\ (o.key # p.key \/ o.key = NoKey)
    /\ \A o \in outcomes : \E e \in stored : e.at = o.event /\ E!Labelled(e)

\* The times of the events that were deleted.
Deleted(gone, rows, calls, before) ==
    /\ gone \subseteq 0 .. (before - 1)
    /\ \A e \in rows : e.at \notin gone
    /\ \A c \in Captures(calls) : calls[c].event.at \notin gone

Accounted ==
    \E gone : /\ Deleted(gone, stored, call, cutoff)
              /\ started = Cardinality(stored) + failures + lost + Cardinality(gone)
                           + Cardinality(Captures(call))

EventsInv == Numbers /\ EventsApart /\ CallsApart /\ OutcomesApart /\ Accounted

LEMMA CaptureCount ==
    ASSUME NEW calls
    PROVE  IsFiniteSet(Captures(calls)) /\ Cardinality(Captures(calls)) \in Nat
<1>1. Captures(calls) \in SUBSET Calls
  BY DEF Captures
<1> QED
  BY <1>1, CallsAssumption, FS_Subset, FS_CardinalityType

\* One request moves.
LEMMA CaptureMoves ==
    ASSUME DOMAIN call = Calls, NEW c \in Calls, NEW b, call' = [call EXCEPT ![c] = b]
    PROVE  /\ call[c].pc # "capture" /\ b.pc # "capture" =>
                  Cardinality(Captures(call')) = Cardinality(Captures(call))
           /\ call[c].pc = "capture" /\ b.pc # "capture" =>
                  Cardinality(Captures(call')) = Cardinality(Captures(call)) - 1
           /\ call[c].pc # "capture" /\ b.pc = "capture" =>
                  Cardinality(Captures(call')) = Cardinality(Captures(call)) + 1
<1>1. b.pc # "capture" => Captures(call') = Captures(call) \ {c}
  BY DEF Captures
<1>2. b.pc = "capture" => Captures(call') = Captures(call) \cup {c}
  BY DEF Captures
<1>3. c \in Captures(call) <=> call[c].pc = "capture"
  BY DEF Captures
<1>4. /\ Cardinality(Captures(call) \ {c}) = IF c \in Captures(call)
              THEN Cardinality(Captures(call)) - 1 ELSE Cardinality(Captures(call))
      /\ Cardinality(Captures(call) \cup {c}) = IF c \in Captures(call)
              THEN Cardinality(Captures(call)) ELSE Cardinality(Captures(call)) + 1
  BY CaptureCount, FS_AddElement, FS_RemoveElement
<1> QED
  BY <1>1, <1>2, <1>3, <1>4

LEMMA GoneCount ==
    ASSUME NEW before \in Nat, NEW gone, gone \subseteq 0 .. (before - 1)
    PROVE  IsFiniteSet(gone) /\ Cardinality(gone) \in 0 .. before
<1>1. IsFiniteSet(0 .. (before - 1)) /\ Cardinality(0 .. (before - 1)) = before
  BY FS_Interval
<1>2. IsFiniteSet(gone) /\ Cardinality(gone) <= before
  BY <1>1, FS_Subset
<1> QED
  BY <1>2, FS_CardinalityType

\* A prediction starts, at a time of its own.
LEMMA PredictEventKeeps ==
    ASSUME EventsInv, NEW c \in Calls, E!Predict(c) PROVE EventsInv'
<1> USE DEF EventsInv
<1> DEFINE Kinds == [status : {"succeeded"}, rows : {1}, label : E!Labels]
                    \cup {[status |-> "succeeded", rows |-> 2, label |-> 0],
                          [status |-> "failed", rows |-> 1, label |-> 0]}
           Captured(kind) == [pc |-> "capture",
                              event |-> [at |-> started, status |-> kind.status,
                                         rows |-> kind.rows, label |-> kind.label]]
<1>12. PICK kind \in Kinds : call' = [call EXCEPT ![c] = Captured(kind)]
  BY DEF E!Predict, E!Set
<1>13. kind.label \in {0, 1}
  BY DEF E!Labels
<1> DEFINE b == Captured(kind)
<1>1. call' = [call EXCEPT ![c] = b]
  BY <1>12
<1>2. /\ started' = started + 1 /\ UNCHANGED <<stored, outcomes, cutoff, failures, lost>>
      /\ call[c].pc = "rest"
  BY DEF E!Predict
<1>3. b.pc = "capture" /\ b.event.at = started /\ b.event.label \in {0, 1}
  BY <1>13
<1> HIDE DEF b, Kinds, Captured
<1>4. Numbers'
  BY <1>2 DEF Numbers
<1>5. \A e : SoundEvent(e, started) => SoundEvent(e, started + 1)
  BY DEF SoundEvent, Numbers
<1>6. EventsApart'
  BY <1>2, <1>5 DEF EventsApart
<1>7. DOMAIN call' = Calls /\ call'[c] = b /\ \A d \in Calls : d # c => call'[d] = call[d]
  BY <1>1 DEF CallsApart, b
<1>8. \A d \in Calls : CallKnows(call'[d], stored, started + 1)
  <2> TAKE d \in Calls
  <2>1. CASE d = c
    <3>1. SoundEvent(b.event, started + 1)
      BY <1>3 DEF SoundEvent, Numbers
    <3>2. \A e \in stored : e.at # started
      BY DEF EventsApart, SoundEvent, Numbers
    <3> QED
      BY <2>1, <1>3, <1>7, <3>1, <3>2 DEF CallKnows
  <2>2. CASE d # c
    <3>1. CallKnows(call[d], stored, started) /\ call'[d] = call[d]
      BY <2>2, <1>7 DEF CallsApart
    <3>2. \A n : n \in 0 .. (started - 1) => n \in 0 .. started
      BY DEF Numbers
    <3> QED
      BY <3>1, <3>2, <1>5 DEF CallKnows, Numbers
  <2> QED
    BY <2>1, <2>2
<1>9. CallsApart'
  <2>1. \A d \in Calls : d # c =>
            /\ call[d].pc = "capture" => call[d].event.at # started
            /\ call[d].pc = "upsert" => call[d].row.event # started
    BY DEF CallsApart, CallKnows, SoundEvent, Numbers
  <2> QED
    BY <1>2, <1>3, <1>7, <1>8, <2>1 DEF CallsApart
<1>10. OutcomesApart'
  BY <1>2 DEF OutcomesApart
<1>11. Accounted'
  <2>1. PICK gone : /\ Deleted(gone, stored, call, cutoff)
                    /\ started = Cardinality(stored) + failures + lost + Cardinality(gone)
                                 + Cardinality(Captures(call))
    BY DEF Accounted
  <2>2. Cardinality(Captures(call')) = Cardinality(Captures(call)) + 1
    BY <1>1, <1>2, <1>3, CaptureMoves DEF CallsApart, b
  <2>3. started \notin gone
    BY <2>1 DEF Deleted, Numbers
  <2>4. Deleted(gone, stored, call', cutoff)
    BY <1>3, <1>7, <2>1, <2>3 DEF Deleted, Captures
  <2>5. /\ Cardinality(stored) \in Nat /\ Cardinality(gone) \in Nat
        /\ Cardinality(Captures(call)) \in Nat
    BY <2>1, CaptureCount, GoneCount, FS_CardinalityType DEF EventsApart, Deleted, Numbers
  <2>6. started + 1 = Cardinality(stored) + failures + lost + Cardinality(gone)
                      + Cardinality(Captures(call'))
    BY <2>1, <2>2, <2>5 DEF Numbers
  <2> QED
    BY <1>2, <2>4, <2>6 DEF Accounted
<1> QED
  BY <1>4, <1>6, <1>9, <1>10, <1>11


\* A request that ends; what it leaves behind is given.
LEMMA CallRests ==
    ASSUME CallsApart, NEW c \in Calls, call' = [call EXCEPT ![c] = E!Rest],
           UNCHANGED started, stored' \subseteq stored
    PROVE  CallsApart'
<1>1. E!Rest.pc = "rest"
  BY DEF E!Rest
<1>2. /\ DOMAIN call' = Calls /\ call'[c] = E!Rest
      /\ \A d \in Calls : d # c => call'[d] = call[d]
  BY DEF CallsApart
<1>3. \A d \in Calls : CallKnows(call'[d], stored', started)
  <2> TAKE d \in Calls
  <2>1. CASE d = c
    BY <1>1, <1>2, <2>1 DEF CallKnows
  <2>2. CASE d # c
    BY <1>2, <2>2 DEF CallsApart, CallKnows
  <2> QED
    BY <2>1, <2>2
<1> QED
  BY <1>1, <1>2, <1>3 DEF CallsApart

\* A capture that ends: it was counted as one.
LEMMA CaptureEnds ==
    ASSUME CallsApart, NEW c \in Calls, call' = [call EXCEPT ![c] = E!Rest],
           call[c].pc = "capture"
    PROVE  /\ Cardinality(Captures(call')) = Cardinality(Captures(call)) - 1
           /\ Captures(call') = Captures(call) \ {c}
           /\ \A d \in Captures(call') : call'[d] = call[d]
<1>1. E!Rest.pc # "capture" /\ DOMAIN call = Calls
  BY DEF E!Rest, CallsApart
<1>2. Cardinality(Captures(call')) = Cardinality(Captures(call)) - 1
  BY <1>1, CaptureMoves
<1>3. /\ DOMAIN call' = Calls /\ call'[c] = E!Rest
      /\ \A d \in Calls : d # c => call'[d] = call[d]
  BY DEF CallsApart
<1> QED
  BY <1>1, <1>2, <1>3 DEF Captures

LEMMA Counts ==
    ASSUME EventsInv, NEW gone, Deleted(gone, stored, call, cutoff)
    PROVE  /\ Cardinality(stored) \in Nat /\ Cardinality(gone) \in 0 .. cutoff
           /\ IsFiniteSet(gone) /\ Cardinality(Captures(call)) \in Nat
  BY CaptureCount, GoneCount, FS_CardinalityType
     DEF EventsInv, EventsApart, Deleted, Numbers

LEMMA RecordKeeps ==
    ASSUME EventsInv, NEW c \in Calls, E!Record(c) PROVE EventsInv'
<1> USE DEF EventsInv
<1> DEFINE e == call[c].event
<1>1. /\ call[c].pc = "capture" /\ stored' = stored \cup {e}
      /\ call' = [call EXCEPT ![c] = E!Rest]
      /\ UNCHANGED <<started, outcomes, cutoff, failures, lost>>
  BY DEF E!Record, E!Set
<1>2. SoundEvent(e, started) /\ \A f \in stored : f.at # e.at
  BY <1>1 DEF CallsApart, CallKnows
<1> HIDE DEF e
<1>3. Numbers'
  BY <1>1 DEF Numbers
<1>4. EventsApart'
  BY <1>1, <1>2, FS_AddElement DEF EventsApart
<1>5. CallsApart'
  <2>1. E!Rest.pc = "rest"
    BY DEF E!Rest
  <2>2. /\ DOMAIN call' = Calls /\ call'[c] = E!Rest
        /\ \A d \in Calls : d # c => call'[d] = call[d]
    BY <1>1 DEF CallsApart
  <2>3. \A d \in Calls : CallKnows(call'[d], stored', started)
    <3> TAKE d \in Calls
    <3>1. CASE d = c
      BY <2>1, <2>2, <3>1 DEF CallKnows
    <3>2. CASE d # c
      <4>1. CallKnows(call[d], stored, started) /\ call'[d] = call[d]
        BY <2>2, <3>2 DEF CallsApart
      <4>2. /\ call[d].pc = "capture" => call[d].event.at # e.at
            /\ call[d].pc = "upsert" => call[d].row.event # e.at
        BY <1>1, <3>2 DEF CallsApart, e
      <4> QED
        BY <1>1, <4>1, <4>2 DEF CallKnows
    <3> QED
      BY <3>1, <3>2
  <2> QED
    BY <1>1, <2>1, <2>2, <2>3 DEF CallsApart
<1>6. OutcomesApart'
  BY <1>1 DEF OutcomesApart
<1>7. Accounted'
  <2>1. PICK gone : /\ Deleted(gone, stored, call, cutoff)
                    /\ started = Cardinality(stored) + failures + lost + Cardinality(gone)
                                 + Cardinality(Captures(call))
    BY DEF Accounted
  <2>2. /\ Cardinality(Captures(call')) = Cardinality(Captures(call)) - 1
        /\ Captures(call') = Captures(call) \ {c}
        /\ \A d \in Captures(call') : call'[d] = call[d]
    BY <1>1, CaptureEnds
  <2>3. Cardinality(stored') = Cardinality(stored) + 1
    <3>1. e \notin stored
      BY <1>2
    <3> QED
      BY <1>1, <3>1, FS_AddElement DEF EventsApart
  <2>4. e.at \notin gone
    BY <1>1, <2>1 DEF Deleted, Captures, e
  <2>5. Deleted(gone, stored', call', cutoff)
    BY <1>1, <2>1, <2>2, <2>4 DEF Deleted
  <2>6. started = Cardinality(stored') + failures + lost + Cardinality(gone)
                  + Cardinality(Captures(call'))
    BY <2>1, <2>2, <2>3, Counts DEF Numbers
  <2> QED
    BY <1>1, <2>5, <2>6 DEF Accounted
<1> QED
  BY <1>3, <1>4, <1>5, <1>6, <1>7

LEMMA RecordFailsKeeps ==
    ASSUME EventsInv, NEW c \in Calls, E!RecordFails(c) PROVE EventsInv'
<1> USE DEF EventsInv
<1>1. /\ call[c].pc = "capture" /\ failures' = failures + 1
      /\ call' = [call EXCEPT ![c] = E!Rest]
      /\ UNCHANGED <<started, stored, outcomes, cutoff, lost>>
  BY DEF E!RecordFails, E!Set, E!failuresCounted
<1>2. Numbers' /\ EventsApart' /\ OutcomesApart'
  BY <1>1 DEF Numbers, EventsApart, OutcomesApart
<1>3. CallsApart'
  BY <1>1, CallRests
<1>4. Accounted'
  <2>1. PICK gone : /\ Deleted(gone, stored, call, cutoff)
                    /\ started = Cardinality(stored) + failures + lost + Cardinality(gone)
                                 + Cardinality(Captures(call))
    BY DEF Accounted
  <2>2. /\ Cardinality(Captures(call')) = Cardinality(Captures(call)) - 1
        /\ Captures(call') = Captures(call) \ {c}
        /\ \A d \in Captures(call') : call'[d] = call[d]
    BY <1>1, CaptureEnds
  <2>3. Deleted(gone, stored, call', cutoff)
    BY <2>1, <2>2 DEF Deleted
  <2>4. started = Cardinality(stored) + (failures + 1) + lost + Cardinality(gone)
                  + Cardinality(Captures(call'))
    BY <2>1, <2>2, Counts DEF Numbers
  <2> QED
    BY <1>1, <2>3, <2>4 DEF Accounted
<1> QED
  BY <1>2, <1>3, <1>4

LEMMA RestartKeeps == ASSUME EventsInv, E!Restart PROVE EventsInv'
<1> USE DEF EventsInv
<1>1. /\ lost' = lost + failures + Cardinality(Captures(call)) /\ failures' = 0
      /\ call' = [c \in Calls |-> E!Rest] /\ UNCHANGED <<started, stored, outcomes, cutoff>>
  BY OneCardinality DEF E!Restart, SameCardinality, Captures
<1>2. E!Rest.pc = "rest"
  BY DEF E!Rest
<1>3. Captures(call') = {} /\ Cardinality(Captures(call)) \in Nat
  BY <1>1, <1>2, CaptureCount DEF Captures
<1>4. Numbers' /\ EventsApart' /\ OutcomesApart'
  BY <1>1, <1>3 DEF Numbers, EventsApart, OutcomesApart
<1>5. CallsApart'
  BY <1>1, <1>2 DEF CallsApart, CallKnows
<1>6. Accounted'
  <2>1. PICK gone : /\ Deleted(gone, stored, call, cutoff)
                    /\ started = Cardinality(stored) + failures + lost + Cardinality(gone)
                                 + Cardinality(Captures(call))
    BY DEF Accounted
  <2>2. Deleted(gone, stored, call', cutoff)
    BY <1>3, <2>1 DEF Deleted
  <2>3. Cardinality(Captures(call')) = 0
    BY <1>3, FS_EmptySet
  <2>4. started = Cardinality(stored) + 0 + lost' + Cardinality(gone)
                  + Cardinality(Captures(call'))
    BY <1>1, <2>1, <2>3, Counts DEF Numbers
  <2> QED
    BY <1>1, <2>2, <2>4 DEF Accounted
<1> QED
  BY <1>4, <1>5, <1>6


LEMMA AccountedStays ==
    ASSUME Accounted, UNCHANGED <<started, stored, cutoff, failures, lost>>,
           Captures(call') = Captures(call), \A d \in Captures(call) : call'[d] = call[d]
    PROVE  Accounted'
<1>1. PICK gone : /\ Deleted(gone, stored, call, cutoff)
                  /\ started = Cardinality(stored) + failures + lost + Cardinality(gone)
                               + Cardinality(Captures(call))
  BY DEF Accounted
<1>2. Deleted(gone, stored, call', cutoff)
  BY <1>1 DEF Deleted
<1> QED
  BY <1>1, <1>2 DEF Accounted

\* A request that is not, and does not become, a capture.
LEMMA OtherMoves ==
    ASSUME Accounted, UNCHANGED <<started, stored, cutoff, failures, lost>>,
           DOMAIN call = Calls, NEW c \in Calls, NEW b, call' = [call EXCEPT ![c] = b],
           call[c].pc # "capture", b.pc # "capture"
    PROVE  Accounted'
<1>1. Captures(call') = Captures(call) /\ \A d \in Captures(call) : call'[d] = call[d]
  BY DEF Captures
<1> QED
  BY <1>1, AccountedStays

LEMMA ReadOutcomeKeeps ==
    ASSUME EventsInv, NEW c \in Calls, E!ReadOutcome(c) PROVE EventsInv'
<1> USE DEF EventsInv
<1>1. PICK event \in stored, key \in Keys \cup {NoKey}, actual \in {0, 1} :
          /\ E!Labelled(event)
          /\ call' = [call EXCEPT ![c] =
                        [pc |-> "upsert", exists |-> E!OutcomeOf(event.at) # {},
                         row |-> [event |-> event.at, key |-> key, actual |-> actual,
                                  mature |-> FALSE]]]
  BY DEF E!ReadOutcome, E!Set, E!Labels
<1>2. /\ UNCHANGED <<started, stored, outcomes, cutoff, failures, lost>>
      /\ call[c].pc = "rest"
  BY DEF E!ReadOutcome
<1> DEFINE b == [pc |-> "upsert", exists |-> E!OutcomeOf(event.at) # {},
                 row |-> [event |-> event.at, key |-> key, actual |-> actual,
                          mature |-> FALSE]]
<1>3. event.at \in 0 .. (started - 1) /\ started \in Nat
  BY DEF EventsApart, SoundEvent, Numbers
<1>4. b.pc = "upsert" /\ b.row \in OutcomeRow /\ b.row.event = event.at
  BY <1>3 DEF OutcomeRow
<1>5. call' = [call EXCEPT ![c] = b]
  BY <1>1
<1> HIDE DEF b
<1>6. Numbers' /\ EventsApart' /\ OutcomesApart'
  BY <1>2 DEF Numbers, EventsApart, OutcomesApart
<1>7. CallsApart'
  <2>1. /\ DOMAIN call' = Calls /\ call'[c] = b
        /\ \A d \in Calls : d # c => call'[d] = call[d]
    BY <1>5 DEF CallsApart
  <2>2. \A e \in stored : e.at = event.at => E!Labelled(e)
    BY <1>1 DEF EventsApart
  <2>3. CallKnows(b, stored, started)
    BY <1>3, <1>4, <2>2 DEF CallKnows
  <2>4. \A d \in Calls : CallKnows(call'[d], stored, started)
    BY <2>1, <2>3 DEF CallsApart
  <2>5. \A d \in Calls : call[d].pc = "capture" => call[d].event.at # event.at
    BY DEF CallsApart, CallKnows
  <2> QED
    BY <1>2, <1>4, <2>1, <2>4, <2>5 DEF CallsApart
<1>8. Accounted'
  BY <1>2, <1>4, <1>5, OtherMoves DEF CallsApart
<1> QED
  BY <1>6, <1>7, <1>8

LEMMA StoreOutcomeKeeps ==
    ASSUME EventsInv, NEW c \in Calls, E!StoreOutcome(c) PROVE EventsInv'
<1> USE DEF EventsInv
<1> DEFINE row == call[c].row
<1>1. /\ call[c].pc = "upsert" /\ call' = [call EXCEPT ![c] = E!Rest]
      /\ UNCHANGED <<started, stored, cutoff, failures, lost>>
  BY DEF E!StoreOutcome, E!Set
<1>2. Numbers' /\ EventsApart'
  BY <1>1 DEF Numbers, EventsApart
<1>3. CallsApart'
  BY <1>1, CallRests
<1>4. Accounted'
  <2>1. E!Rest.pc # "capture" /\ DOMAIN call = Calls
    BY DEF E!Rest, CallsApart
  <2> QED
    BY <1>1, <2>1, OtherMoves
<1>5. OutcomesApart'
  <2>1. CASE UNCHANGED outcomes
    BY <1>1, <2>1 DEF OutcomesApart
  <2>2. CASE outcomes' # outcomes
    <3> DEFINE dropped == IF call[c].exists THEN E!OutcomeOf(row.event) ELSE {}
               kept == outcomes \ dropped
    <3>1. E!Admits(c) /\ outcomes' = kept \cup {row}
      BY <2>2 DEF E!StoreOutcome
    <3>2. row \in OutcomeRow /\ \A e \in stored : e.at = row.event => E!Labelled(e)
      BY <1>1 DEF CallsApart, CallKnows
    <3>3. \E e \in stored : e.at = row.event /\ E!Labelled(e)
      BY <3>1, <3>2 DEF E!Admits, E!EventAt
    <3>4. \A o \in kept : o.event # row.event
      BY <3>1 DEF E!Admits, E!OutcomeOf
    <3>5. \A o \in kept : o.key # row.key \/ row.key = NoKey
      BY <3>1, <3>4 DEF E!Admits, E!OutcomeOf, E!WithKey
    <3>6. kept \subseteq outcomes
      OBVIOUS
    <3> HIDE DEF kept, row
    <3>7. IsFiniteSet(outcomes') /\ outcomes' \subseteq OutcomeRow
      BY <3>1, <3>2, <3>6, FS_Subset, FS_AddElement DEF OutcomesApart
    <3>8. \A o, p \in outcomes' :
             o # p => o.event # p.event /\ (o.key # p.key \/ o.key = NoKey)
      BY <3>1, <3>4, <3>5, <3>6 DEF OutcomesApart
    <3>9. \A o \in outcomes' : \E e \in stored : e.at = o.event /\ E!Labelled(e)
      BY <3>1, <3>3, <3>6 DEF OutcomesApart
    <3> QED
      BY <1>1, <3>7, <3>8, <3>9 DEF OutcomesApart
  <2> QED
    BY <2>1, <2>2
<1> QED
  BY <1>2, <1>3, <1>4, <1>5

LEMMA MatureKeeps == ASSUME EventsInv, E!Mature PROVE EventsInv'
<1> USE DEF EventsInv
<1>1. PICK o \in outcomes : outcomes' = (outcomes \ {o}) \cup {[o EXCEPT !.mature = TRUE]}
  BY DEF E!Mature
<1>2. UNCHANGED <<started, stored, cutoff, failures, lost, call>>
  BY DEF E!Mature
<1> DEFINE p == [o EXCEPT !.mature = TRUE]
<1>3. o \in OutcomeRow
  BY DEF OutcomesApart
<1>4. p \in OutcomeRow /\ p.event = o.event /\ p.key = o.key
  BY <1>3 DEF OutcomeRow
<1> HIDE DEF p
<1>5. outcomes' = (outcomes \ {o}) \cup {p}
  BY <1>1 DEF p
<1>6. IsFiniteSet(outcomes') /\ outcomes' \subseteq OutcomeRow
  BY <1>4, <1>5, FS_AddElement, FS_RemoveElement DEF OutcomesApart
<1>7. OutcomesApart'
  BY <1>2, <1>4, <1>5, <1>6 DEF OutcomesApart
<1>8. Numbers' /\ EventsApart' /\ CallsApart'
  BY <1>2 DEF Numbers, EventsApart, CallsApart
<1>9. Accounted'
  BY <1>2, AccountedStays
<1> QED
  BY <1>7, <1>8, <1>9

LEMMA AgeKeeps == ASSUME EventsInv, E!Age PROVE EventsInv'
<1> USE DEF EventsInv
<1>1. /\ cutoff < started /\ cutoff' = cutoff + 1
      /\ UNCHANGED <<started, stored, outcomes, failures, lost, call>>
  BY DEF E!Age
<1>2. Numbers'
  BY <1>1 DEF Numbers
<1>3. EventsApart' /\ CallsApart' /\ OutcomesApart'
  BY <1>1 DEF EventsApart, CallsApart, OutcomesApart
<1>4. Accounted'
  <2>1. PICK gone : /\ Deleted(gone, stored, call, cutoff)
                    /\ started = Cardinality(stored) + failures + lost + Cardinality(gone)
                                 + Cardinality(Captures(call))
    BY DEF Accounted
  <2>2. 0 .. (cutoff - 1) \subseteq 0 .. ((cutoff + 1) - 1)
    BY DEF Numbers
  <2>3. Deleted(gone, stored, call, cutoff + 1)
    BY <2>1, <2>2 DEF Deleted
  <2> QED
    BY <1>1, <2>1, <2>3 DEF Accounted
<1> QED
  BY <1>2, <1>3, <1>4

\* What retention deletes is older than the cutoff and has no outcome; its times are
\* not those of the events that were deleted before.
LEMMA RetainKeeps == ASSUME EventsInv, E!retain_prediction_events PROVE EventsInv'
<1> USE DEF EventsInv
<1> DEFINE batch == E!Deletes(E!OldestBatch)
<1>1. /\ stored' = stored \ batch
      /\ UNCHANGED <<started, outcomes, cutoff, failures, lost, call>>
  BY DEF E!retain_prediction_events
<1>2. batch \subseteq {e \in stored : e.at < cutoff}
  BY DEF E!Deletes, E!OldestBatch
<1>3. \A e \in batch : E!OutcomeOf(e.at) = {}
  BY DEF E!Deletes
<1> HIDE DEF batch
<1>4. IsFiniteSet(batch) /\ IsFiniteSet(stored')
  BY <1>1, <1>2, FS_Subset DEF EventsApart
<1>5. Numbers' /\ EventsApart'
  BY <1>1, <1>4 DEF Numbers, EventsApart
<1>6. CallsApart'
  BY <1>1 DEF CallsApart, CallKnows
<1>7. OutcomesApart'
  BY <1>1, <1>3 DEF OutcomesApart, E!OutcomeOf
<1>8. Accounted'
  <2>1. PICK gone : /\ Deleted(gone, stored, call, cutoff)
                    /\ started = Cardinality(stored) + failures + lost + Cardinality(gone)
                                 + Cardinality(Captures(call))
    BY DEF Accounted
  <2> DEFINE times == {e.at : e \in batch}
             now == gone \cup times
  <2>2. times \subseteq 0 .. (cutoff - 1) /\ times \cap gone = {}
    BY <1>2, <2>1 DEF Deleted, EventsApart, SoundEvent, Numbers
  <2>3. \A e \in stored' : e.at \notin times
    BY <1>1, <1>2 DEF EventsApart
  <2>4. \A d \in Captures(call) : call[d].event.at \notin times
    BY <1>2 DEF CallsApart, CallKnows, Captures
  <2>5. Deleted(now, stored', call, cutoff)
    BY <1>1, <2>1, <2>2, <2>3, <2>4 DEF Deleted
  <2>6. IsFiniteSet(times) /\ Cardinality(times) = Cardinality(batch)
    <3> DEFINE at == [e \in batch |-> e.at]
    <3>1. at \in Bijection(batch, times)
      <4>1. at \in [batch -> times]
        OBVIOUS
      <4>2. \A e, f \in batch : at[e] = at[f] => e = f
        BY <1>2 DEF EventsApart
      <4>3. \A x \in times : \E e \in batch : at[e] = x
        OBVIOUS
      <4> QED
        BY <4>1, <4>2, <4>3 DEF Bijection, Injection, Surjection, IsInjective
    <3> QED
      BY <1>4, <3>1, FS_Bijection DEF ExistsBijection
  <2>7. Cardinality(now) = Cardinality(gone) + Cardinality(times)
    <3>1. Cardinality(gone \cap times) = 0
      BY <2>2, FS_EmptySet
    <3>2. Cardinality(gone) \in Nat /\ Cardinality(times) \in Nat
      BY <2>1, <2>6, Counts, FS_CardinalityType DEF Numbers
    <3> QED
      BY <2>1, <2>6, <3>1, <3>2, Counts, FS_Union
  <2>8. Cardinality(stored') = Cardinality(stored) - Cardinality(batch)
    <3>1. stored \cap batch = batch
      BY <1>2
    <3> QED
      BY <1>1, <1>4, <3>1, FS_Difference DEF EventsApart
  <2>9. Cardinality(batch) \in Nat /\ Cardinality(stored') \in Nat
    BY <1>4, FS_CardinalityType
  <2>10. started = Cardinality(stored') + failures + lost + Cardinality(now)
                   + Cardinality(Captures(call))
    BY <2>1, <2>6, <2>7, <2>8, <2>9, Counts DEF Numbers
  <2> HIDE DEF now
  <2> QED
    BY <1>1, <2>5, <2>10 DEF Accounted
<1> QED
  BY <1>5, <1>6, <1>7, <1>8

LEMMA EventsStep == ASSUME EventsInv, [E!Next]_(E!vars) PROVE EventsInv'
<1>1. CASE E!Restart \/ E!Mature \/ E!Age \/ E!retain_prediction_events
  BY <1>1, RestartKeeps, MatureKeeps, AgeKeeps, RetainKeeps
<1>2. CASE \E c \in Calls : \/ E!Predict(c) \/ E!Record(c) \/ E!RecordFails(c)
                            \/ E!ReadOutcome(c) \/ E!StoreOutcome(c)
  BY <1>2, PredictEventKeeps, RecordKeeps, RecordFailsKeeps, ReadOutcomeKeeps,
     StoreOutcomeKeeps
<1>3. CASE UNCHANGED E!vars
  <2>1. UNCHANGED <<started, stored, outcomes, cutoff, failures, lost, call>>
    BY <1>3 DEF E!vars
  <2> QED
    BY <2>1 DEF EventsInv, Numbers, EventsApart, CallsApart, OutcomesApart, Accounted
<1> QED
  BY <1>1, <1>2, <1>3 DEF E!Next

\* The events, the outcomes and what the requests under way will write agree, and every
\* attempt to predict is in one of five places.
THEOREM EventsInvariance == E!Spec => []EventsInv
<1>1. E!Init => EventsInv
  <2> SUFFICES ASSUME E!Init PROVE EventsInv
    OBVIOUS
  <2>1. /\ started = 0 /\ cutoff = 0 /\ failures = 0 /\ lost = 0
        /\ stored = {} /\ outcomes = {} /\ call = [c \in Calls |-> E!Rest]
    BY DEF E!Init
  <2>2. E!Rest.pc = "rest"
    BY DEF E!Rest
  <2>3. IsFiniteSet({}) /\ Cardinality({}) = 0
    BY FS_EmptySet
  <2>4. Captures(call) = {}
    BY <2>1, <2>2 DEF Captures
  <2>5. Numbers /\ EventsApart /\ OutcomesApart
    BY <2>1, <2>3 DEF Numbers, EventsApart, OutcomesApart
  <2>6. DOMAIN call = Calls /\ \A c \in Calls : call[c].pc = "rest"
    BY <2>1, <2>2
  <2>7. CallsApart
    BY <2>6 DEF CallsApart, CallKnows
  <2>8. Deleted({}, stored, call, cutoff)
    BY DEF Deleted
  <2>9. started = Cardinality(stored) + failures + lost + Cardinality({})
                  + Cardinality(Captures(call))
    BY <2>1, <2>3, <2>4
  <2> QED
    BY <2>5, <2>7, <2>8, <2>9 DEF EventsInv, Accounted
<1>2. EventsInv /\ [E!Next]_(E!vars) => EventsInv'
  BY EventsStep
<1> QED
  BY <1>1, <1>2, PTL DEF E!Spec

\* The mature outcomes of one cell of the classification summary.
Cell(predicted, actual) ==
    {o \in outcomes : /\ o.mature /\ o.actual = actual
                      /\ \E e \in stored : e.at = o.event /\ e.label = predicted}

\* The join pairs each of them with one event.
LEMMA CellCount ==
    ASSUME EventsInv, NEW predicted, NEW actual
    PROVE  /\ IsFiniteSet(Cell(predicted, actual))
           /\ E!Confusion(predicted, actual) = Cardinality(Cell(predicted, actual))
<1> DEFINE cell == Cell(predicted, actual)
           joined == {p \in outcomes \X stored :
                        /\ p[1].event = p[2].at /\ p[1].mature
                        /\ p[2].label = predicted /\ p[1].actual = actual}
           event(o) == CHOOSE e \in stored : e.at = o.event /\ e.label = predicted
           pair == [o \in cell |-> <<o, event(o)>>]
<1>1. IsFiniteSet(cell)
  <2>1. cell \in SUBSET outcomes
    BY DEF Cell
  <2> QED
    BY <2>1, FS_Subset DEF EventsInv, OutcomesApart
<1>2. ASSUME NEW o \in cell
      PROVE  event(o) \in stored /\ event(o).at = o.event /\ event(o).label = predicted
  BY <1>2 DEF Cell
<1> HIDE DEF event
<1>3. ASSUME NEW o \in cell PROVE <<o, event(o)>> \in joined
  BY <1>2, <1>3 DEF Cell
<1>4. ASSUME NEW p \in joined PROVE p[1] \in cell /\ p = <<p[1], event(p[1])>>
  <2>1. p[1] \in outcomes /\ p[2] \in stored /\ p = <<p[1], p[2]>>
    BY <1>4
  <2>2. p[1] \in cell
    BY <1>4, <2>1 DEF Cell
  <2>3. event(p[1]) \in stored /\ event(p[1]).at = p[2].at
    BY <1>2, <1>4, <2>2
  <2>4. event(p[1]) = p[2]
    BY <2>1, <2>3 DEF EventsInv, EventsApart
  <2> QED
    BY <2>1, <2>2, <2>4
<1> HIDE DEF cell, joined
<1>5. pair \in Bijection(cell, joined)
  <2>1. pair \in [cell -> joined]
    BY <1>3
  <2>2. \A o, p \in cell : pair[o] = pair[p] => o = p
    OBVIOUS
  <2>3. \A p \in joined : \E o \in cell : pair[o] = p
    BY <1>4
  <2> QED
    BY <2>1, <2>2, <2>3 DEF Bijection, Injection, Surjection, IsInjective
<1>6. Cardinality(joined) = Cardinality(cell)
  BY <1>1, <1>5, FS_Bijection DEF ExistsBijection
<1> QED
  BY <1>1, <1>6, OneCardinality DEF SameCardinality, E!Confusion, cell, joined

LEMMA DisjointCount ==
    ASSUME NEW S, NEW T, IsFiniteSet(S), IsFiniteSet(T), S \cap T = {}
    PROVE  IsFiniteSet(S \cup T) /\ Cardinality(S \cup T) = Cardinality(S) + Cardinality(T)
<1>1. Cardinality(S \cap T) = 0
  BY FS_EmptySet
<1>2. Cardinality(S) \in Nat /\ Cardinality(T) \in Nat
  BY FS_CardinalityType
<1>3. /\ IsFiniteSet(S \cup T)
      /\ Cardinality(S \cup T) = Cardinality(S) + Cardinality(T) - Cardinality(S \cap T)
  BY FS_Union
<1> QED
  BY <1>1, <1>2, <1>3

\* The four cells share no outcome and leave none out.
LEMMA SummaryCountsEach ==
    ASSUME EventsInv
    PROVE  E!Confusion(1, 1) + E!Confusion(0, 0) + E!Confusion(1, 0) + E!Confusion(0, 1)
             = Cardinality({o \in outcomes : o.mature})
<1> DEFINE right == Cell(1, 1) \cup Cell(0, 0)
           wrong == Cell(1, 0) \cup Cell(0, 1)
<1>1. \A o \in outcomes : o.actual \in {0, 1}
  BY DEF EventsInv, OutcomesApart, OutcomeRow
<1>2. \A o \in outcomes : \E e \in stored : e.at = o.event /\ e.label \in {0, 1}
  BY DEF EventsInv, OutcomesApart, EventsApart, SoundEvent
<1>3. right \cup wrong = {o \in outcomes : o.mature}
  BY <1>1, <1>2 DEF Cell
<1>4. Cell(1, 1) \cap Cell(0, 0) = {} /\ Cell(1, 0) \cap Cell(0, 1) = {}
  BY DEF Cell
<1>5. right \cap wrong = {}
  <2> SUFFICES ASSUME NEW o \in right \cap wrong PROVE FALSE
    OBVIOUS
  <2>1. \E e, f \in stored : e.at = o.event /\ f.at = o.event /\ e.label # f.label
    BY DEF Cell
  <2> QED
    BY <2>1 DEF EventsInv, EventsApart
<1>6. \A x, a \in {0, 1} : IsFiniteSet(Cell(x, a)) /\ Cardinality(Cell(x, a)) \in Nat
  BY CellCount, FS_CardinalityType
<1>7. /\ IsFiniteSet(right) /\ Cardinality(right) = Cardinality(Cell(1, 1)) + Cardinality(Cell(0, 0))
      /\ IsFiniteSet(wrong) /\ Cardinality(wrong) = Cardinality(Cell(1, 0)) + Cardinality(Cell(0, 1))
  BY <1>4, <1>6, DisjointCount
<1>8. Cardinality(right \cup wrong) = Cardinality(right) + Cardinality(wrong)
  BY <1>5, <1>7, DisjointCount
<1>9. \A x, a \in {0, 1} : E!Confusion(x, a) = Cardinality(Cell(x, a))
  BY CellCount
<1> HIDE DEF right, wrong
<1>10. \A x, a \in {0, 1} : Cardinality(Cell(x, a)) \in Nat
  BY <1>6
<1>11. Cardinality(right \cup wrong) = (Cardinality(Cell(1, 1)) + Cardinality(Cell(0, 0)))
                                       + (Cardinality(Cell(1, 0)) + Cardinality(Cell(0, 1)))
  BY <1>7, <1>8
<1>12. /\ Cardinality(Cell(1, 1)) \in Nat /\ Cardinality(Cell(0, 0)) \in Nat
       /\ Cardinality(Cell(1, 0)) \in Nat /\ Cardinality(Cell(0, 1)) \in Nat
  BY <1>10
<1>13. /\ E!Confusion(1, 1) = Cardinality(Cell(1, 1)) /\ E!Confusion(0, 0) = Cardinality(Cell(0, 0))
       /\ E!Confusion(1, 0) = Cardinality(Cell(1, 0)) /\ E!Confusion(0, 1) = Cardinality(Cell(0, 1))
  BY <1>9
<1> DEFINE each == {o \in outcomes : o.mature}
<1>14. Cardinality(right \cup wrong) = Cardinality(each)
  BY <1>3
<1> HIDE DEF each
<1>15. E!Confusion(1, 1) + E!Confusion(0, 0) + E!Confusion(1, 0) + E!Confusion(0, 1)
         = Cardinality(each)
  BY <1>11, <1>12, <1>13, <1>14
<1> QED
  BY <1>15 DEF each

\* However submissions for one event or with one key, retention, late captures and crashes
\* overlap: the classification summary counts each mature outcome once, and every attempt
\* to predict is stored, deleted by retention, counted as a failure or lost in a crash.
THEOREM EventsAccounting == E!Spec => []EventsAreAccounted
<1>1. EventsInv => EventsAreAccounted
  <2> SUFFICES ASSUME EventsInv PROVE EventsAreAccounted
    OBVIOUS
  <2>1. E!EachOutcomeCountsOnce
    <3>1. E!Cardinality({o \in outcomes : o.mature}) = Cardinality({o \in outcomes : o.mature})
      BY OneCardinality DEF SameCardinality
    <3>2. /\ E!performance_summary.true_positive = E!Confusion(1, 1)
          /\ E!performance_summary.true_negative = E!Confusion(0, 0)
          /\ E!performance_summary.false_positive = E!Confusion(1, 0)
          /\ E!performance_summary.false_negative = E!Confusion(0, 1)
      BY DEF E!performance_summary
    <3>3. /\ \A o, p \in outcomes : o # p => o.event # p.event /\ (o.key # p.key \/ o.key = NoKey)
          /\ \A o \in outcomes : \E e \in stored : e.at = o.event /\ E!Labelled(e)
      BY DEF EventsInv, OutcomesApart
    <3> QED
      BY <3>1, <3>2, <3>3, SummaryCountsEach DEF E!EachOutcomeCountsOnce
  <2>2. E!AttemptsAreAccounted
    <3>1. PICK gone : /\ Deleted(gone, stored, call, cutoff)
                      /\ started = Cardinality(stored) + failures + lost + Cardinality(gone)
                                   + Cardinality(Captures(call))
      BY DEF EventsInv, Accounted
    <3>2. Cardinality(gone) \in 0 .. cutoff /\ started \in Nat /\ cutoff <= started
          /\ cutoff \in Nat
      BY <3>1, Counts DEF EventsInv, Numbers
    <3>3. Cardinality(gone) \in 0 .. started /\ Cardinality(gone) <= cutoff
      BY <3>2
    <3>4. /\ E!Cardinality(stored) = Cardinality(stored)
          /\ E!Cardinality({c \in Calls : call[c].pc = "capture"}) = Cardinality(Captures(call))
      BY OneCardinality DEF SameCardinality, Captures
    <3>5. /\ Cardinality(stored) \in Nat /\ Cardinality(Captures(call)) \in Nat
          /\ failures \in Nat /\ lost \in Nat
      BY <3>1, Counts DEF EventsInv, Numbers
    <3>6. started = Cardinality(stored) + failures + lost + Cardinality(gone)
                    + Cardinality(Captures(call))
      BY <3>1
    <3> QED
      BY <3>3, <3>4, <3>6 DEF E!AttemptsAreAccounted
  <2> QED
    BY <2>1, <2>2 DEF EventsAreAccounted
<1> QED
  BY <1>1, EventsInvariance, PTL

\* What retention waits for: an event of the oldest batch that has an outcome.
HoldsRetention(e) ==
    /\ e \in E!OldestBatch /\ E!OutcomeOf(e.at) # {}
    /\ \A c \in Calls : call[c].pc = "capture" => call[c].event.at > e.at

EventCase(c) ==
    \/ E!Predict(c) \/ E!Record(c) \/ E!RecordFails(c) \/ E!ReadOutcome(c) \/ E!StoreOutcome(c)

LEMMA EventCases ==
    ASSUME [E!Next]_(E!vars)
    PROVE  \/ E!Restart \/ E!Mature \/ E!Age \/ E!retain_prediction_events
           \/ \E c \in Calls : EventCase(c)
           \/ UNCHANGED <<started, stored, outcomes, cutoff, failures, lost, call>>
  BY DEF E!Next, E!vars, EventCase

\* An event is stored by its capture alone.
LEMMA StoredLater ==
    ASSUME EventsInv, [E!Next]_(E!vars), NEW e, HoldsRetention(e)
    PROVE  stored \subseteq stored' /\ \A f \in stored' : f \in stored \/ f.at > e.at
<1>1. CASE E!retain_prediction_events
  <2>1. E!Deletes(E!OldestBatch) = {}
    BY DEF HoldsRetention, E!Deletes
  <2> QED
    BY <1>1, <2>1 DEF E!retain_prediction_events
<1>2. CASE \E c \in Calls : E!Record(c)
  BY <1>2 DEF E!Record, HoldsRetention
<1>3. CASE ~E!retain_prediction_events /\ ~\E c \in Calls : E!Record(c)
  <2>1. stored' = stored
    BY <1>3, EventCases DEF EventCase, E!Restart, E!Mature, E!Age, E!Predict, E!RecordFails,
       E!ReadOutcome, E!StoreOutcome
  <2> QED
    BY <2>1
<1> QED
  BY <1>1, <1>2, <1>3

\* An outcome is replaced by one for the same event.
LEMMA OutcomesStay ==
    ASSUME EventsInv, [E!Next]_(E!vars), NEW o \in outcomes
    PROVE  \E p \in outcomes' : p.event = o.event
<1>1. CASE E!Mature
  <2>1. PICK p \in outcomes : outcomes' = (outcomes \ {p}) \cup {[p EXCEPT !.mature = TRUE]}
    BY <1>1 DEF E!Mature
  <2>2. [p EXCEPT !.mature = TRUE].event = p.event
    BY DEF EventsInv, OutcomesApart, OutcomeRow
  <2> QED
    BY <2>1, <2>2
<1>2. CASE \E c \in Calls : E!StoreOutcome(c)
  <2>1. PICK c \in Calls : E!StoreOutcome(c)
    BY <1>2
  <2>2. CASE outcomes' = outcomes
    BY <2>2
  <2>3. CASE outcomes' = (outcomes \ IF call[c].exists THEN E!OutcomeOf(call[c].row.event) ELSE {})
                           \cup {call[c].row}
    BY <2>3 DEF E!OutcomeOf
  <2> QED
    BY <2>1, <2>2, <2>3 DEF E!StoreOutcome
<1>3. CASE ~E!Mature /\ ~\E c \in Calls : E!StoreOutcome(c)
  <2>1. outcomes' = outcomes
    BY <1>3, EventCases DEF EventCase, E!Restart, E!Age, E!retain_prediction_events, E!Predict,
       E!Record, E!RecordFails, E!ReadOutcome
  <2> QED
    BY <2>1
<1> QED
  BY <1>1, <1>2, <1>3

LEMMA CutoffGrows ==
    ASSUME EventsInv, [E!Next]_(E!vars) PROVE cutoff' \in Nat /\ cutoff <= cutoff'
<1>1. cutoff \in Nat
  BY DEF EventsInv, Numbers
<1>2. cutoff' = cutoff \/ cutoff' = cutoff + 1
  BY EventCases DEF EventCase, E!Restart, E!Mature, E!Age, E!retain_prediction_events, E!Predict,
     E!Record, E!RecordFails, E!ReadOutcome, E!StoreOutcome
<1> QED
  BY <1>1, <1>2

\* A prediction that starts later has a later time.
LEMMA CapturesAreLater ==
    ASSUME EventsInv, [E!Next]_(E!vars), NEW e, HoldsRetention(e), NEW c \in Calls,
           call'[c].pc = "capture"
    PROVE  call'[c].event.at > e.at
<1>1. e.at \in Nat /\ e.at < started /\ started \in Nat
  BY DEF HoldsRetention, E!OldestBatch, EventsInv, EventsApart, SoundEvent, Numbers
<1>2. CASE call'[c] = call[c]
  BY <1>2 DEF HoldsRetention
<1>3. CASE call'[c] # call[c]
  <2>1. E!Rest.pc = "rest" /\ DOMAIN call = Calls
    BY DEF E!Rest, EventsInv, CallsApart
  <2>2. ~E!Restart
    BY <2>1 DEF E!Restart
  <2>3. PICK d \in Calls : EventCase(d)
    BY <1>3, <2>2, EventCases DEF E!Mature, E!Age, E!retain_prediction_events
  <2>4. ~(E!Record(d) \/ E!RecordFails(d) \/ E!StoreOutcome(d))
    BY <1>3, <2>1 DEF E!Record, E!RecordFails, E!StoreOutcome, E!Set
  <2>5. ~E!ReadOutcome(d)
    BY <1>3, <2>1 DEF E!ReadOutcome, E!Set
  <2>6. E!Predict(d)
    BY <2>3, <2>4, <2>5 DEF EventCase
  <2>7. c = d /\ call'[c].event.at = started
    BY <1>3, <2>1, <2>6 DEF E!Predict, E!Set
  <2> QED
    BY <1>1, <2>7
<1> QED
  BY <1>2, <1>3

\* The events before it stay those, so it stays in the oldest batch.
LEMMA RetentionHeld ==
    ASSUME EventsInv, [E!Next]_(E!vars), NEW e, HoldsRetention(e) PROVE HoldsRetention(e)'
<1> DEFINE before(rows) == {f \in rows : f.at < e.at}
<1>1. /\ e \in stored /\ e.at \in Nat /\ e.at < cutoff /\ cutoff \in Nat
      /\ \A f \in stored : f.at \in Nat
  BY DEF HoldsRetention, E!OldestBatch, EventsInv, EventsApart, SoundEvent, Numbers
<1>2. E!Cardinality(before(stored)) < Batch
  <2>1. before(stored) = {f \in {x \in stored : x.at < cutoff} : f.at < e.at}
    BY <1>1
  <2> QED
    BY <2>1 DEF HoldsRetention, E!OldestBatch
<1>3. stored \subseteq stored' /\ \A f \in stored' : f \in stored \/ f.at > e.at
  BY StoredLater
<1>4. EventsInv'
  BY EventsStep
<1>5. \A f \in stored' : f.at \in Nat
  BY <1>4 DEF EventsInv, EventsApart, SoundEvent, Numbers
<1>6. before(stored') = before(stored)
  BY <1>1, <1>3, <1>5
<1>7. cutoff' \in Nat /\ e.at < cutoff'
  BY <1>1, CutoffGrows
<1>8. E!OldestBatch' = {x \in {y \in stored' : y.at < cutoff'} :
                          E!Cardinality({f \in {y \in stored' : y.at < cutoff'} : f.at < x.at})
                            < Batch}
  BY DEF E!OldestBatch
<1>9. {f \in {y \in stored' : y.at < cutoff'} : f.at < e.at} = before(stored')
  BY <1>1, <1>5, <1>7
<1>10. e \in E!OldestBatch'
  <2>1. e \in {y \in stored' : y.at < cutoff'}
    BY <1>1, <1>3, <1>7
  <2>2. E!Cardinality({f \in {y \in stored' : y.at < cutoff'} : f.at < e.at}) < Batch
    BY <1>2, <1>6, <1>9
  <2> QED
    BY <1>8, <2>1, <2>2
<1>11. E!OutcomeOf(e.at)' # {}
  <2>1. PICK o \in outcomes : o.event = e.at
    BY DEF HoldsRetention, E!OutcomeOf
  <2> QED
    BY <2>1, OutcomesStay DEF E!OutcomeOf
<1> QED
  BY <1>10, <1>11, CapturesAreLater DEF HoldsRetention

\* Once an event of the oldest batch has an outcome, retention deletes nothing any more,
\* whatever is captured, observed or replaced later.
THEOREM RetentionStops == E!Spec => RetentionStopsForGood
<1>1. EventsInv /\ [E!Next]_(E!vars) =>
          [E!Stopped => E!Stopped' /\ stored \subseteq stored']_(E!vars)
  <2> SUFFICES ASSUME EventsInv, [E!Next]_(E!vars), E!Stopped
               PROVE  E!Stopped' /\ stored \subseteq stored'
    OBVIOUS
  <2>1. PICK e : HoldsRetention(e)
    BY DEF E!Stopped, HoldsRetention
  <2>2. HoldsRetention(e)'
    BY <2>1, RetentionHeld
  <2> QED
    BY <2>1, <2>2, StoredLater DEF E!Stopped, HoldsRetention
<1> QED
  BY <1>1, EventsInvariance, PTL DEF E!Spec, RetentionStopsForGood, E!RetentionStopsForGood

=============================================================================
