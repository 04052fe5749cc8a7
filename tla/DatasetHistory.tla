--------------------------- MODULE DatasetHistory ---------------------------
(***************************************************************************)
(* What the dataset subsystem promises about the versions of one dataset,  *)
(* without uploads, messages, workers, claims or recovery: a version is    *)
(* registered once, with new content and the next number; it is settled    *)
(* once, as ready or failed, and then does not change; the current version *)
(* is a ready one and only a later one replaces it; and the dataset is     *)
(* archived when no version is unsettled, after which nothing happens.     *)
(***************************************************************************)
EXTENDS Naturals

CONSTANTS Versions, NoVersion, Contents, NoContent

VARIABLES
    history,    \* of each version: its status, number and content
    current,    \* the current version
    status      \* of the dataset: "active" or "archived"

\* An unsettled version may be worked on any number of times.
Entry(is, number, content) == [status |-> is, number |-> number, content |-> content]

Absent == Entry("absent", 0, NoContent)

Init == /\ history = [v \in Versions |-> Absent]
        /\ current = NoVersion
        /\ status = "active"

Numbered == {v \in Versions : history[v].status # "absent"}

Unsettled(v) == history[v].status = "unsettled"

\* The numbers of which the next one is the one above all given so far.
Successors == {1} \cup {history[w].number + 1 : w \in Numbered}

Register(v) ==
    /\ status = "active"
    /\ v \notin Numbered
    /\ \E n \in Successors, c \in Contents :
          /\ \A w \in Numbered : history[w].number < n
          /\ \A w \in Numbered : history[w].content # c
          /\ history' = [history EXCEPT ![v] = Entry("unsettled", n, c)]
    /\ UNCHANGED <<current, status>>

\* The versions in failing, which one transaction of the recovery may be several of.
GiveUp(failing) ==
    /\ \A v \in failing : Unsettled(v)
    /\ history' = [v \in Versions |-> IF v \in failing
                                      THEN [history[v] EXCEPT !.status = "failed"]
                                      ELSE history[v]]
    /\ UNCHANGED <<current, status>>

\* The pointer moves to v, from a version with a smaller number if there is one.
MoveTo(v) ==
    /\ status = "active"
    /\ current = NoVersion \/ history[current].number < history[v].number
    /\ current' = v

\* A version becomes ready, and possibly the current one at the same time.
BecomeReady(v) ==
    /\ Unsettled(v)
    /\ history' = [history EXCEPT ![v].status = "ready"]
    /\ MoveTo(v) \/ UNCHANGED current
    /\ UNCHANGED status

Advance(v) ==
    /\ history[v].status = "ready"
    /\ MoveTo(v)
    /\ UNCHANGED <<history, status>>

Archive ==
    /\ status = "active" /\ status' = "archived"
    /\ \A v \in Versions : ~Unsettled(v)
    /\ UNCHANGED <<history, current>>

Next == \/ \E v \in Versions : Register(v) \/ BecomeReady(v) \/ Advance(v)
        \/ \E failing \in SUBSET Versions : GiveUp(failing)
        \/ Archive

Spec == Init /\ [][Next]_<<history, current, status>>
=============================================================================
