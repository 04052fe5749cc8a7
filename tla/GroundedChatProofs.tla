------------------------ MODULE GroundedChatProofs ------------------------
(***************************************************************************)
(* Proofs about a knowledge base and the conversation grounded on it, for  *)
(* any clients, workers, versions and bounds, and about the chunks of a    *)
(* document, for any text, chunk size and overlap.                         *)
(***************************************************************************)
EXTENDS MCGroundedChat, SequenceTheorems, FiniteSetTheorems, WellFoundedInduction, TLAPS

-----------------------------------------------------------------------------
(* The inductive invariant of the index *)

ActiveBuild(b) == builds[b].status \in Active

\* One build is active at most, and while the knowledge base is indexing; what is
\* served is a succeeded build over what is attached.
BaseIsSound ==
    /\ \A a, b \in Builds : ActiveBuild(a) /\ ActiveBuild(b) => a = b
    /\ kb.status = "indexing" <=> \E b \in Builds : ActiveBuild(b)
    /\ kb.status = "ready" => kb.active # None
    /\ kb.active # None => /\ builds[kb.active].status = "succeeded"
                           /\ builds[kb.active].indexed = attached

IndexRows ==
    /\ kb \in KnowledgeBaseRow /\ attached \in SUBSET Versions
    /\ builds \in [Builds -> BuildRow]
    /\ BaseIsSound

\* The steps whose write is conditional on the version of the knowledge base they read.
Conditional == {"attach", "detach", "create", "archive", "claim", "index", "publish"}

OfBuild == {"attempt", "enqueue", "cancel", "claim", "index", "publish", "fail", "failing", "repair"}

\* What a process knows of the rows it has read: as long as the version is the same,
\* so is the status, and what was indexed is what is attached.
Knows(q, base, versions) ==
    /\ DOMAIN q = {"pc", "arg", "kb", "build", "row"}
    /\ q.pc \in {"idle"} \cup Conditional \cup OfBuild
    /\ q.pc \in Conditional =>
         /\ q.kb.version \in Nat /\ q.kb.version <= base.version
         /\ q.kb.version = base.version => q.kb.status = base.status
    /\ q.pc \in {"attach", "detach", "create", "archive"} => q.kb.status # "indexing"
    /\ q.pc = "attach" => q.arg \in Versions
    /\ q.pc \in OfBuild => q.build \in Builds
    /\ q.pc \in {"cancel", "failing", "repair"} => q.row.status \in Active
    /\ q.pc = "claim" => q.row.status = "queued"
    /\ q.pc \in {"index", "publish"} => q.row.status = "running"
    /\ q.pc = "publish" => /\ q.arg \in SUBSET Versions
                           /\ q.kb.version = base.version => q.arg = versions

IndexInv ==
    /\ IndexRows
    /\ queue \in [Builds -> Nat]
    /\ spent \in [requests : 0 .. MaxRequests, faults : 0 .. MaxFaults]
    /\ DOMAIN proc = Procs
    /\ \A p \in Procs : Knows(proc[p], kb, attached)

-----------------------------------------------------------------------------
(* What a step does to the rows *)

\* The knowledge base is as it was, or has a new version.
Moved == UNCHANGED <<kb, attached>> \/ kb'.version = kb.version + 1

\* A succeeded build is never touched again.
SucceededStay == \A b \in Builds : builds[b].status = "succeeded" => builds'[b] = builds[b]

LEMMA KnowsOn ==
    ASSUME kb \in KnowledgeBaseRow, Moved, NEW q, Knows(q, kb, attached)
    PROVE  Knows(q, kb', attached')
<1>1. kb.version \in Nat
  BY DEF KnowledgeBaseRow
<1>2. CASE UNCHANGED <<kb, attached>>
  BY <1>2
<1>3. CASE kb'.version = kb.version + 1
  <2>1. q.pc \in Conditional => /\ q.kb.version \in Nat /\ q.kb.version <= kb'.version
                                /\ q.kb.version # kb'.version
    BY <1>1, <1>3 DEF Knows
  <2>2. q.pc = "publish" => q.pc \in Conditional
    BY DEF Conditional
  <2> QED
    BY <2>1, <2>2 DEF Knows
<1> QED
  BY <1>2, <1>3 DEF Moved

\* Only the status and the version of one build change.
LEMMA TransitionedBuild ==
    ASSUME builds \in [Builds -> BuildRow], NEW b \in Builds, NEW new \in BuildStatus,
           transition_build(b, new)
    PROVE  /\ builds' \in [Builds -> BuildRow]
           /\ builds'[b].status = new /\ builds'[b].indexed = builds[b].indexed
           /\ \A a \in Builds \ {b} : builds'[a] = builds[a]
<1> DEFINE row == [status |-> new, attempts |-> builds[b].attempts,
                   version |-> builds[b].version + 1, indexed |-> builds[b].indexed]
<1>1. row \in BuildRow
  BY DEF BuildRow
<1>2. builds' = [builds EXCEPT ![b] = row]
  BY DEF transition_build, BuildRow
<1>3. row.status = new /\ row.indexed = builds[b].indexed
  OBVIOUS
<1> HIDE DEF row
<1> QED
  BY <1>1, <1>2, <1>3

LEMMA AttemptedBuild ==
    ASSUME builds \in [Builds -> BuildRow], NEW b \in Builds, builds[b].attempts < 100,
           record_build_enqueue_attempt(b)
    PROVE  /\ builds' \in [Builds -> BuildRow]
           /\ builds'[b].status = builds[b].status /\ builds'[b].indexed = builds[b].indexed
           /\ \A a \in Builds \ {b} : builds'[a] = builds[a]
<1> DEFINE row == [status |-> builds[b].status, attempts |-> builds[b].attempts + 1,
                   version |-> builds[b].version + 1, indexed |-> builds[b].indexed]
<1>1. row \in BuildRow
  BY DEF BuildRow
<1>2. builds' = [builds EXCEPT ![b] = row]
  BY DEF record_build_enqueue_attempt, BuildRow
<1>3. row.status = builds[b].status /\ row.indexed = builds[b].indexed
  OBVIOUS
<1> HIDE DEF row
<1> QED
  BY <1>1, <1>2, <1>3

LEMMA SpentType ==
    ASSUME spent \in [requests : 0 .. MaxRequests, faults : 0 .. MaxFaults]
    PROVE  /\ Fault => spent' \in [requests : 0 .. MaxRequests, faults : 0 .. MaxFaults]
           /\ spent.requests < MaxRequests /\ spent' = [spent EXCEPT !.requests = @ + 1]
              => spent' \in [requests : 0 .. MaxRequests, faults : 0 .. MaxFaults]
<1>1. /\ spent.requests \in 0 .. MaxRequests /\ spent.faults \in 0 .. MaxFaults
      /\ MaxRequests \in Nat /\ MaxFaults \in Nat
  BY KnowledgeBaseConstants
<1>2. ASSUME Fault PROVE spent' \in [requests : 0 .. MaxRequests, faults : 0 .. MaxFaults]
  <2>1. spent.faults + 1 \in 0 .. MaxFaults
    BY <1>1, <1>2 DEF Fault
  <2> QED
    BY <1>1, <1>2, <2>1 DEF Fault
<1>3. ASSUME spent.requests < MaxRequests, spent' = [spent EXCEPT !.requests = @ + 1]
      PROVE  spent' \in [requests : 0 .. MaxRequests, faults : 0 .. MaxFaults]
  <2>1. spent.requests + 1 \in 0 .. MaxRequests
    BY <1>1, <1>3
  <2> QED
    BY <1>1, <1>3, <2>1
<1> QED
  BY <1>2, <1>3

LEMMA QueueType ==
    ASSUME queue \in [Builds -> Nat], NEW p,
           queue' = [queue EXCEPT ![proc[p].build] = @ + 1] \/ Redeliver(p)
    PROVE  queue' \in [Builds -> Nat]
<1> DEFINE b == proc[p].build
           n == queue[b] + 1
<1>1. b \in Builds => n \in Nat
  OBVIOUS
<1>2. queue' = [queue EXCEPT ![b] = n] \/ queue' = queue
  BY DEF Redeliver
<1> HIDE DEF n
<1> QED
  BY <1>1, <1>2

LEMMA IdleKnows == \A base, versions : Knows(Idle, base, versions)
  BY DEF Knows, Idle, Conditional, OfBuild

\* What every step comes to.
Keeps == IndexInv' /\ SucceededStay

LEMMA Stepped ==
    ASSUME IndexInv, NEW p \in Procs, NEW new, Moves(p, new), Knows(new, kb', attached'),
           IndexRows', Moved, SucceededStay, queue' \in [Builds -> Nat],
           spent' \in [requests : 0 .. MaxRequests, faults : 0 .. MaxFaults]
    PROVE  Keeps
<1>1. proc' = [proc EXCEPT ![p] = new] /\ DOMAIN proc = Procs /\ kb \in KnowledgeBaseRow
      /\ \A r \in Procs : Knows(proc[r], kb, attached)
  BY DEF IndexInv, IndexRows, Moves
<1>2. ASSUME NEW r \in Procs PROVE Knows(proc'[r], kb', attached')
  <2>1. CASE r = p
    BY <1>1, <2>1
  <2>2. CASE r # p
    BY <1>1, <2>2, KnowsOn
  <2> QED
    BY <2>1, <2>2
<1> QED
  BY <1>1, <1>2 DEF IndexInv, Keeps

\* A step that only moves its process, and perhaps a message.
LEMMA SteppedAside ==
    ASSUME IndexInv, NEW p \in Procs, NEW new, Moves(p, new), Knows(new, kb, attached),
           UNCHANGED <<kb, attached, builds>>, queue' \in [Builds -> Nat],
           spent' \in [requests : 0 .. MaxRequests, faults : 0 .. MaxFaults]
    PROVE  Keeps
<1>1. IndexRows' /\ Moved /\ SucceededStay
  BY DEF IndexInv, IndexRows, BaseIsSound, ActiveBuild, Moved, SucceededStay
<1> QED
  BY <1>1, Stepped

LEMMA Begun ==
    ASSUME IndexInv, NEW c \in Procs, NEW pc, NEW arg, NEW b, Begin(c, pc, arg, b),
           Knows(Read(pc, arg, b), kb, attached)
    PROVE  Keeps
<1>1. /\ Moves(c, Read(pc, arg, b)) /\ UNCHANGED <<kb, attached, builds, queue>>
      /\ spent.requests < MaxRequests /\ spent' = [spent EXCEPT !.requests = @ + 1]
  BY DEF Begin
<1>2. queue' \in [Builds -> Nat]
      /\ spent' \in [requests : 0 .. MaxRequests, faults : 0 .. MaxFaults]
  BY <1>1, SpentType DEF IndexInv
<1> QED
  BY <1>1, <1>2, SteppedAside

LEMMA Rows ==
    ASSUME IndexInv
    PROVE  /\ kb \in KnowledgeBaseRow /\ kb.version \in Nat
           /\ attached \in SUBSET Versions /\ builds \in [Builds -> BuildRow]
           /\ BaseIsSound /\ queue \in [Builds -> Nat]
           /\ spent \in [requests : 0 .. MaxRequests, faults : 0 .. MaxFaults]
           /\ \A p \in Procs : Knows(proc[p], kb, attached)
           /\ kb.active \in Builds \cup {None}
           /\ kb.status \in {"draft", "indexing", "ready", "failed", "archived"}
  BY DEF IndexInv, IndexRows, KnowledgeBaseRow

\* The fields of the local state of a process.
LEMMA ProcRecords ==
    ASSUME IndexInv, NEW p \in Procs
    PROVE  DOMAIN proc[p] = {"pc", "arg", "kb", "build", "row"}
  BY Rows DEF Knows

LEMMA UpdatedRow ==
    ASSUME kb \in KnowledgeBaseRow, NEW status \in {"draft", "indexing", "ready", "failed", "archived"},
           NEW active \in Builds \cup {None}, update_knowledge_base(status, active)
    PROVE  /\ kb' \in KnowledgeBaseRow /\ kb'.status = status /\ kb'.active = active
           /\ kb'.version = kb.version + 1
  BY DEF KnowledgeBaseRow, update_knowledge_base

-----------------------------------------------------------------------------
(* Requests of the owner *)

LEMMA ReadsKeep ==
    ASSUME IndexInv, NEW c \in Procs,
           \/ \E v \in Versions : attach_dataset_version(c, v) \/ detach_dataset_version(c, v)
           \/ build_index(c) \/ cancel_index_build(c) \/ archive_knowledge_base(c)
    PROVE  Keeps
<1> USE Rows
<1>1. CASE \E v \in Versions : attach_dataset_version(c, v) \/ detach_dataset_version(c, v)
  <2>1. PICK v \in Versions, pc \in {"attach", "detach"} : Begin(c, pc, v, None) /\ Mutable(kb)
    BY <1>1 DEF attach_dataset_version, detach_dataset_version, MayAttach
  <2>2. Knows(Read(pc, v, None), kb, attached)
    BY <2>1 DEF Knows, Read, Mutable, Conditional, OfBuild
  <2> QED
    BY <2>1, <2>2, Begun
<1>2. CASE build_index(c)
  <2>1. Begin(c, "create", None, None) /\ Mutable(kb)
    BY <1>2 DEF build_index, MayBuild
  <2>2. Knows(Read("create", None, None), kb, attached)
    BY <2>1 DEF Knows, Read, Mutable, Conditional, OfBuild
  <2> QED
    BY <2>1, <2>2, Begun
<1>3. CASE cancel_index_build(c)
  <2>1. PICK b \in Builds : builds[b].status \in Active /\ Begin(c, "cancel", None, b)
    BY <1>3 DEF cancel_index_build, latest_active_build
  <2>2. b # None
    BY KnowledgeBaseConstants DEF Builds
  <2>3. Knows(Read("cancel", None, b), kb, attached)
    BY <2>1, <2>2 DEF Knows, Read, Conditional, OfBuild
  <2> QED
    BY <2>1, <2>3, Begun
<1>4. CASE archive_knowledge_base(c)
  <2>1. Begin(c, "archive", None, None) /\ latest_active_build = {}
    BY <1>4 DEF archive_knowledge_base
  <2>2. kb.status # "indexing"
    BY <2>1 DEF latest_active_build, BaseIsSound, ActiveBuild
  <2>3. Knows(Read("archive", None, None), kb, attached)
    BY <2>2 DEF Knows, Read, Conditional, OfBuild
  <2> QED
    BY <2>1, <2>3, Begun
<1> QED
  BY <1>1, <1>2, <1>3, <1>4

\* No build is active in the version a request read that saw the index at rest.
LEMMA AtRest ==
    ASSUME IndexInv, NEW c \in Procs, proc[c].pc \in {"attach", "detach", "create", "archive"},
           KnowledgeBaseIs(proc[c].kb)
    PROVE  kb.status # "indexing" /\ \A b \in Builds : ~ActiveBuild(b)
<1>1. Knows(proc[c], kb, attached) /\ BaseIsSound
  BY Rows
<1>2. kb.status # "indexing"
  BY <1>1 DEF Knows, KnowledgeBaseIs, Conditional
<1> QED
  BY <1>1, <1>2 DEF BaseIsSound

LEMMA CommitAttachKeeps ==
    ASSUME IndexInv, NEW c \in Procs, CommitAttach(c) \/ CommitDetach(c)
    PROVE  Keeps
<1>1. /\ proc[c].pc \in {"attach", "detach"} /\ Moves(c, Idle) /\ UNCHANGED <<builds, queue, spent>>
  BY DEF CommitAttach, CommitDetach, Rest
<1>2. queue' \in [Builds -> Nat]
      /\ spent' \in [requests : 0 .. MaxRequests, faults : 0 .. MaxFaults]
  BY <1>1, Rows
<1>3. CASE UNCHANGED <<attached, kb>>
  BY <1>1, <1>2, <1>3, IdleKnows, SteppedAside
<1>4. CASE /\ KnowledgeBaseIs(proc[c].kb) /\ attached' \in SUBSET Versions
           /\ update_knowledge_base("draft", None)
  <2>1. kb' \in KnowledgeBaseRow /\ kb'.status = "draft" /\ kb'.active = None
        /\ kb'.version = kb.version + 1
    BY <1>4, Rows, UpdatedRow
  <2>2. \A b \in Builds : ~ActiveBuild(b)
    BY <1>1, <1>4, AtRest
  <2>3. BaseIsSound'
    BY <1>1, <2>1, <2>2 DEF BaseIsSound, ActiveBuild
  <2>4. IndexRows' /\ Moved /\ SucceededStay
    BY <1>1, <1>4, <2>1, <2>3, Rows DEF IndexRows, Moved, SucceededStay
  <2> QED
    BY <1>1, <1>2, <2>4, IdleKnows, Stepped
<1>5. \/ UNCHANGED <<attached, kb>>
      \/ /\ KnowledgeBaseIs(proc[c].kb) /\ attached' \in SUBSET Versions
         /\ update_knowledge_base("draft", None)
  <2>1. proc[c].pc = "attach" => proc[c].arg \in Versions
    BY Rows DEF Knows
  <2> QED
    BY <2>1, Rows DEF CommitAttach, CommitDetach
<1> QED
  BY <1>3, <1>4, <1>5

LEMMA CommitBuildKeeps ==
    ASSUME IndexInv, NEW c \in Procs, CommitBuild(c)
    PROVE  Keeps
<1>1. proc[c].pc = "create" /\ UNCHANGED <<attached, queue, spent>>
  BY DEF CommitBuild
<1>2. queue' \in [Builds -> Nat]
      /\ spent' \in [requests : 0 .. MaxRequests, faults : 0 .. MaxFaults]
  BY <1>1, Rows
<1>3. CASE Rest(c) /\ UNCHANGED <<builds, kb>>
  BY <1>1, <1>2, <1>3, IdleKnows, SteppedAside DEF Rest
<1>4. ASSUME KnowledgeBaseIs(proc[c].kb), NEW b \in Builds, builds[b] = NoBuild,
             builds' = [builds EXCEPT ![b].status = "queued"],
             update_knowledge_base("indexing", kb.active),
             Moves(c, [Idle EXCEPT !.pc = "attempt", !.build = b, !.row = builds'[b]])
      PROVE  Keeps
  <2> DEFINE new == [Idle EXCEPT !.pc = "attempt", !.build = b, !.row = builds'[b]]
             row == [status |-> "queued", attempts |-> 0, version |-> 0, indexed |-> {}]
  <2>1. kb' \in KnowledgeBaseRow /\ kb'.status = "indexing" /\ kb'.active = kb.active
        /\ kb'.version = kb.version + 1
    BY <1>4, Rows, UpdatedRow
  <2>2. \A a \in Builds : ~ActiveBuild(a)
    BY <1>1, <1>4, AtRest
  <2>3. row \in BuildRow
    BY DEF BuildRow, BuildStatus
  <2>4. builds' = [builds EXCEPT ![b] = row]
    <3>1. [NoBuild EXCEPT !.status = "queued"] = row
      BY DEF NoBuild
    <3>2. builds' = [builds EXCEPT ![b] = [builds[b] EXCEPT !.status = "queued"]]
      BY <1>4
    <3> QED
      BY <1>4, <3>1, <3>2
  <2>5. row.status = "queued" /\ builds[b].status = "absent"
    BY <1>4 DEF NoBuild
  <2> HIDE DEF row
  <2>6. /\ builds' \in [Builds -> BuildRow] /\ builds'[b].status = "queued"
        /\ \A a \in Builds \ {b} : builds'[a] = builds[a]
    BY <2>3, <2>4, <2>5, Rows
  <2>7. ActiveBuild(b)' /\ \A a \in Builds \ {b} : ~ActiveBuild(a)'
    BY <2>2, <2>6 DEF ActiveBuild, Active
  <2>8. kb.active # None => builds'[kb.active] = builds[kb.active]
    BY <2>5, <2>6, Rows DEF BaseIsSound
  <2>9. BaseIsSound'
    <3>1. /\ \A a1, a2 \in Builds : ActiveBuild(a1)' /\ ActiveBuild(a2)' => a1 = a2
          /\ kb'.status = "indexing" <=> \E a \in Builds : ActiveBuild(a)'
      BY <2>1, <2>7
    <3>2. kb'.active # None => /\ builds'[kb'.active].status = "succeeded"
                               /\ builds'[kb'.active].indexed = attached'
      BY <1>1, <2>1, <2>8, Rows DEF BaseIsSound
    <3> QED
      BY <2>1, <3>1, <3>2 DEF BaseIsSound
  <2>10. IndexRows' /\ Moved /\ SucceededStay
    BY <1>1, <2>1, <2>5, <2>6, <2>9, Rows DEF IndexRows, Moved, SucceededStay
  <2>11. Knows(new, kb', attached')
    BY DEF Knows, Idle, Conditional, OfBuild
  <2> QED
    BY <1>2, <1>4, <2>10, <2>11, Stepped
<1>5. \/ Rest(c) /\ UNCHANGED <<builds, kb>>
      \/ /\ KnowledgeBaseIs(proc[c].kb)
         /\ \E b \in Builds :
              /\ builds[b] = NoBuild
              /\ builds' = [builds EXCEPT ![b].status = "queued"]
              /\ update_knowledge_base("indexing", kb.active)
              /\ Moves(c, [Idle EXCEPT !.pc = "attempt", !.build = b, !.row = builds'[b]])
  BY DEF CommitBuild
<1> QED
  BY <1>3, <1>4, <1>5

\* A step that leaves the knowledge base, and the status of the build it writes.
LEMMA SteppedOnBuild ==
    ASSUME IndexInv, NEW p \in Procs, NEW new, Moves(p, new), Knows(new, kb, attached),
           UNCHANGED <<kb, attached>>, NEW b \in Builds, ActiveBuild(b),
           builds' \in [Builds -> BuildRow], builds'[b].status \in Active,
           \A a \in Builds \ {b} : builds'[a] = builds[a],
           queue' \in [Builds -> Nat],
           spent' \in [requests : 0 .. MaxRequests, faults : 0 .. MaxFaults]
    PROVE  Keeps
<1>1. \A a \in Builds : ActiveBuild(a)' <=> ActiveBuild(a)
  BY DEF ActiveBuild
<1>2. SucceededStay
  BY DEF SucceededStay, ActiveBuild, Active
<1>3. BaseIsSound'
  <2>1. kb.active # None => builds'[kb.active] = builds[kb.active]
    BY <1>2, Rows DEF SucceededStay, BaseIsSound
  <2> QED
    BY <1>1, <2>1, Rows DEF BaseIsSound
<1>4. IndexRows' /\ Moved
  BY <1>3, Rows DEF IndexRows, Moved
<1> QED
  BY <1>2, <1>4, Stepped

\* A step that ends the active build without a new index.
LEMMA SteppedToEnd ==
    ASSUME IndexInv, NEW p \in Procs, Rest(p), UNCHANGED attached,
           NEW b \in Builds, ActiveBuild(b), NEW status \in {"failed", "cancelled"},
           transition_build(b, status), NEW idle \in {"draft", "failed"},
           update_knowledge_base(IF kb.active = None THEN idle ELSE "ready", kb.active),
           queue' \in [Builds -> Nat],
           spent' \in [requests : 0 .. MaxRequests, faults : 0 .. MaxFaults]
    PROVE  Keeps
<1> DEFINE next == IF kb.active = None THEN idle ELSE "ready"
<1>1. next \in {"draft", "failed", "ready"} /\ (next = "ready" => kb.active # None)
  OBVIOUS
<1>2. update_knowledge_base(next, kb.active)
  OBVIOUS
<1> HIDE DEF next
<1>3. kb' \in KnowledgeBaseRow /\ kb'.status = next /\ kb'.active = kb.active
      /\ kb'.version = kb.version + 1
  BY <1>1, <1>2, Rows, UpdatedRow
<1>4. /\ builds' \in [Builds -> BuildRow] /\ builds'[b].status = status
      /\ \A a \in Builds \ {b} : builds'[a] = builds[a]
  BY Rows, TransitionedBuild DEF BuildStatus
<1>5. \A a \in Builds : ~ActiveBuild(a)'
  BY <1>4, Rows DEF ActiveBuild, Active, BaseIsSound
<1>6. SucceededStay
  BY <1>4 DEF SucceededStay, ActiveBuild, Active
<1>7. BaseIsSound'
  <2>1. kb.active # None => builds'[kb.active] = builds[kb.active]
    BY <1>6, Rows DEF SucceededStay, BaseIsSound
  <2>2. kb'.active # None => /\ builds'[kb'.active].status = "succeeded"
                             /\ builds'[kb'.active].indexed = attached'
    BY <1>3, <2>1, Rows DEF BaseIsSound
  <2>3. kb'.status # "indexing" /\ (kb'.status = "ready" => kb'.active # None)
    BY <1>1, <1>3
  <2> QED
    BY <1>5, <2>2, <2>3 DEF BaseIsSound
<1>8. IndexRows' /\ Moved
  BY <1>3, <1>4, <1>7, Rows DEF IndexRows, Moved
<1> QED
  BY <1>6, <1>8, IdleKnows, Stepped DEF Rest

LEMMA RecordAttemptKeeps ==
    ASSUME IndexInv, NEW c \in Procs, RecordAttempt(c)
    PROVE  Keeps
<1> DEFINE b == proc[c].build
<1>1. proc[c].pc = "attempt" /\ b \in Builds /\ UNCHANGED <<kb, attached, queue, spent>>
  BY Rows DEF RecordAttempt, Knows, OfBuild
<1>2. queue' \in [Builds -> Nat]
      /\ spent' \in [requests : 0 .. MaxRequests, faults : 0 .. MaxFaults]
  BY <1>1, Rows
<1>3. CASE Rest(c) /\ UNCHANGED builds
  BY <1>1, <1>2, <1>3, IdleKnows, SteppedAside DEF Rest
<1>4. CASE /\ AttemptAllowed(b, proc[c].row, 100) /\ record_build_enqueue_attempt(b)
           /\ Moves(c, [proc[c] EXCEPT !.pc = "enqueue"])
  <2> DEFINE new == [proc[c] EXCEPT !.pc = "enqueue"]
  <2>1. builds[b].status = "queued" /\ builds[b].attempts < 100
    BY <1>4 DEF AttemptAllowed
  <2>2. /\ builds' \in [Builds -> BuildRow] /\ builds'[b].status = "queued"
        /\ \A a \in Builds \ {b} : builds'[a] = builds[a]
    BY <1>1, <1>4, <2>1, Rows, AttemptedBuild
  <2>3. ActiveBuild(b) /\ builds'[b].status \in Active
    BY <2>1, <2>2 DEF ActiveBuild, Active
  <2>4. /\ new.pc = "enqueue" /\ new.build = b
        /\ DOMAIN new = {"pc", "arg", "kb", "build", "row"}
    BY <1>1, Rows, ProcRecords
  <2>5. Moves(c, new)
    BY <1>4
  <2> HIDE DEF new
  <2>6. Knows(new, kb, attached)
    BY <1>1, <2>4 DEF Knows, Conditional, OfBuild
  <2> QED
    BY <1>1, <1>2, <2>2, <2>3, <2>5, <2>6, SteppedOnBuild
<1> QED
  BY <1>3, <1>4 DEF RecordAttempt

LEMMA EnqueueKeeps ==
    ASSUME IndexInv, NEW p \in Procs, enqueue(p)
    PROVE  Keeps
<1>1. /\ Moves(p, Idle) /\ UNCHANGED <<kb, attached, builds, spent>>
      /\ queue' = [queue EXCEPT ![proc[p].build] = @ + 1]
  BY DEF enqueue, Rest
<1>2. queue' \in [Builds -> Nat]
  BY <1>1, Rows, QueueType
<1> QED
  BY <1>1, <1>2, Rows, IdleKnows, SteppedAside

LEMMA EnqueueFailsKeeps ==
    ASSUME IndexInv, NEW p \in Procs, EnqueueFails(p)
    PROVE  Keeps
<1> DEFINE new == IF p = Reconciler THEN Idle
                  ELSE [Idle EXCEPT !.pc = "fail", !.build = proc[p].build]
<1>1. /\ proc[p].pc = "enqueue" /\ Moves(p, new) /\ Fault
      /\ UNCHANGED <<kb, attached, builds, queue>>
  BY DEF EnqueueFails
<1>2. proc[p].build \in Builds
  BY <1>1, Rows DEF Knows, OfBuild
<1>3. Knows(new, kb, attached)
  <2>1. Knows([Idle EXCEPT !.pc = "fail", !.build = proc[p].build], kb, attached)
    BY <1>2 DEF Knows, Idle, Conditional, OfBuild
  <2> QED
    BY <2>1, IdleKnows
<1> HIDE DEF new
<1> QED
  BY <1>1, <1>3, Rows, SpentType, SteppedAside

LEMMA CommitCancelKeeps ==
    ASSUME IndexInv, NEW c \in Procs, CommitCancel(c)
    PROVE  Keeps
<1> DEFINE b == proc[c].build
<1>1. /\ proc[c].pc = "cancel" /\ Rest(c) /\ UNCHANGED <<attached, queue, spent>>
      /\ b \in Builds /\ proc[c].row.status \in Active
  BY Rows DEF CommitCancel, Knows, OfBuild
<1>2. CASE UNCHANGED <<builds, kb>>
  BY <1>1, <1>2, Rows, IdleKnows, SteppedAside DEF Rest
<1>3. CASE /\ BuildIs(b, proc[c].row) /\ transition_build(b, "cancelled")
           /\ update_knowledge_base(IF kb.active = None THEN "draft" ELSE "ready", kb.active)
  <2>1. ActiveBuild(b)
    BY <1>1, <1>3 DEF ActiveBuild, BuildIs
  <2> QED
    BY <1>1, <1>3, <2>1, Rows, SteppedToEnd
<1> QED
  BY <1>2, <1>3 DEF CommitCancel

LEMMA CommitArchiveKeeps ==
    ASSUME IndexInv, NEW c \in Procs, CommitArchive(c)
    PROVE  Keeps
<1>1. proc[c].pc = "archive" /\ Moves(c, Idle) /\ UNCHANGED <<attached, builds, queue, spent>>
  BY DEF CommitArchive, Rest
<1>2. CASE kb' = kb
  BY <1>1, <1>2, Rows, IdleKnows, SteppedAside
<1>3. CASE KnowledgeBaseIs(proc[c].kb) /\ update_knowledge_base("archived", kb.active)
  <2>1. kb' \in KnowledgeBaseRow /\ kb'.status = "archived" /\ kb'.active = kb.active
        /\ kb'.version = kb.version + 1
    BY <1>3, Rows, UpdatedRow
  <2>2. \A b \in Builds : ~ActiveBuild(b)
    BY <1>1, <1>3, AtRest
  <2>3. BaseIsSound'
    BY <1>1, <2>1, <2>2, Rows DEF BaseIsSound, ActiveBuild
  <2>4. IndexRows' /\ Moved /\ SucceededStay
    BY <1>1, <2>1, <2>3, Rows DEF IndexRows, Moved, SucceededStay
  <2> QED
    BY <1>1, <2>4, Rows, IdleKnows, Stepped
<1> QED
  BY <1>2, <1>3 DEF CommitArchive

-----------------------------------------------------------------------------
(* The worker *)

LEMMA ReceiveKeeps ==
    ASSUME IndexInv, NEW w \in Procs, NEW b \in Builds, Receive(w, b)
    PROVE  Keeps
<1>1. /\ queue[b] > 0 /\ queue' = [queue EXCEPT ![b] = @ - 1]
      /\ UNCHANGED <<kb, attached, builds, spent>>
  BY DEF Receive
<1>2. queue' \in [Builds -> Nat]
  <2>1. queue[b] - 1 \in Nat
    BY <1>1, Rows
  <2> QED
    BY <1>1, <2>1, Rows
<1>3. CASE Moves(w, Idle)
  BY <1>1, <1>2, <1>3, Rows, IdleKnows, SteppedAside
<1>4. CASE builds[b].status = "queued" /\ Moves(w, Read("claim", None, b))
  <2>1. b # None
    BY KnowledgeBaseConstants DEF Builds
  <2>2. Knows(Read("claim", None, b), kb, attached)
    BY <1>4, <2>1, Rows DEF Knows, Read, Conditional, OfBuild
  <2> QED
    BY <1>1, <1>2, <1>4, <2>2, Rows, SteppedAside
<1> QED
  BY <1>3, <1>4 DEF Receive, Rest

LEMMA ClaimKeeps ==
    ASSUME IndexInv, NEW w \in Procs, Claim(w)
    PROVE  Keeps
<1> DEFINE b == proc[w].build
           new == [proc[w] EXCEPT !.pc = "index", !.row = builds'[b]]
<1>1. /\ proc[w].pc = "claim" /\ UNCHANGED <<kb, attached, queue, spent>>
      /\ b \in Builds /\ proc[w].row.status = "queued"
      /\ proc[w].kb.version \in Nat /\ proc[w].kb.version <= kb.version
      /\ proc[w].kb.version = kb.version => proc[w].kb.status = kb.status
  BY Rows DEF Claim, Knows, OfBuild, Conditional
<1>2. CASE Rest(w) /\ UNCHANGED builds
  BY <1>1, <1>2, Rows, IdleKnows, SteppedAside DEF Rest
<1>3. CASE BuildIs(b, proc[w].row) /\ transition_build(b, "running") /\ Moves(w, new)
  <2>1. ActiveBuild(b)
    BY <1>1, <1>3 DEF ActiveBuild, Active, BuildIs
  <2>2. /\ builds' \in [Builds -> BuildRow] /\ builds'[b].status = "running"
        /\ \A a \in Builds \ {b} : builds'[a] = builds[a]
    BY <1>1, <1>3, Rows, TransitionedBuild DEF BuildStatus
  <2>3. /\ new.pc = "index" /\ new.row = builds'[b] /\ new.build = b /\ new.kb = proc[w].kb
        /\ DOMAIN new = {"pc", "arg", "kb", "build", "row"}
    BY Rows, ProcRecords
  <2>4. Moves(w, new) /\ builds'[b].status \in Active
    BY <1>3, <2>2 DEF Active
  <2> HIDE DEF new
  <2>5. Knows(new, kb, attached)
    BY <1>1, <2>2, <2>3 DEF Knows, Conditional, OfBuild
  <2> QED
    BY <1>1, <2>1, <2>2, <2>4, <2>5, Rows, SteppedOnBuild
<1> QED
  BY <1>2, <1>3 DEF Claim

LEMMA IndexKeeps ==
    ASSUME IndexInv, NEW w \in Procs, Index(w)
    PROVE  Keeps
<1> DEFINE next == [proc[w] EXCEPT !.pc = "publish", !.arg = attached]
           fail == [Idle EXCEPT !.pc = "fail", !.build = proc[w].build]
<1>1. /\ proc[w].pc = "index" /\ UNCHANGED <<kb, attached, builds, queue>>
      /\ proc[w].build \in Builds /\ proc[w].row.status = "running"
      /\ proc[w].kb.version \in Nat /\ proc[w].kb.version <= kb.version
      /\ proc[w].kb.version = kb.version => proc[w].kb.status = kb.status
  BY Rows DEF Index, Knows, OfBuild, Conditional
<1>2. CASE Moves(w, next) /\ UNCHANGED spent
  <2>1. /\ next.pc = "publish" /\ next.arg = attached /\ next.build = proc[w].build
        /\ next.kb = proc[w].kb /\ next.row = proc[w].row
        /\ DOMAIN next = {"pc", "arg", "kb", "build", "row"}
    BY ProcRecords
  <2>2. Moves(w, next)
    BY <1>2
  <2> HIDE DEF next
  <2>3. Knows(next, kb, attached)
    BY <1>1, <2>1, Rows DEF Knows, Conditional, OfBuild
  <2> QED
    BY <1>1, <1>2, <2>2, <2>3, Rows, SteppedAside
<1>3. CASE Moves(w, fail) /\ Fault
  <2>1. Knows(fail, kb, attached)
    BY <1>1 DEF Knows, Idle, Conditional, OfBuild
  <2> HIDE DEF fail
  <2> QED
    BY <1>1, <1>3, <2>1, Rows, SpentType, SteppedAside
<1> QED
  BY <1>2, <1>3 DEF Index

LEMMA PublishKeeps ==
    ASSUME IndexInv, NEW w \in Procs, Publish(w)
    PROVE  Keeps
<1> DEFINE b == proc[w].build
           fail == [Idle EXCEPT !.pc = "fail", !.build = b]
           row == [status |-> "succeeded", attempts |-> builds[b].attempts,
                   version |-> builds[b].version + 1, indexed |-> proc[w].arg]
<1>1. /\ proc[w].pc = "publish" /\ UNCHANGED <<attached, queue, spent>>
      /\ b \in Builds /\ proc[w].row.status = "running" /\ proc[w].arg \in SUBSET Versions
      /\ proc[w].kb.version = kb.version => proc[w].arg = attached
  BY Rows DEF Publish, Knows, OfBuild
<1>2. CASE Moves(w, fail) /\ UNCHANGED <<builds, kb>>
  <2>1. Knows(fail, kb, attached)
    BY <1>1 DEF Knows, Idle, Conditional, OfBuild
  <2> HIDE DEF fail
  <2> QED
    BY <1>1, <1>2, <2>1, Rows, SteppedAside
<1>3. CASE /\ BuildIs(b, proc[w].row) /\ KnowledgeBaseIs(proc[w].kb)
           /\ builds' = [builds EXCEPT ![b].status = "succeeded", ![b].version = @ + 1,
                                       ![b].indexed = proc[w].arg]
           /\ update_knowledge_base("ready", b) /\ Rest(w)
  <2>1. ActiveBuild(b) /\ proc[w].arg = attached
    BY <1>1, <1>3 DEF ActiveBuild, Active, BuildIs, KnowledgeBaseIs
  <2>2. kb' \in KnowledgeBaseRow /\ kb'.status = "ready" /\ kb'.active = b
        /\ kb'.version = kb.version + 1
    BY <1>1, <1>3, Rows, UpdatedRow
  <2>3. row \in BuildRow
    BY <1>1, Rows DEF BuildRow, BuildStatus
  <2>4. builds' = [builds EXCEPT ![b] = row]
    BY <1>1, <1>3, Rows DEF BuildRow
  <2>5. row.status = "succeeded" /\ row.indexed = attached
    BY <2>1
  <2> HIDE DEF row
  <2>6. /\ builds' \in [Builds -> BuildRow] /\ builds'[b] = row
        /\ \A a \in Builds \ {b} : builds'[a] = builds[a]
    BY <1>1, <2>3, <2>4, Rows
  <2>7. \A a \in Builds : ~ActiveBuild(a)'
    BY <1>1, <2>1, <2>5, <2>6, Rows DEF ActiveBuild, Active, BaseIsSound
  <2>8. SucceededStay
    BY <1>1, <2>1, <2>6 DEF SucceededStay, ActiveBuild, Active
  <2>9. b # None
    BY <1>1, KnowledgeBaseConstants DEF Builds
  <2>10. BaseIsSound'
    BY <1>1, <2>2, <2>5, <2>6, <2>7, <2>9 DEF BaseIsSound
  <2>11. IndexRows' /\ Moved
    BY <1>1, <2>2, <2>6, <2>10, Rows DEF IndexRows, Moved
  <2> QED
    BY <1>1, <1>3, <2>8, <2>11, Rows, IdleKnows, Stepped DEF Rest
<1> QED
  BY <1>2, <1>3 DEF Publish

-----------------------------------------------------------------------------
(* A failure, the reconciliation and a crash *)

LEMMA FailReadKeeps ==
    ASSUME IndexInv, NEW p \in Procs, FailRead(p)
    PROVE  Keeps
<1> DEFINE b == proc[p].build
<1>1. proc[p].pc = "fail" /\ b \in Builds /\ UNCHANGED <<kb, attached, builds, spent>>
  BY Rows DEF FailRead, Knows, OfBuild
<1>2. CASE /\ builds[b].status \in Active /\ Moves(p, Read("failing", None, b))
           /\ UNCHANGED queue
  <2>1. b # None
    BY <1>1, KnowledgeBaseConstants DEF Builds
  <2>2. Knows(Read("failing", None, b), kb, attached)
    BY <1>1, <1>2, <2>1 DEF Knows, Read, Conditional, OfBuild
  <2> QED
    BY <1>1, <1>2, <2>2, Rows, SteppedAside
<1>3. CASE Rest(p) /\ Redeliver(p)
  <2>1. queue' \in [Builds -> Nat]
    BY <1>3, Rows, QueueType
  <2> QED
    BY <1>1, <1>3, <2>1, Rows, IdleKnows, SteppedAside DEF Rest
<1> QED
  BY <1>2, <1>3 DEF FailRead

LEMMA FailCommitKeeps ==
    ASSUME IndexInv, NEW p \in Procs, FailCommit(p)
    PROVE  Keeps
<1> DEFINE b == proc[p].build
<1>1. /\ proc[p].pc = "failing" /\ b \in Builds /\ proc[p].row.status \in Active
      /\ Rest(p) /\ Redeliver(p) /\ UNCHANGED <<attached, spent>>
  BY Rows DEF FailCommit, Knows, OfBuild
<1>2. queue' \in [Builds -> Nat]
      /\ spent' \in [requests : 0 .. MaxRequests, faults : 0 .. MaxFaults]
  BY <1>1, Rows, QueueType
<1>3. CASE UNCHANGED <<builds, kb>>
  BY <1>1, <1>2, <1>3, IdleKnows, SteppedAside DEF Rest
<1>4. CASE /\ BuildIs(b, proc[p].row) /\ transition_build(b, "failed")
           /\ update_knowledge_base(IF kb.active = None THEN "failed" ELSE "ready", kb.active)
  <2>1. ActiveBuild(b)
    BY <1>1, <1>4 DEF ActiveBuild, BuildIs
  <2> QED
    BY <1>1, <1>2, <1>4, <2>1, SteppedToEnd
<1> QED
  BY <1>3, <1>4 DEF FailCommit

LEMMA SelectKeeps ==
    ASSUME IndexInv, Reconciler \in Procs, NEW b \in Builds, Select(b)
    PROVE  Keeps
<1>1. /\ builds[b].status \in Active /\ Moves(Reconciler, Read("repair", None, b))
      /\ UNCHANGED <<kb, attached, builds, queue, spent>>
  BY DEF Select, Stale
<1>2. b # None
  BY KnowledgeBaseConstants DEF Builds
<1>3. Knows(Read("repair", None, b), kb, attached)
  BY <1>1, <1>2 DEF Knows, Read, Conditional, OfBuild
<1> QED
  BY <1>1, <1>3, Rows, SteppedAside

LEMMA RepairKeeps ==
    ASSUME IndexInv, Reconciler \in Procs, Repair
    PROVE  Keeps
<1> DEFINE q == proc[Reconciler]
           b == q.build
<1>1. /\ q.pc = "repair" /\ b \in Builds /\ UNCHANGED <<attached, queue, spent>>
  BY Rows DEF Repair, Knows, OfBuild
<1>2. CASE Moves(Reconciler, [Idle EXCEPT !.pc = "fail", !.build = b]) /\ UNCHANGED <<builds, kb>>
  <2>1. Knows([Idle EXCEPT !.pc = "fail", !.build = b], kb, attached)
    BY <1>1 DEF Knows, Idle, Conditional, OfBuild
  <2> QED
    BY <1>1, <1>2, <2>1, Rows, SteppedAside
<1>3. CASE Rest(Reconciler) /\ UNCHANGED <<builds, kb>>
  BY <1>1, <1>3, Rows, IdleKnows, SteppedAside DEF Rest
<1>4. CASE /\ Exhausted(b, q.row) /\ transition_build(b, "failed") /\ Rest(Reconciler)
           /\ update_knowledge_base(IF kb.active = None THEN "failed" ELSE "ready", kb.active)
  <2>1. ActiveBuild(b)
    BY <1>4 DEF Exhausted, ActiveBuild, Active
  <2> QED
    BY <1>1, <1>4, <2>1, Rows, SteppedToEnd
<1>5. CASE /\ AttemptAllowed(b, q.row, MaxEnqueueAttempts) /\ record_build_enqueue_attempt(b)
           /\ Moves(Reconciler, [Idle EXCEPT !.pc = "enqueue", !.build = b]) /\ UNCHANGED kb
  <2>1. builds[b].status = "queued" /\ builds[b].attempts < 100
    BY <1>1, <1>5, Rows, KnowledgeBaseConstants DEF AttemptAllowed, BuildRow
  <2>2. /\ builds' \in [Builds -> BuildRow] /\ builds'[b].status = "queued"
        /\ \A a \in Builds \ {b} : builds'[a] = builds[a]
    BY <1>1, <1>5, <2>1, Rows, AttemptedBuild
  <2>3. ActiveBuild(b) /\ builds'[b].status \in Active
    BY <2>1, <2>2 DEF ActiveBuild, Active
  <2>4. Knows([Idle EXCEPT !.pc = "enqueue", !.build = b], kb, attached)
    BY <1>1 DEF Knows, Idle, Conditional, OfBuild
  <2> QED
    BY <1>1, <1>5, <2>2, <2>3, <2>4, Rows, SteppedOnBuild
<1> QED
  BY <1>2, <1>3, <1>4, <1>5 DEF Repair

LEMMA CrashKeeps ==
    ASSUME IndexInv, NEW p \in Procs, Crash(p)
    PROVE  Keeps
<1>1. /\ Fault /\ Redeliver(p) /\ Moves(p, Idle) /\ UNCHANGED <<kb, attached, builds>>
  BY DEF Crash, Rest
<1> QED
  BY <1>1, Rows, IdleKnows, QueueType, SpentType, SteppedAside

LEMMA IndexStep == ASSUME IndexInv, IndexNext PROVE Keeps
<1>1. Clients \in SUBSET Procs /\ Workers \in SUBSET Procs /\ Reconciler \in Procs
  BY DEF Procs
<1>2. CASE \E c \in Clients : Request(c) \/ enqueue(c)
  BY <1>1, <1>2, ReadsKeep, CommitAttachKeeps, CommitBuildKeeps, RecordAttemptKeeps,
     CommitCancelKeeps, CommitArchiveKeeps, EnqueueKeeps DEF Request
<1>3. CASE \E w \in Workers : Work(w)
  BY <1>1, <1>3, ReceiveKeeps, ClaimKeeps, IndexKeeps, PublishKeeps DEF Work
<1>4. CASE \E p \in Clients \cup Workers : FailRead(p) \/ FailCommit(p)
  BY <1>1, <1>4, FailReadKeeps, FailCommitKeeps
<1>5. CASE Reconcile
  BY <1>1, <1>5, SelectKeeps, RepairKeeps, EnqueueKeeps, FailReadKeeps, FailCommitKeeps
     DEF Reconcile
<1>6. CASE \E p \in Procs : EnqueueFails(p) \/ Crash(p)
  BY <1>6, EnqueueFailsKeeps, CrashKeeps
<1> QED
  BY <1>2, <1>3, <1>4, <1>5, <1>6 DEF IndexNext

LEMMA IndexBegins == IndexInit => IndexInv
<1> SUFFICES ASSUME IndexInit PROVE IndexInv
  OBVIOUS
<1>1. /\ kb = [status |-> "draft", active |-> None, version |-> 0] /\ attached = {}
      /\ builds = [b \in Builds |-> NoBuild] /\ queue = [b \in Builds |-> 0]
      /\ proc = [p \in Procs |-> Idle] /\ spent = [requests |-> 0, faults |-> 0]
  BY DEF IndexInit
<1>2. NoBuild \in BuildRow /\ NoBuild.status = "absent"
  BY DEF NoBuild, BuildRow, BuildStatus
<1>3. \A b \in Builds : ~ActiveBuild(b)
  BY <1>1, <1>2 DEF ActiveBuild, Active
<1>4. kb \in KnowledgeBaseRow
  BY <1>1 DEF KnowledgeBaseRow
<1>5. BaseIsSound
  BY <1>1, <1>3 DEF BaseIsSound
<1>6. \A p \in Procs : Knows(proc[p], kb, attached)
  BY <1>1, IdleKnows
<1>7. spent \in [requests : 0 .. MaxRequests, faults : 0 .. MaxFaults]
  BY <1>1, KnowledgeBaseConstants
<1> QED
  BY <1>1, <1>2, <1>4, <1>5, <1>6, <1>7 DEF IndexInv, IndexRows

-----------------------------------------------------------------------------
(* The conversation *)

\* A piece of evidence that a finished build indexed.
Backed(e, rows) ==
    e \in Evidence /\ rows[e[1]].status = "succeeded" /\ e[2] \in rows[e[1]].indexed

AnswerIsSound(row, rows) ==
    /\ row \in AnswerRow
    /\ row.outcome = "grounded" <=> row.cited # {}
    /\ \A e \in row.cited : Backed(e, rows)

\* What a request knows: its key, its question, the build it searches, and the
\* evidence it found.
AskKnows(q, rows) ==
    /\ DOMAIN q = {"pc", "key", "content", "version", "build", "evidence"}
    /\ q.pc \in {"idle", "archive", "insert", "search", "retrieve", "generate", "fail"}
    /\ q.pc \notin {"idle", "archive"} => q.key \in Keys
    /\ q.pc = "insert" => q.content \in Contents
    /\ q.pc = "retrieve" => q.build \in Builds
    /\ q.pc = "generate" => \A e \in q.evidence : Backed(e, rows)

ChatInv ==
    /\ conversation \in ConversationRow
    /\ answer \in [Keys -> AnswerRow] /\ \A k \in Keys : AnswerIsSound(answer[k], builds)
    /\ DOMAIN ask = Asks /\ \A a \in Asks : AskKnows(ask[a], builds)

IndInv == IndexInv /\ ChatInv

LEMMA NoAskKnows == \A rows : AskKnows(NoAsk, rows)
  BY DEF AskKnows, NoAsk

\* What is backed stays so.
LEMMA IndexLeavesChat ==
    ASSUME ChatInv, SucceededStay, UNCHANGED chatVars
    PROVE  ChatInv'
<1>1. \A e : Backed(e, builds) => Backed(e, builds')
  BY DEF Backed, Evidence, SucceededStay
<1>2. UNCHANGED <<conversation, answer, ask>>
  BY DEF chatVars
<1> QED
  BY <1>1, <1>2 DEF ChatInv, AnswerIsSound, AskKnows

\* A step of the conversation leaves the index.
LEMMA ChatLeavesIndex ==
    ASSUME IndexInv, UNCHANGED <<kb, attached, builds, queue, proc>>,
           spent' \in [requests : 0 .. MaxRequests, faults : 0 .. MaxFaults]
    PROVE  IndexInv'
  BY DEF IndexInv, IndexRows, BaseIsSound, ActiveBuild

LEMMA Chatted ==
    ASSUME ChatInv, UNCHANGED builds, NEW a \in Asks, NEW new, Goes(a, new),
           AskKnows(new, builds), conversation' \in ConversationRow,
           \/ UNCHANGED answer
           \/ \E k \in Keys : \E row :
                  answer' = [answer EXCEPT ![k] = row] /\ AnswerIsSound(row, builds)
    PROVE  ChatInv'
<1>1. DOMAIN ask' = Asks /\ \A b \in Asks : AskKnows(ask'[b], builds)
  BY DEF ChatInv, Goes
<1>2. answer' \in [Keys -> AnswerRow] /\ \A k \in Keys : AnswerIsSound(answer'[k], builds)
  BY DEF ChatInv, AnswerIsSound
<1> QED
  BY <1>1, <1>2 DEF ChatInv

LEMMA ChatRows ==
    ASSUME ChatInv
    PROVE  /\ conversation \in ConversationRow
           /\ \A k \in Keys : AnswerIsSound(answer[k], builds)
           /\ \A a \in Asks : AskKnows(ask[a], builds)
  BY DEF ChatInv

\* Only the status of an answer changes.
LEMMA StatusOfAnswer ==
    ASSUME ChatInv, NEW k \in Keys, NEW status \in {"generating", "failed", "cancelled"},
           answer' = [answer EXCEPT ![k].status = status]
    PROVE  \E row : answer' = [answer EXCEPT ![k] = row] /\ AnswerIsSound(row, builds)
<1> DEFINE row == [answer[k] EXCEPT !.status = status]
<1>1. answer[k] \in AnswerRow /\ AnswerIsSound(answer[k], builds)
  BY DEF ChatInv, AnswerIsSound
<1>2. row \in AnswerRow /\ row.outcome = answer[k].outcome /\ row.cited = answer[k].cited
  BY <1>1 DEF AnswerRow, Unfinished
<1>3. answer' = [answer EXCEPT ![k] = row]
  OBVIOUS
<1> HIDE DEF row
<1>4. AnswerIsSound(row, builds)
  BY <1>1, <1>2 DEF AnswerIsSound
<1> QED
  BY <1>3, <1>4

LEMMA FailsKnows ==
    ASSUME NEW a, NEW rows, ask[a].key \in Keys
    PROVE  AskKnows([NoAsk EXCEPT !.pc = "fail", !.key = ask[a].key], rows)
  BY DEF AskKnows, NoAsk

LEMMA InsertKeeps ==
    ASSUME ChatInv, UNCHANGED builds, NEW a \in Asks, Insert(a)
    PROVE  ChatInv'
<1> DEFINE q == ask[a]
           next == [q EXCEPT !.pc = "search"]
           row == [NoAnswer EXCEPT !.status = "retrieving", !.question = q.content]
<1>1. /\ q.pc = "insert" /\ q.key \in Keys /\ q.content \in Contents /\ UNCHANGED conversation
      /\ DOMAIN q = {"pc", "key", "content", "version", "build", "evidence"}
  BY ChatRows DEF Insert, AskKnows
<1>2. CASE Goes(a, NoAsk) /\ UNCHANGED answer
  BY <1>1, <1>2, NoAskKnows, ChatRows, Chatted
<1>3. CASE /\ answer' = [answer EXCEPT ![q.key] = [NoAnswer EXCEPT !.status = "retrieving",
                                                                  !.question = q.content]]
           /\ Goes(a, next)
  <2>1. answer' = [answer EXCEPT ![q.key] = row]
    BY <1>3
  <2>2. AnswerIsSound(row, builds)
    <3>1. NoAnswer \in AnswerRow /\ NoAnswer.outcome = None /\ NoAnswer.cited = {}
      BY DEF AnswerRow, NoAnswer
    <3>2. row \in AnswerRow /\ row.outcome = None /\ row.cited = {}
      BY <1>1, <3>1 DEF AnswerRow, Unfinished
    <3> QED
      BY <3>2, ChatConstants DEF AnswerIsSound
  <2>3. /\ next.pc = "search" /\ next.key = q.key
        /\ DOMAIN next = {"pc", "key", "content", "version", "build", "evidence"}
    BY <1>1
  <2> HIDE DEF row, next
  <2>4. AskKnows(next, builds)
    BY <1>1, <2>3 DEF AskKnows
  <2> QED
    BY <1>1, <1>3, <2>1, <2>2, <2>4, ChatRows, Chatted
<1> QED
  BY <1>2, <1>3 DEF Insert

LEMMA SearchKeeps ==
    ASSUME IndexInv, ChatInv, UNCHANGED builds, NEW a \in Asks, search(a)
    PROVE  ChatInv'
<1> DEFINE q == ask[a]
           next == [q EXCEPT !.pc = "retrieve", !.build = kb.active]
<1>1. /\ q.pc = "search" /\ q.key \in Keys /\ UNCHANGED <<conversation, answer>>
      /\ DOMAIN q = {"pc", "key", "content", "version", "build", "evidence"}
  BY ChatRows DEF search, AskKnows
<1>2. CASE Fails(a)
  BY <1>1, <1>2, FailsKnows, ChatRows, Chatted DEF Fails
<1>3. CASE kb.active # None /\ Goes(a, next)
  <2>1. kb.active \in Builds
    BY <1>3, Rows
  <2>2. /\ next.pc = "retrieve" /\ next.key = q.key /\ next.build = kb.active
        /\ DOMAIN next = {"pc", "key", "content", "version", "build", "evidence"}
    BY <1>1
  <2> HIDE DEF next
  <2>3. AskKnows(next, builds)
    BY <1>1, <2>1, <2>2 DEF AskKnows
  <2> QED
    BY <1>1, <1>3, <2>3, ChatRows, Chatted
<1> QED
  BY <1>2, <1>3 DEF search

LEMMA RetrieveKeeps ==
    ASSUME IndexInv, ChatInv, UNCHANGED builds, NEW a \in Asks, Retrieve(a)
    PROVE  ChatInv'
<1> DEFINE q == ask[a]
<1>1. /\ q.pc = "retrieve" /\ q.key \in Keys /\ q.build \in Builds /\ UNCHANGED conversation
      /\ DOMAIN q = {"pc", "key", "content", "version", "build", "evidence"}
  BY ChatRows DEF Retrieve, AskKnows
<1>2. CASE Fails(a) /\ UNCHANGED answer
  BY <1>1, <1>2, FailsKnows, ChatRows, Chatted DEF Fails
<1>3. ASSUME NEW found \in SUBSET list_retrieval_candidates(q.build),
             answer' = [answer EXCEPT ![q.key].status = "generating"],
             Goes(a, [q EXCEPT !.pc = "generate", !.build = None, !.evidence = found])
      PROVE  ChatInv'
  <2> DEFINE next == [q EXCEPT !.pc = "generate", !.build = None, !.evidence = found]
  <2>1. \A e \in found : Backed(e, builds)
    <3>1. \A e \in found : \E v \in builds[q.build].indexed \cap attached :
                             e = <<q.build, v>> /\ kb.active = q.build
      BY DEF list_retrieval_candidates
    <3>2. q.build # None
      BY <1>1, KnowledgeBaseConstants DEF Builds
    <3> QED
      BY <1>1, <3>1, <3>2, Rows DEF Backed, Evidence, BaseIsSound
  <2>2. \E row : answer' = [answer EXCEPT ![q.key] = row] /\ AnswerIsSound(row, builds)
    BY <1>1, <1>3, StatusOfAnswer
  <2>3. /\ next.pc = "generate" /\ next.key = q.key /\ next.evidence = found
        /\ DOMAIN next = {"pc", "key", "content", "version", "build", "evidence"}
    BY <1>1
  <2>4. Goes(a, next)
    BY <1>3
  <2> HIDE DEF next
  <2>5. AskKnows(next, builds)
    BY <1>1, <2>1, <2>3 DEF AskKnows
  <2> QED
    BY <1>1, <2>2, <2>4, <2>5, ChatRows, Chatted
<1> QED
  BY <1>2, <1>3 DEF Retrieve, Ranked

LEMMA GenerateKeeps ==
    ASSUME ChatInv, UNCHANGED builds, NEW a \in Asks, Generate(a)
    PROVE  ChatInv'
<1> DEFINE q == ask[a]
<1>1. /\ q.pc = "generate" /\ q.key \in Keys /\ \A e \in q.evidence : Backed(e, builds)
  BY ChatRows DEF Generate, AskKnows
<1>2. CASE Fails(a) /\ UNCHANGED <<answer, conversation>>
  BY <1>1, <1>2, FailsKnows, ChatRows, Chatted DEF Fails
<1>3. ASSUME NEW new \in generate(q.evidence), Goes(a, NoAsk),
             answer' = [answer EXCEPT ![q.key].status = "succeeded",
                               ![q.key].outcome = new.outcome, ![q.key].cited = new.cited],
             conversation' = IF conversation.version = q.version
                             THEN [conversation EXCEPT !.version = @ + 1] ELSE conversation
      PROVE  ChatInv'
  <2> DEFINE row == [answer[q.key] EXCEPT !.status = "succeeded", !.outcome = new.outcome,
                                          !.cited = new.cited]
  <2>1. answer[q.key] \in AnswerRow
    BY <1>1, ChatRows DEF AnswerIsSound
  <2>2. answer' = [answer EXCEPT ![q.key] = row]
    BY <1>3
  <2>3. \/ new.outcome = "insufficient_evidence" /\ new.cited = {}
        \/ new.outcome = "grounded" /\ \E e \in q.evidence : new.cited = {e}
    BY <1>3 DEF generate
  <2>4. /\ new.outcome \in {None, "grounded", "insufficient_evidence"}
        /\ new.outcome = "grounded" <=> new.cited # {}
        /\ \A e \in new.cited : Backed(e, builds)
    BY <1>1, <2>3
  <2>5. AnswerIsSound(row, builds)
    <3>1. new.cited \in SUBSET Evidence
      BY <2>4 DEF Backed
    <3>2. row \in AnswerRow /\ row.outcome = new.outcome /\ row.cited = new.cited
      BY <2>1, <2>4, <3>1 DEF AnswerRow
    <3> QED
      BY <2>4, <3>2 DEF AnswerIsSound
  <2>6. conversation' \in ConversationRow
    BY <1>3, ChatRows DEF ConversationRow
  <2> HIDE DEF row
  <2> QED
    BY <1>1, <1>3, <2>2, <2>5, <2>6, NoAskKnows, Chatted
<1> QED
  BY <1>2, <1>3 DEF Generate

LEMMA CancelKeeps ==
    ASSUME ChatInv, UNCHANGED builds, NEW k \in Keys,
           cancel_message(k) \/ fail_stale_messages(k)
    PROVE  ChatInv'
<1>1. /\ UNCHANGED <<conversation, ask>>
      /\ \E status \in {"failed", "cancelled"} : answer' = [answer EXCEPT ![k].status = status]
  BY DEF cancel_message, fail_stale_messages
<1>2. \E row : answer' = [answer EXCEPT ![k] = row] /\ AnswerIsSound(row, builds)
  BY <1>1, StatusOfAnswer
<1>3. answer' \in [Keys -> AnswerRow] /\ \A j \in Keys : AnswerIsSound(answer'[j], builds)
  BY <1>2 DEF ChatInv, AnswerIsSound
<1> QED
  BY <1>1, <1>3 DEF ChatInv

LEMMA FailActiveKeeps ==
    ASSUME ChatInv, UNCHANGED builds, NEW a \in Asks, fail_active_message(a)
    PROVE  ChatInv'
<1> DEFINE k == ask[a].key
<1>1. /\ ask[a].pc = "fail" /\ k \in Keys /\ Goes(a, NoAsk) /\ UNCHANGED conversation
      /\ answer' = [answer EXCEPT ![k].status =
                      IF answer[k].status \in Unfinished THEN "failed" ELSE answer[k].status]
  BY ChatRows DEF fail_active_message, AskKnows
<1>2. CASE answer[k].status \in Unfinished
  <2>1. \E row : answer' = [answer EXCEPT ![k] = row] /\ AnswerIsSound(row, builds)
    BY <1>1, <1>2, StatusOfAnswer
  <2> QED
    BY <1>1, <2>1, NoAskKnows, ChatRows, Chatted
<1>3. CASE answer[k].status \notin Unfinished
  <2>1. answer[k] \in AnswerRow /\ AnswerIsSound(answer[k], builds)
    BY <1>1, ChatRows DEF AnswerIsSound
  <2>2. [answer[k] EXCEPT !.status = answer[k].status] = answer[k]
    BY <2>1 DEF AnswerRow
  <2>3. answer' = [answer EXCEPT ![k] = answer[k]]
    BY <1>1, <1>3, <2>2
  <2> QED
    BY <1>1, <2>1, <2>3, NoAskKnows, ChatRows, Chatted
<1> QED
  BY <1>2, <1>3

LEMMA TurnKeeps ==
    ASSUME IndexInv, ChatInv, UNCHANGED builds, NEW a \in Asks, Turn(a)
    PROVE  ChatInv'
<1>1. CASE \E k \in Keys, content \in Contents : submit_message(a, k, content)
  <2>1. PICK k \in Keys, content \in Contents : submit_message(a, k, content)
    BY <1>1
  <2> DEFINE next == [NoAsk EXCEPT !.pc = "insert", !.key = k, !.content = content,
                                   !.version = conversation.version]
  <2>2. Goes(a, next) /\ UNCHANGED <<conversation, answer>>
    BY <2>1 DEF submit_message
  <2>3. AskKnows(next, builds)
    BY DEF AskKnows, NoAsk
  <2> HIDE DEF next
  <2> QED
    BY <2>2, <2>3, ChatRows, Chatted
<1>2. CASE Insert(a) \/ search(a) \/ Retrieve(a) \/ Generate(a) \/ fail_active_message(a)
  BY <1>2, InsertKeeps, SearchKeeps, RetrieveKeeps, GenerateKeeps, FailActiveKeeps
<1>3. CASE GenerationFails(a)
  <2>1. ask[a].key \in Keys /\ Fails(a) /\ UNCHANGED <<conversation, answer>>
    BY <1>3, ChatRows DEF GenerationFails, AskKnows
  <2> QED
    BY <2>1, FailsKnows, ChatRows, Chatted DEF Fails
<1>4. CASE AskDies(a)
  BY <1>4, NoAskKnows, ChatRows, Chatted DEF AskDies
<1>5. CASE archive_conversation(a)
  <2> DEFINE next == [NoAsk EXCEPT !.pc = "archive", !.version = conversation.version]
  <2>1. Goes(a, next) /\ UNCHANGED <<conversation, answer>>
    BY <1>5 DEF archive_conversation
  <2>2. AskKnows(next, builds)
    BY DEF AskKnows, NoAsk
  <2> HIDE DEF next
  <2> QED
    BY <2>1, <2>2, ChatRows, Chatted
<1>6. CASE CommitArchiveConversation(a)
  <2>1. conversation' \in ConversationRow
    BY <1>6, ChatRows DEF CommitArchiveConversation, ConversationRow
  <2> QED
    BY <1>6, <2>1, NoAskKnows, Chatted DEF CommitArchiveConversation
<1> QED
  BY <1>1, <1>2, <1>3, <1>4, <1>5, <1>6 DEF Turn

LEMMA SpentByChat ==
    ASSUME IndexInv, ChatNext
    PROVE  spent' \in [requests : 0 .. MaxRequests, faults : 0 .. MaxFaults]
<1>1. \/ UNCHANGED spent
      \/ Fault
      \/ /\ spent.requests < MaxRequests
         /\ spent' = [spent EXCEPT !.requests = @ + 1]
  <2>1. CASE create_conversation
    BY <2>1 DEF create_conversation
  <2>2. CASE \E k \in Keys : cancel_message(k) \/ fail_stale_messages(k)
    BY <2>2 DEF cancel_message, fail_stale_messages
  <2>3. CASE \E a \in Asks : Turn(a)
    <3>1. PICK a \in Asks : Turn(a)
      BY <2>3
    <3>2. CASE \E k \in Keys, content \in Contents : submit_message(a, k, content)
      BY <3>2 DEF submit_message, Asked
    <3>3. CASE archive_conversation(a)
      BY <3>3 DEF archive_conversation, Asked
    <3>4. CASE GenerationFails(a) \/ AskDies(a)
      BY <3>4 DEF GenerationFails, AskDies
    <3>5. CASE Insert(a) \/ search(a) \/ Retrieve(a)
      BY <3>5 DEF Insert, search, Retrieve
    <3>6. CASE Generate(a) \/ fail_active_message(a) \/ CommitArchiveConversation(a)
      BY <3>6 DEF Generate, fail_active_message, CommitArchiveConversation
    <3> QED
      BY <3>1, <3>2, <3>3, <3>4, <3>5, <3>6 DEF Turn
  <2> QED
    BY <2>1, <2>2, <2>3 DEF ChatNext
<1> QED
  BY <1>1, Rows, SpentType

LEMMA IndStep == ASSUME IndInv, [Next]_vars PROVE IndInv'
<1> USE DEF IndInv
<1>1. CASE IndexNext /\ UNCHANGED chatVars
  BY <1>1, IndexStep, IndexLeavesChat DEF Keeps
<1>2. CASE ChatNext /\ UNCHANGED <<kb, attached, builds, queue, proc>>
  <2>1. IndexInv'
    BY <1>2, SpentByChat, ChatLeavesIndex
  <2>2. CASE create_conversation
    <3>1. conversation' \in ConversationRow
      BY <2>2 DEF create_conversation, ConversationRow
    <3> QED
      BY <1>2, <2>1, <2>2, <3>1 DEF create_conversation, ChatInv
  <2>3. CASE \E a \in Asks : Turn(a)
    BY <1>2, <2>1, <2>3, TurnKeeps
  <2>4. CASE \E k \in Keys : cancel_message(k) \/ fail_stale_messages(k)
    BY <1>2, <2>1, <2>4, CancelKeeps
  <2> QED
    BY <1>2, <2>2, <2>3, <2>4 DEF ChatNext
<1>3. CASE UNCHANGED vars
  BY <1>3 DEF vars, indexVars, chatVars, IndexInv, IndexRows, BaseIsSound, ActiveBuild, ChatInv
<1> QED
  BY <1>1, <1>2, <1>3 DEF Next

\* Whatever the clients, workers, versions and bounds: the invariant.
THEOREM Invariance == Spec => []IndInv
<1>1. Init => IndInv
  <2> SUFFICES ASSUME Init PROVE IndInv
    OBVIOUS
  <2>1. /\ conversation = [status |-> "absent", version |-> 0]
        /\ answer = [k \in Keys |-> NoAnswer] /\ ask = [a \in Asks |-> NoAsk]
    BY DEF Init, ChatInit
  <2>2. conversation \in ConversationRow
    BY <2>1 DEF ConversationRow
  <2>3. NoAnswer \in AnswerRow /\ AnswerIsSound(NoAnswer, builds)
    BY ChatConstants DEF AnswerIsSound, NoAnswer, AnswerRow
  <2>4. answer \in [Keys -> AnswerRow] /\ \A k \in Keys : AnswerIsSound(answer[k], builds)
    BY <2>1, <2>3
  <2>5. DOMAIN ask = Asks /\ \A a \in Asks : AskKnows(ask[a], builds)
    BY <2>1, NoAskKnows
  <2> QED
    BY <2>1, <2>2, <2>4, <2>5, IndexBegins DEF Init, IndInv, ChatInv
<1>2. IndInv /\ [Next]_vars => IndInv'
  BY IndStep
<1> QED
  BY <1>1, <1>2, PTL DEF Spec

\* A knowledge base has one active build at most and is indexing while it has; what it
\* serves is a succeeded build over exactly what is attached; answers cite what a
\* finished build indexed (the conditional updates of repositories/rag.py).
THEOREM IndexSoundness == Spec => []IndexIsSound
<1>1. IndInv => IndexIsSound
  <2> SUFFICES ASSUME IndInv PROVE IndexIsSound
    OBVIOUS
  <2> USE DEF IndInv
  <2>1. TypeOK
    <3>1. IndexTypeOK
      BY DEF IndexInv, IndexRows, IndexTypeOK
    <3>2. \A k \in Keys : answer[k] \in AnswerRow
      BY ChatRows DEF AnswerIsSound
    <3> QED
      BY <3>1, <3>2 DEF TypeOK, ChatInv
  <2>2. IndexingWhileBuilding
    <3>1. kb.status = "indexing" <=> latest_active_build # {}
      BY Rows DEF BaseIsSound, latest_active_build, ActiveBuild
    <3>2. Cardinality(latest_active_build) <= 1
      <4>1. CASE latest_active_build = {}
        BY <4>1, FS_EmptySet
      <4>2. CASE latest_active_build # {}
        <5>1. PICK b : latest_active_build = {b}
          BY <4>2, Rows DEF BaseIsSound, latest_active_build, ActiveBuild
        <5> QED
          BY <5>1, FS_Singleton
      <4> QED
        BY <4>1, <4>2
    <3> QED
      BY <3>1, <3>2 DEF IndexingWhileBuilding
  <2>3. ServesWhatIsAttached
    BY Rows DEF BaseIsSound, ServesWhatIsAttached
  <2>4. CitationsAreIndexed
    BY ChatRows DEF AnswerIsSound, Backed, CitationsAreIndexed
  <2> QED
    BY <2>1, <2>2, <2>3, <2>4 DEF IndexIsSound
<1> QED
  BY <1>1, Invariance, PTL

LEMMA FinalAnswers ==
    ASSUME IndInv, [Next]_vars, NEW k \in Keys,
           answer[k].status \notin Unfinished \cup {"absent"}
    PROVE  answer'[k] = answer[k]
<1>1. DOMAIN answer = Keys
  BY DEF IndInv, ChatInv
<1>2. CASE UNCHANGED answer
  BY <1>2
<1>3. CASE \E a \in Asks : Insert(a) \/ Retrieve(a) \/ Generate(a)
  BY <1>1, <1>3 DEF Insert, Retrieve, Generate, transition_message, Unfinished
<1>4. CASE \E a \in Asks : fail_active_message(a)
  <2>1. PICK a \in Asks : fail_active_message(a)
    BY <1>4
  <2>2. CASE ask[a].key = k
    <3>1. answer[k] \in AnswerRow
      BY ChatRows DEF IndInv, AnswerIsSound
    <3>2. answer'[k] = [answer[k] EXCEPT !.status = answer[k].status]
      BY <1>1, <2>1, <2>2 DEF fail_active_message
    <3> QED
      BY <3>1, <3>2 DEF AnswerRow
  <2>3. CASE ask[a].key # k
    BY <1>1, <2>1, <2>3 DEF fail_active_message
  <2> QED
    BY <2>2, <2>3
<1>5. CASE \E j \in Keys : cancel_message(j) \/ fail_stale_messages(j)
  BY <1>1, <1>5 DEF cancel_message, fail_stale_messages
<1>6. \/ UNCHANGED answer
      \/ \E a \in Asks : Insert(a) \/ Retrieve(a) \/ Generate(a) \/ fail_active_message(a)
      \/ \E j \in Keys : cancel_message(j) \/ fail_stale_messages(j)
  BY DEF Next, ChatNext, Turn, create_conversation, submit_message, search, GenerationFails,
         AskDies, archive_conversation, CommitArchiveConversation, vars, chatVars
<1> QED
  BY <1>2, <1>3, <1>4, <1>5, <1>6

\* An answer that has succeeded, failed or been cancelled is never rewritten
\* (transition_message of repositories/rag.py compares the status).
THEOREM AnswersFinality == Spec => AnswersAreFinal
<1>1. IndInv /\ [Next]_vars
      => [\A k \in Keys : answer[k].status \notin Unfinished \cup {"absent"} =>
            answer'[k] = answer[k]]_vars
  BY FinalAnswers
<1> QED
  BY <1>1, Invariance, PTL DEF Spec, AnswersAreFinal

-----------------------------------------------------------------------------
(* Chunks *)

\* A set of naturals that has 0, and with each number its successor, has them all.
LEMMA NaturalsBySteps ==
    ASSUME NEW S, 0 \in S, \A n \in Nat : n \in S => n + 1 \in S
    PROVE  \A n \in Nat : n \in S
<1> DEFINE T == Nat \ S
<1> SUFFICES ASSUME T # {} PROVE FALSE
    OBVIOUS
<1>1. PICK n \in T : \A m \in T : <<m, n>> \notin OpToRel(<, Nat)
    <2>1. T \subseteq Nat
        OBVIOUS
    <2> HIDE DEF T
    <2> QED BY <2>1, WFMin, NatLessThanWellFounded
<1>2. \A m \in T : ~(m < n)
    BY <1>1 DEF OpToRel
<1>3. n # 0 /\ n \in Nat
    OBVIOUS
<1>4. n - 1 \in Nat /\ n - 1 < n /\ (n - 1) + 1 = n
    BY <1>3
<1> QED BY <1>2, <1>4

\* A nonempty set of integers with a bound has a greatest element.
LEMMA GreatestExists ==
    ASSUME NEW S, S \subseteq Int, NEW b \in Int, \A x \in S : x <= b, NEW e \in S
    PROVE  C!Max(S) \in S /\ \A y \in S : C!Max(S) >= y
<1> DEFINE T == {n \in Nat : \A m \in 0 .. n : b - m \notin S}
<1>1. \E x \in S : \A y \in S : x >= y
    <2> SUFFICES ASSUME \A x \in S : \E y \in S : y > x PROVE FALSE
        BY Z3
    <2>1. 0 \in T
        <3>1. b \notin S
            OBVIOUS
        <3> QED BY <3>1
    <2>2. ASSUME NEW n \in Nat, n \in T PROVE n + 1 \in T
        <3>1. b - (n + 1) \notin S
            <4> SUFFICES ASSUME b - (n + 1) \in S PROVE FALSE
                OBVIOUS
            <4>1. PICK y \in S : y > b - (n + 1)
                OBVIOUS
            <4>2. y \in Int /\ y <= b /\ y > b - (n + 1)
                BY <4>1
            <4>3. b - y \in 0 .. n /\ b - (b - y) = y
                BY <4>2
            <4> QED BY <2>2, <4>3, <4>1
        <3>2. \A m \in 0 .. n + 1 : m \in 0 .. n \/ m = n + 1
            OBVIOUS
        <3> QED BY <3>1, <3>2, <2>2
    <2>3. \A n \in Nat : n \in T
        <3> HIDE DEF T
        <3> QED BY <2>1, <2>2, NaturalsBySteps
    <2>4. b - e \in Nat /\ b - (b - e) = e
        OBVIOUS
    <2> QED BY <2>3, <2>4
<1> QED BY <1>1 DEF C!Max

\* Of two integers, the greater and the smaller.
LEMMA OfTwo ==
    ASSUME NEW a \in Int, NEW b \in Int
    PROVE  /\ C!Min({a, b}) \in Int /\ C!Min({a, b}) <= a /\ C!Min({a, b}) <= b
           /\ C!Min({a, b}) \in {a, b}
           /\ C!Max({a, b}) \in Int /\ C!Max({a, b}) >= a /\ C!Max({a, b}) >= b
           /\ C!Max({a, b}) \in {a, b}
<1>1. \E x \in {a, b} : \A y \in {a, b} : x <= y
    BY Z3
<1>2. \E x \in {a, b} : \A y \in {a, b} : x >= y
    BY Z3
<1> QED BY <1>1, <1>2 DEF C!Min, C!Max

\* A chunk begins with its start and has one position at least, and at most its size,
\* within the text; at the end of the text there is none.
LEMMA CutsForward ==
    ASSUME NEW text, Len(text) \in Nat, NEW size \in Nat \ {0}, NEW start \in 0 .. Len(text)
    PROVE  /\ C!CutAt(text, start, size) \in Int
           /\ C!CutAt(text, start, size) <= start + size
           /\ C!CutAt(text, start, size) <= Len(text)
           /\ C!CutAt(text, start, size) >= start
           /\ start < Len(text) => C!CutAt(text, start, size) > start
<1> DEFINE hard == C!Min({start + size, Len(text)})
           S == {-1} \cup {i \in (start + size \div 2) .. (hard - 1) : C!BlankAt(text, i)}
           boundary == C!Boundary(text, start, size, hard)
<1>1. /\ hard \in Int /\ hard <= start + size /\ hard <= Len(text) /\ hard >= start
      /\ start < Len(text) => hard > start
    <2> DEFINE a == start + size
               b == Len(text)
               m == C!Min({a, b})
    <2>1. a \in Int /\ b \in Int /\ start <= b /\ start < a /\ start \in Int
        OBVIOUS
    <2> HIDE DEF a, b
    <2>2. m \in Int /\ m <= a /\ m <= b /\ (m = a \/ m = b)
        BY <2>1, OfTwo
    <2>3. hard = m
        BY DEF a, b
    <2> HIDE DEF m, hard
    <2>4. /\ m \in Int /\ m <= a /\ m <= b /\ m >= start
          /\ start < b => m > start
        BY <2>1, <2>2
    <2> QED BY <2>3, <2>4 DEF a, b
<1>2. boundary \in Int /\ (boundary <= hard - 1 \/ boundary = -1)
    <2>1. S \subseteq Int /\ -1 \in S /\ \A x \in S : x <= hard - 1 \/ x = -1
        BY <1>1
    <2>2. hard \in Int /\ \A x \in S : x <= hard
        <3>1. hard \in Int /\ -1 <= hard /\ hard - 1 <= hard
            BY <1>1
        <3> HIDE DEF hard, S
        <3> QED BY <2>1, <3>1
    <2>3. boundary = C!Max(S)
        BY DEF C!Boundary
    <2> HIDE DEF S, hard, boundary
    <2>4. C!Max(S) \in S
        BY <2>1, <2>2, GreatestExists
    <2> QED BY <2>1, <2>3, <2>4
<1>3. C!CutAt(text, start, size) = IF hard < Len(text) /\ boundary > start THEN boundary ELSE hard
    BY DEF C!CutAt
<1> HIDE DEF hard, boundary
<1> QED BY <1>1, <1>2, <1>3

\* The next chunk starts later, at the end of this one or before, within the text.
LEMMA StartsForward ==
    ASSUME NEW n \in Nat, NEW overlap \in Nat, NEW start \in Nat, NEW end \in Int,
           start < end, end < n
    PROVE  /\ C!NextStart(start, end, overlap) \in start + 1 .. n
           /\ C!NextStart(start, end, overlap) <= end
<1> DEFINE a == start + 1  b == end - overlap
<1>1. a \in Int /\ b \in Int /\ a <= end /\ b <= end
    OBVIOUS
<1>2. C!NextStart(start, end, overlap) = C!Max({a, b})
    BY DEF C!NextStart
<1> HIDE DEF b
<1>3. C!Max({a, b}) \in Int /\ C!Max({a, b}) >= a /\ C!Max({a, b}) <= end
    BY <1>1, OfTwo
<1> QED BY <1>2, <1>3


\* The chunks from a start on, given those from later starts by f.
ChunksFrom(f, text, size, overlap, start) ==
    LET end == C!CutAt(text, start, size)
        span == [from |-> start, to |-> end]
        rest == IF end >= Len(text) THEN <<>> ELSE f[C!NextStart(start, end, overlap)]
    IN IF C!AllBlank(text, span) THEN rest ELSE <<span>> \o rest

\* The chunks from a start on depend on later starts only.
LEMMA LaterStartsDecide ==
    ASSUME NEW text, Len(text) \in Nat, NEW size \in Nat \ {0}, NEW overlap \in Nat,
           NEW start \in 0 .. Len(text), NEW f, NEW g,
           \A s \in start + 1 .. Len(text) : f[s] = g[s]
    PROVE  ChunksFrom(f, text, size, overlap, start) = ChunksFrom(g, text, size, overlap, start)
<1> DEFINE end == C!CutAt(text, start, size)
           next == C!NextStart(start, end, overlap)
<1>1. end \in Int /\ end >= start /\ (start < Len(text) => end > start) /\ end <= Len(text)
    BY CutsForward
<1> HIDE DEF end
<1>2. CASE end >= Len(text)
    BY <1>2 DEF ChunksFrom, end
<1>3. CASE ~(end >= Len(text))
    <2>1. next \in start + 1 .. Len(text)
        BY <1>1, <1>3, StartsForward
    <2> HIDE DEF next
    <2>2. f[next] = g[next]
        BY <2>1
    <2> QED BY <2>2 DEF ChunksFrom, end, next
<1> QED BY <1>2, <1>3

\* The recursion of chunk_text ends: there is a function that satisfies it.
LEMMA ChunksAreDefined ==
    ASSUME NEW text, Len(text) \in Nat, NEW size \in Nat \ {0}, NEW overlap \in Nat
    PROVE  \E f : f = [start \in 0 .. Len(text) |-> ChunksFrom(f, text, size, overlap, start)]
<1> DEFINE n == Len(text)
           Step(f, start) == ChunksFrom(f, text, size, overlap, start)
           Solves(f, k) == f = [start \in (n - k) .. n |-> Step(f, start)]
           S == {k \in Nat : k <= n => \E f : Solves(f, k)}
<1> n \in Nat
    OBVIOUS
<1>0. ASSUME NEW start \in 0 .. n, NEW f, NEW g, \A s \in start + 1 .. n : f[s] = g[s]
      PROVE  Step(f, start) = Step(g, start)
    BY <1>0, LaterStartsDecide
<1> HIDE DEF n, Step
<1>1. 0 \in S
    <2> DEFINE f == [start \in (n - 0) .. n |-> Step(<<>>, start)]
    <2>1. \A start \in (n - 0) .. n : Step(<<>>, start) = Step(f, start)
        <3> TAKE start \in (n - 0) .. n
        <3>1. start \in 0 .. n /\ \A s \in start + 1 .. n : <<>>[s] = f[s]
            OBVIOUS
        <3> HIDE DEF f
        <3> QED BY <3>1, <1>0
    <2>2. f = [start \in (n - 0) .. n |-> Step(f, start)]
        <3> HIDE DEF f
        <3>1. [start \in (n - 0) .. n |-> Step(<<>>, start)] = [start \in (n - 0) .. n |-> Step(f, start)]
            BY <2>1
        <3> QED BY <3>1 DEF f
    <2>3. \E g : Solves(g, 0)
        BY <2>2, Zenon
    <2> QED BY <2>3
<1>2. ASSUME NEW k \in Nat, k \in S PROVE k + 1 \in S
    <2> SUFFICES ASSUME k + 1 <= n PROVE \E f : Solves(f, k + 1)
        OBVIOUS
    <2>1. PICK f : Solves(f, k)
        BY <1>2
    <2> DEFINE h == [start \in (n - (k + 1)) .. n |-> Step(f, start)]
    <2>2. \A start \in (n - (k + 1)) .. n : Step(f, start) = Step(h, start)
        <3> TAKE start \in (n - (k + 1)) .. n
        <3>1. start \in 0 .. n
            OBVIOUS
        <3>2. ASSUME NEW s \in start + 1 .. n PROVE f[s] = h[s]
            <4>1. s \in (n - k) .. n /\ s \in (n - (k + 1)) .. n
                OBVIOUS
            <4>2. f[s] = Step(f, s)
                BY <2>1, <4>1
            <4> QED BY <4>1, <4>2
        <3> HIDE DEF h
        <3> QED BY <3>1, <3>2, <1>0
    <2>3. h = [start \in (n - (k + 1)) .. n |-> Step(h, start)]
        <3> HIDE DEF h
        <3>1. [start \in (n - (k + 1)) .. n |-> Step(f, start)]
                = [start \in (n - (k + 1)) .. n |-> Step(h, start)]
            BY <2>2
        <3> QED BY <3>1 DEF h
    <2> QED BY <2>3, Zenon
<1>3. n \in S
    <2> HIDE DEF S
    <2> QED BY <1>1, <1>2, NaturalsBySteps
<1>4. PICK f : f = [start \in (n - n) .. n |-> Step(f, start)]
    BY <1>3
<1>5. n - n = 0
    OBVIOUS
<1> QED BY <1>4, <1>5, Zenon DEF n, Step


\* What Covers asks, of the chunks from a start on.
Span == [from : Int, to : Int]

CoversFrom(text, size, start, chunks) ==
    /\ chunks \in Seq(Span)
    /\ \A i \in start .. (Len(text) - 1) :
          C!BlankAt(text, i) \/ \E c \in DOMAIN chunks :
                                   chunks[c].from <= i /\ i < chunks[c].to
    /\ \A c \in DOMAIN chunks : chunks[c].to - chunks[c].from \in 1 .. size
    /\ Len(chunks) <= Len(text) - start

\* A chunk before what covers the text from the next start on covers it from its own.
LEMMA OneMoreChunk ==
    ASSUME NEW text, Len(text) \in Nat, NEW size \in Nat \ {0},
           NEW start \in 0 .. Len(text), NEW end \in Int, NEW next \in start + 1 .. Len(text),
           start < end, next <= end, end <= start + size,
           NEW rest, CoversFrom(text, size, next, rest)
    PROVE  /\ CoversFrom(text, size, start, <<[from |-> start, to |-> end]>> \o rest)
           /\ C!AllBlank(text, [from |-> start, to |-> end]) => CoversFrom(text, size, start, rest)
<1> DEFINE n == Len(text)
           span == [from |-> start, to |-> end]
           chunks == <<span>> \o rest
<1>1. /\ rest \in Seq(Span) /\ Len(rest) <= n - next
      /\ \A i \in next .. (n - 1) :
           C!BlankAt(text, i) \/ \E c \in DOMAIN rest : rest[c].from <= i /\ i < rest[c].to
      /\ \A c \in DOMAIN rest : rest[c].to - rest[c].from \in 1 .. size
    BY DEF CoversFrom
<1>2. span \in Span /\ span.from = start /\ span.to = end /\ span.to - span.from \in 1 .. size
    BY DEF Span
<1> HIDE DEF span
<1>3. /\ chunks \in Seq(Span) /\ Len(chunks) = Len(rest) + 1 /\ DOMAIN chunks = 1 .. Len(rest) + 1
      /\ Len(rest) \in Nat /\ DOMAIN rest = 1 .. Len(rest)
      /\ chunks[1] = span
      /\ \A c \in DOMAIN rest : c + 1 \in DOMAIN chunks /\ chunks[c + 1] = rest[c]
      /\ \A c \in DOMAIN chunks : c = 1 \/ (c - 1 \in DOMAIN rest /\ chunks[c] = rest[c - 1])
    <2>1. <<span>> \in Seq(Span) /\ Len(<<span>>) = 1 /\ <<span>>[1] = span
        BY <1>2
    <2>2. Len(rest) \in Nat /\ DOMAIN rest = 1 .. Len(rest)
        BY <1>1
    <2> DEFINE first == <<span>>
    <2> HIDE DEF first
    <2>3. /\ first \o rest \in Seq(Span) /\ Len(first \o rest) = 1 + Len(rest)
          /\ \A c \in 1 .. 1 + Len(rest) :
               (first \o rest)[c] = IF c <= 1 THEN first[c] ELSE rest[c - 1]
        BY <2>1, <1>1, ConcatProperties DEF first
    <2>4. chunks = first \o rest /\ first[1] = span
        BY <2>1 DEF first
    <2> HIDE DEF chunks
    <2>5. /\ chunks \in Seq(Span) /\ Len(chunks) = 1 + Len(rest)
          /\ \A c \in 1 .. 1 + Len(rest) : chunks[c] = IF c <= 1 THEN first[c] ELSE rest[c - 1]
        BY <2>3, <2>4
    <2>6. DOMAIN chunks = 1 .. 1 + Len(rest)
        BY <2>5
    <2> QED BY <2>2, <2>4, <2>5, <2>6
<1> HIDE DEF chunks
<1>4. CoversFrom(text, size, start, chunks)
    <2>1. ASSUME NEW i \in start .. (n - 1), ~C!BlankAt(text, i)
          PROVE  \E c \in DOMAIN chunks : chunks[c].from <= i /\ i < chunks[c].to
        <3>1. CASE i < end
            <4>1. 1 \in DOMAIN chunks
                BY <1>3
            <4>2. chunks[1].from <= i /\ i < chunks[1].to
                BY <3>1, <1>2, <1>3
            <4> QED BY <4>1, <4>2
        <3>2. CASE i >= end
            <4>1. i \in next .. (n - 1)
                BY <3>2
            <4>2. PICK c \in DOMAIN rest : rest[c].from <= i /\ i < rest[c].to
                BY <4>1, <1>1, <2>1
            <4> QED BY <4>2, <1>3
        <3> QED BY <3>1, <3>2
    <2>2. \A c \in DOMAIN chunks : chunks[c].to - chunks[c].from \in 1 .. size
        BY <1>1, <1>2, <1>3
    <2>3. Len(chunks) <= n - start
        BY <1>1, <1>3
    <2> QED BY <1>3, <2>1, <2>2, <2>3 DEF CoversFrom
<1>5. ASSUME C!AllBlank(text, span) PROVE CoversFrom(text, size, start, rest)
    <2>1. ASSUME NEW i \in start .. (n - 1), ~C!BlankAt(text, i)
          PROVE  i \in next .. (n - 1)
        <3>1. ~(i \in start .. (end - 1))
            BY <1>5, <1>2, <2>1 DEF C!AllBlank
        <3> QED BY <3>1
    <2>2. Len(rest) <= n - start
        BY <1>1, <1>3
    <2> QED BY <1>1, <2>1, <2>2 DEF CoversFrom
<1> QED BY <1>4, <1>5 DEF chunks, span

\* The chunks of any text, for any chunk size and overlap, cover it.
THEOREM ChunksCover ==
    ASSUME NEW text, Len(text) \in Nat, NEW size \in Nat \ {0}, NEW overlap \in Nat
    PROVE  C!Covers(text, size, overlap)
<1> DEFINE n == Len(text)
           Solves(f) == f = [start \in 0 .. n |-> ChunksFrom(f, text, size, overlap, start)]
           from == CHOOSE f : Solves(f)
<1> n \in Nat
    OBVIOUS
<1>1. C!chunk_text(text, size, overlap) = from[0]
    BY DEF C!chunk_text, ChunksFrom
<1>2. \E f : Solves(f)
    BY ChunksAreDefined
<1>3. Solves(from)
    <2> HIDE DEF Solves
    <2> QED BY <1>2
<1>4. from = [start \in 0 .. n |-> ChunksFrom(from, text, size, overlap, start)]
    BY <1>3, Zenon
<1> HIDE DEF from
<1>5. \A start \in 0 .. n : from[start] = ChunksFrom(from, text, size, overlap, start)
    <2> DEFINE g == [start \in 0 .. n |-> ChunksFrom(from, text, size, overlap, start)]
    <2>1. \A start \in 0 .. n : g[start] = ChunksFrom(from, text, size, overlap, start)
        OBVIOUS
    <2> QED BY <2>1, <1>4, Zenon
<1> DEFINE S == {k \in Nat : \A m \in 0 .. k : m <= n => CoversFrom(text, size, n - m, from[n - m])}
<1>6. ASSUME NEW start \in 0 .. n, \A s \in start + 1 .. n : CoversFrom(text, size, s, from[s])
      PROVE  CoversFrom(text, size, start, from[start])
    <2> DEFINE end == C!CutAt(text, start, size)
               span == [from |-> start, to |-> end]
               next == C!NextStart(start, end, overlap)
               rest == IF end >= n THEN <<>> ELSE from[next]
    <2>1. /\ end \in Int /\ end <= start + size /\ end <= n /\ end >= start
          /\ start < n => end > start
        BY CutsForward
    <2>2. from[start] = IF C!AllBlank(text, span) THEN rest ELSE <<span>> \o rest
        BY <1>5 DEF ChunksFrom
    <2> HIDE DEF end
    <2>3. CASE start < n
        <3>1. CASE end >= n
            <4>1. CoversFrom(text, size, n, rest)
                BY <3>1 DEF CoversFrom
            <4> HIDE DEF rest
            <4>2. n \in start + 1 .. n /\ start < end /\ n <= end
                BY <2>1, <2>3, <3>1
            <4> QED BY <4>1, <4>2, <2>1, <2>2, OneMoreChunk
        <3>2. CASE end < n
            <4>0. start \in Nat
                OBVIOUS
            <4>1. next \in start + 1 .. n /\ next <= end /\ start < end
                BY <4>0, <2>1, <2>3, <3>2, StartsForward
            <4> HIDE DEF next
            <4>2. CoversFrom(text, size, next, rest)
                BY <1>6, <4>1, <2>1, <3>2
            <4> HIDE DEF rest
            <4> QED BY <4>1, <4>2, <2>1, <2>2, OneMoreChunk
        <3> QED BY <3>1, <3>2, <2>1
    <2>4. CASE start = n
        <3>1. end = n
            BY <2>1, <2>4
        <3>2. C!AllBlank(text, span)
            BY <3>1, <2>4 DEF C!AllBlank
        <3>3. from[start] = <<>>
            BY <3>1, <3>2, <2>2
        <3> QED BY <3>3, <2>4 DEF CoversFrom
    <2> QED BY <2>3, <2>4
<1>7. 0 \in S
    <2>1. \A s \in n + 1 .. n : CoversFrom(text, size, s, from[s])
        OBVIOUS
    <2>2. CoversFrom(text, size, n, from[n])
        BY <2>1, <1>6
    <2>3. n - 0 = n /\ \A m \in 0 .. 0 : m = 0
        OBVIOUS
    <2> QED BY <2>2, <2>3
<1>8. ASSUME NEW k \in Nat, k \in S PROVE k + 1 \in S
    <2>1. ASSUME k + 1 <= n PROVE CoversFrom(text, size, n - (k + 1), from[n - (k + 1)])
        <3>1. n - (k + 1) \in 0 .. n
            BY <2>1
        <3>2. ASSUME NEW s \in (n - (k + 1)) + 1 .. n PROVE CoversFrom(text, size, s, from[s])
            <4>1. \A a, b \in Nat, c \in Int :
                     c >= (a - (b + 1)) + 1 /\ c <= a /\ b + 1 <= a
                       => a - c \in 0 .. b /\ a - c <= a /\ a - (a - c) = c
                OBVIOUS
            <4>2. s \in Int /\ s >= (n - (k + 1)) + 1 /\ s <= n /\ k + 1 <= n
                BY <2>1
            <4>3. n - s \in 0 .. k /\ n - s <= n /\ n - (n - s) = s
                BY <4>1, <4>2
            <4> QED BY <4>3, <1>8
        <3> QED BY <3>1, <3>2, <1>6
    <2>2. \A m \in 0 .. k + 1 : m \in 0 .. k \/ m = k + 1
        OBVIOUS
    <2> QED BY <2>1, <2>2, <1>8
<1>9. n \in S
    <2> HIDE DEF S
    <2> QED BY <1>7, <1>8, NaturalsBySteps
<1>10. CoversFrom(text, size, 0, from[0])
    <2>1. n \in 0 .. n /\ n - n = 0
        OBVIOUS
    <2> QED BY <1>9, <2>1
<1> QED
    <2>1. 0 .. (n - 1) = 0 .. (Len(text) - 1) /\ Len(text) - 0 = Len(text)
        OBVIOUS
    <2>2. Len(from[0]) \in Nat
        BY <1>10 DEF CoversFrom
    <2> QED BY <1>1, <1>10, <2>1, <2>2 DEF C!Covers, C!TooLong, CoversFrom


\* The input is a text, a chunk size and an overlap.
IsInput == /\ Len(input.text) \in Nat /\ input.size \in Nat \ {0} /\ input.overlap \in Nat

\* Nothing of a document is lost when it is cut into chunks (chunk_text), whatever the
\* lengths of texts and chunks that are tried.
THEOREM NothingCutAway == MCSpec => []NothingIsCutAway
<1>1. MCInit => IsInput
    <2> SUFFICES ASSUME MCInit PROVE IsInput
        OBVIOUS
    <2>1. CASE input \in Texts
        <3> DEFINE Of(n, size) == [text : C!Normalized(n), size : {size}, overlap : 0 .. size - 1]
               All == {Of(n, size) : n \in 1 .. MaxText, size \in 2 .. MaxSize}
        <3>0. input \in UNION All
            BY <2>1 DEF Texts
        <3>1. PICK some \in All : input \in some
            <4> HIDE DEF All
            <4> QED BY <3>0
        <3>2. PICK n \in 1 .. MaxText, size \in 2 .. MaxSize : some = Of(n, size)
            <4> HIDE DEF Of
            <4> QED OBVIOUS
        <3> HIDE DEF All
        <3>3. n \in Nat /\ size \in Nat \ {0}
            OBVIOUS
        <3>4. input \in Of(n, size)
            <4> HIDE DEF Of
            <4> QED BY <3>1, <3>2
        <3>5. /\ input.text \in C!Normalized(n) /\ input.size = size
              /\ input.overlap \in 0 .. size - 1
            BY <3>4
        <3>6. input.text \in [1 .. n -> {C!Letter, C!Blank}]
            BY <3>5 DEF C!Normalized
        <3>7. Len(input.text) = n
            BY <3>6, <3>3
        <3> QED BY <3>3, <3>5, <3>7 DEF IsInput
    <2>2. CASE input = System
        <3>1. input.text = <<>> /\ input.size = 1 /\ input.overlap = 0
            BY <2>2 DEF System
        <3> QED BY <3>1 DEF IsInput
    <2> QED BY <2>1, <2>2 DEF MCInit
<1>2. IsInput /\ [MCNext]_<<vars, input>> => IsInput'
    BY DEF IsInput, MCNext
<1>3. IsInput => NothingIsCutAway
    BY ChunksCover DEF IsInput, NothingIsCutAway
<1> QED BY <1>1, <1>2, <1>3, PTL DEF MCSpec
=============================================================================
