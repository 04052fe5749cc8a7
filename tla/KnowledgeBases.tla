--------------------------- MODULE KnowledgeBases ---------------------------
(***************************************************************************)
(* One knowledge base of the retrieval service (services/rag.py,           *)
(* repositories/rag.py): its row, the dataset versions attached to it and  *)
(* its index builds, worked on by requests of its owner, by queue workers  *)
(* and by the periodic reconciliation.                                     *)
(*                                                                         *)
(* Every write compares the version of the row with the one read earlier,  *)
(* so a step is a read, or a transaction up to its commit, or a call of    *)
(* the broker.  Sessions keep what they loaded (db/session.py sets         *)
(* expire_on_commit=False) until a rollback: the worker's second read of   *)
(* the knowledge base, before it publishes, returns the first one again.   *)
(* A build is stale when it has waited longer than a timeout; as no clock  *)
(* is modelled, an active build may be found stale at any time.            *)
(***************************************************************************)
EXTENDS Naturals, FiniteSets

CONSTANTS
    Clients,             \* concurrent requests of the owner
    Workers,             \* processes that consume the index queue
    Versions,            \* ready document dataset versions
    None,
    MaxBuilds,           \* bound: builds ever requested
    MaxRequests,         \* bound: requests of the owner
    MaxAttached,         \* _MAX_ATTACHED_DATASET_VERSIONS
    MaxEnqueueAttempts,  \* rag_index_max_enqueue_attempts
    MaxFaults            \* bound: crashes, failed broker calls and failed indexing

ASSUME KnowledgeBaseConstants ==
    /\ MaxBuilds \in Nat /\ MaxRequests \in Nat /\ MaxFaults \in Nat
    /\ MaxAttached \in Nat \ {0} /\ MaxEnqueueAttempts \in 1 .. 100
    /\ None \notin Versions /\ None \notin 1 .. MaxBuilds

VARIABLES
    kb,          \* the rag_knowledge_bases row
    attached,    \* the versions of its rag_knowledge_base_dataset_versions rows
    builds,      \* the rag_index_builds rows
    queue,       \* undelivered messages per build
    proc,        \* the local state of every request, worker and reconciliation
    spent        \* requests and faults so far

indexVars == <<kb, attached, builds, queue, proc, spent>>

Builds == 1 .. MaxBuilds
Reconciler == "reconciler"
Procs == Clients \cup Workers \cup {Reconciler}

BuildStatus == {"absent", "queued", "running", "succeeded", "failed", "cancelled"}
Active == {"queued", "running"}

KnowledgeBaseRow ==
    [status : {"draft", "indexing", "ready", "failed", "archived"},
     active : Builds \cup {None}, version : Nat]

BuildRow ==
    [status : BuildStatus, attempts : 0 .. 100, version : Nat,
     indexed : SUBSET Versions]

NoBuild == [status |-> "absent", attempts |-> 0, version |-> 0, indexed |-> {}]

\* A process holds the operation it performs (pc), what it is about (arg), and
\* the rows it has read: the knowledge base, and a build and its number.
Idle == [pc |-> "idle", arg |-> None, kb |-> None, build |-> None, row |-> None]

Read(pc, arg, b) ==
    [pc |-> pc, arg |-> arg, kb |-> kb, build |-> b,
     row |-> IF b = None THEN None ELSE builds[b]]

IndexInit ==
    /\ kb = [status |-> "draft", active |-> None, version |-> 0]
    /\ attached = {}
    /\ builds = [b \in Builds |-> NoBuild]
    /\ queue = [b \in Builds |-> 0]
    /\ proc = [p \in Procs |-> Idle]
    /\ spent = [requests |-> 0, faults |-> 0]

Moves(p, new) == proc' = [proc EXCEPT ![p] = new]
Rest(p) == Moves(p, Idle)
Fault == /\ spent.faults < MaxFaults
         /\ spent' = [spent EXCEPT !.faults = @ + 1]

-----------------------------------------------------------------------------
(* The repository: updates that find a row only in the version read.       *)

\* The WHERE clause of transition_build.
BuildIs(b, seen) == builds[b].status = seen.status /\ builds[b].version = seen.version

transition_build(b, new) ==
    builds' = [builds EXCEPT ![b].status = new, ![b].version = @ + 1]

AnyKnowledgeBase(seen) == TRUE

\* The WHERE clause of update_knowledge_base.
KnowledgeBaseIs(seen) == kb.version = seen.version

update_knowledge_base(status, active) ==
    kb' = [status |-> status, active |-> active, version |-> kb.version + 1]

latest_active_build == {b \in Builds : builds[b].status \in Active}

StaleRunning(b) == builds[b].status = "running"

\* list_stale_active_builds
Stale(b) == builds[b].status \in Active

\* The WHERE clause of record_build_enqueue_attempt.
AttemptAllowed(b, seen, maximum) ==
    builds[b].status = "queued" /\ builds[b].version = seen.version
        /\ builds[b].attempts < maximum

record_build_enqueue_attempt(b) ==
    builds' = [builds EXCEPT ![b].attempts = @ + 1, ![b].version = @ + 1]

\* The WHERE clause of fail_exhausted_queued_build.
Exhausted(b, seen) ==
    /\ builds[b].status = "queued" /\ builds[b].version = seen.version
    /\ builds[b].attempts >= MaxEnqueueAttempts

Mutable(row) == row.status \notin {"archived", "indexing"}

-----------------------------------------------------------------------------
(* Requests of the owner: a read and its checks, then the transaction.      *)

Begin(c, pc, arg, b) ==
    /\ proc[c] = Idle /\ spent.requests < MaxRequests
    /\ spent' = [spent EXCEPT !.requests = @ + 1]
    /\ Moves(c, Read(pc, arg, b))
    /\ UNCHANGED <<kb, attached, builds, queue>>

MayAttach(v) ==
    Mutable(kb) /\ v \notin attached /\ Cardinality(attached) < MaxAttached

attach_dataset_version(c, v) == MayAttach(v) /\ Begin(c, "attach", v, None)

KeepsIndex(c) ==
    /\ proc[c].pc = "attach"
    /\ IF KnowledgeBaseIs(proc[c].kb)
       THEN /\ attached' = attached \cup {proc[c].arg}
            /\ update_knowledge_base(kb.status, kb.active)
       ELSE UNCHANGED <<attached, kb>>
    /\ Rest(c)
    /\ UNCHANGED <<builds, queue, spent>>

\* The index is dropped: it no longer covers what is attached.
CommitAttach(c) ==
    /\ proc[c].pc = "attach"
    /\ IF KnowledgeBaseIs(proc[c].kb)
       THEN attached' = attached \cup {proc[c].arg} /\ update_knowledge_base("draft", None)
       ELSE UNCHANGED <<attached, kb>>
    /\ Rest(c)
    /\ UNCHANGED <<builds, queue, spent>>

detach_dataset_version(c, v) ==
    Mutable(kb) /\ v \in attached /\ Begin(c, "detach", v, None)

CommitDetach(c) ==
    /\ proc[c].pc = "detach"
    /\ IF KnowledgeBaseIs(proc[c].kb) /\ proc[c].arg \in attached
       THEN attached' = attached \ {proc[c].arg} /\ update_knowledge_base("draft", None)
       ELSE UNCHANGED <<attached, kb>>
    /\ Rest(c)
    /\ UNCHANGED <<builds, queue, spent>>

MayBuild == Mutable(kb) /\ attached # {} /\ latest_active_build = {}

\* Bound: MaxBuilds rows.
build_index(c) ==
    /\ \E b \in Builds : builds[b] = NoBuild
    /\ MayBuild /\ Begin(c, "create", None, None)

CommitBuild(c) ==
    /\ proc[c].pc = "create"
    /\ IF KnowledgeBaseIs(proc[c].kb)
       THEN \E b \in Builds :
              /\ builds[b] = NoBuild
              /\ \A a \in Builds : a < b => builds[a] # NoBuild
              /\ builds' = [builds EXCEPT ![b].status = "queued"]
              /\ update_knowledge_base("indexing", kb.active)
              /\ Moves(c, [Idle EXCEPT !.pc = "attempt", !.build = b, !.row = builds'[b]])
       ELSE Rest(c) /\ UNCHANGED <<builds, kb>>
    /\ UNCHANGED <<attached, queue, spent>>

\* The rest of create_and_enqueue_build: the attempt is counted before the broker
\* is called, and a build that cannot be queued is failed.
RecordAttempt(c) ==
    /\ proc[c].pc = "attempt"
    /\ LET b == proc[c].build
       IN IF AttemptAllowed(b, proc[c].row, 100)
          THEN record_build_enqueue_attempt(b) /\ Moves(c, [proc[c] EXCEPT !.pc = "enqueue"])
          ELSE Rest(c) /\ UNCHANGED builds
    /\ UNCHANGED <<kb, attached, queue, spent>>

enqueue(p) ==
    /\ proc[p].pc = "enqueue"
    /\ queue' = [queue EXCEPT ![proc[p].build] = @ + 1]
    /\ Rest(p)
    /\ UNCHANGED <<kb, attached, builds, spent>>

\* A reconciliation leaves the build to the next one.
EnqueueFails(p) ==
    /\ proc[p].pc = "enqueue"
    /\ Moves(p, IF p = Reconciler THEN Idle
                ELSE [Idle EXCEPT !.pc = "fail", !.build = proc[p].build])
    /\ Fault
    /\ UNCHANGED <<kb, attached, builds, queue>>

cancel_index_build(c) ==
    \E b \in latest_active_build : Begin(c, "cancel", None, b)

CommitCancel(c) ==
    /\ proc[c].pc = "cancel"
    /\ IF BuildIs(proc[c].build, proc[c].row) /\ KnowledgeBaseIs(proc[c].kb)
       THEN /\ transition_build(proc[c].build, "cancelled")
            /\ update_knowledge_base(IF kb.active = None THEN "draft" ELSE "ready", kb.active)
       ELSE UNCHANGED <<builds, kb>>
    /\ Rest(c)
    /\ UNCHANGED <<attached, queue, spent>>

archive_knowledge_base(c) ==
    /\ kb.status # "archived" /\ latest_active_build = {}
    /\ Begin(c, "archive", None, None)

CommitArchive(c) ==
    /\ proc[c].pc = "archive"
    /\ IF KnowledgeBaseIs(proc[c].kb) THEN update_knowledge_base("archived", kb.active)
                                      ELSE kb' = kb
    /\ Rest(c)
    /\ UNCHANGED <<attached, builds, queue, spent>>

-----------------------------------------------------------------------------
(* The worker: process_build.  A message is acknowledged when it ends; one  *)
(* that ends in an error, or whose worker dies, is delivered again.         *)

Receive(w, b) ==
    /\ proc[w] = Idle /\ queue[b] > 0
    /\ queue' = [queue EXCEPT ![b] = @ - 1]
    /\ IF builds[b].status = "queued" THEN Moves(w, Read("claim", None, b)) ELSE Rest(w)
    /\ UNCHANGED <<kb, attached, builds, spent>>

Claim(w) ==
    /\ proc[w].pc = "claim"
    /\ LET b == proc[w].build
       IN IF BuildIs(b, proc[w].row)
          THEN /\ transition_build(b, "running")
               /\ Moves(w, [proc[w] EXCEPT !.pc = "index", !.row = builds'[b]])
          ELSE Rest(w) /\ UNCHANGED builds
    /\ UNCHANGED <<kb, attached, queue, spent>>

\* Documents are listed, chunked and embedded; any of it may fail.
Index(w) ==
    /\ proc[w].pc = "index"
    /\ \/ /\ attached # {}
          /\ Moves(w, [proc[w] EXCEPT !.pc = "publish", !.arg = attached])
          /\ UNCHANGED spent
       \/ Moves(w, [Idle EXCEPT !.pc = "fail", !.build = proc[w].build]) /\ Fault
    /\ UNCHANGED <<kb, attached, builds, queue>>

\* Chunks, the build's end and the knowledge base are one transaction.
Publish(w) ==
    /\ proc[w].pc = "publish"
    /\ LET b == proc[w].build
       IN IF BuildIs(b, proc[w].row) /\ KnowledgeBaseIs(proc[w].kb)
          THEN /\ builds' = [builds EXCEPT ![b].status = "succeeded", ![b].version = @ + 1,
                                           ![b].indexed = proc[w].arg]
               /\ update_knowledge_base("ready", b)
               /\ Rest(w)
          ELSE /\ Moves(w, [Idle EXCEPT !.pc = "fail", !.build = b])
               /\ UNCHANGED <<builds, kb>>
    /\ UNCHANGED <<attached, queue, spent>>

-----------------------------------------------------------------------------
(* _fail_build reads both rows again and updates them in that version. *)

\* A message that ended in an error is delivered again.  The one error that
\* process_build answers by returning is included: its message would find the
\* build ended, and be acknowledged.
Redeliver(p) ==
    queue' = IF p \in Workers THEN [queue EXCEPT ![proc[p].build] = @ + 1] ELSE queue

FailRead(p) ==
    /\ proc[p].pc = "fail"
    /\ IF builds[proc[p].build].status \in Active
       THEN Moves(p, Read("failing", None, proc[p].build)) /\ UNCHANGED queue
       ELSE Rest(p) /\ Redeliver(p)
    /\ UNCHANGED <<kb, attached, builds, spent>>

FailCommit(p) ==
    /\ proc[p].pc = "failing"
    /\ IF BuildIs(proc[p].build, proc[p].row) /\ KnowledgeBaseIs(proc[p].kb)
       THEN /\ transition_build(proc[p].build, "failed")
            /\ update_knowledge_base(IF kb.active = None THEN "failed" ELSE "ready", kb.active)
       ELSE UNCHANGED <<builds, kb>>
    /\ Redeliver(p)
    /\ Rest(p)
    /\ UNCHANGED <<attached, spent>>

-----------------------------------------------------------------------------
(* The periodic reconciliation: reconcile_stale. *)

Select(b) ==
    /\ proc[Reconciler] = Idle
    /\ Stale(b)
    /\ Moves(Reconciler, Read("repair", None, b))
    /\ UNCHANGED <<kb, attached, builds, queue, spent>>

Repair ==
    /\ proc[Reconciler].pc = "repair"
    /\ LET b == proc[Reconciler].build
           seen == proc[Reconciler].row
       IN CASE seen.status = "running" ->
                 /\ Moves(Reconciler, [Idle EXCEPT !.pc = "fail", !.build = b])
                 /\ UNCHANGED <<builds, kb>>
            [] seen.status = "queued" /\ seen.attempts >= MaxEnqueueAttempts ->
                 /\ IF Exhausted(b, seen)
                    THEN /\ transition_build(b, "failed")
                         /\ update_knowledge_base(
                                IF kb.active = None THEN "failed" ELSE "ready", kb.active)
                    ELSE UNCHANGED <<builds, kb>>
                 /\ Rest(Reconciler)
            [] OTHER ->
                 /\ IF AttemptAllowed(b, seen, MaxEnqueueAttempts)
                    THEN /\ record_build_enqueue_attempt(b)
                         /\ Moves(Reconciler, [Idle EXCEPT !.pc = "enqueue", !.build = b])
                    ELSE Rest(Reconciler) /\ UNCHANGED builds
                 /\ UNCHANGED kb
    /\ UNCHANGED <<attached, queue, spent>>

-----------------------------------------------------------------------------

\* A process dies; the broker delivers an unacknowledged message again.
Crash(p) ==
    /\ proc[p] # Idle
    /\ Fault
    /\ Redeliver(p)
    /\ Rest(p)
    /\ UNCHANGED <<kb, attached, builds>>

Request(c) ==
    \/ \E v \in Versions : attach_dataset_version(c, v) \/ detach_dataset_version(c, v)
    \/ CommitAttach(c) \/ CommitDetach(c)
    \/ build_index(c) \/ CommitBuild(c) \/ RecordAttempt(c)
    \/ cancel_index_build(c) \/ CommitCancel(c)
    \/ archive_knowledge_base(c) \/ CommitArchive(c)

Work(w) ==
    \/ \E b \in Builds : Receive(w, b)
    \/ Claim(w) \/ Index(w) \/ Publish(w)

Reconcile ==
    \/ \E b \in Builds : Select(b)
    \/ Repair \/ enqueue(Reconciler) \/ FailRead(Reconciler) \/ FailCommit(Reconciler)

IndexNext ==
    \/ \E c \in Clients : Request(c) \/ enqueue(c)
    \/ \E w \in Workers : Work(w)
    \/ \E p \in Clients \cup Workers : FailRead(p) \/ FailCommit(p)
    \/ Reconcile
    \/ \E p \in Procs : EnqueueFails(p) \/ Crash(p)

-----------------------------------------------------------------------------
(* Properties *)

IndexTypeOK ==
    /\ kb \in KnowledgeBaseRow
    /\ attached \subseteq Versions
    /\ builds \in [Builds -> BuildRow]
    /\ queue \in [Builds -> Nat]
    /\ DOMAIN proc = Procs
    /\ spent \in [requests : 0 .. MaxRequests, faults : 0 .. MaxFaults]

\* A knowledge base is indexing exactly while one build of it is active: a race of
\* two requests never starts two builds, and no build ends (by its worker, a
\* cancellation, a failed enqueue or a reconciliation) that leaves it indexing.
IndexingWhileBuilding ==
    /\ Cardinality(latest_active_build) <= 1
    /\ kb.status = "indexing" <=> latest_active_build # {}

\* What a knowledge base serves is a succeeded build over exactly the versions
\* attached to it, whatever was cancelled, failed, attached or detached since.
ServesWhatIsAttached ==
    kb.status = "ready" =>
        /\ kb.active # None
        /\ builds[kb.active].status = "succeeded"
        /\ builds[kb.active].indexed = attached

\* Every build ends, if only the reconciliation keeps running: whatever process
\* died, and whether or not a worker ever takes the build.
BuildsEnd ==
    \A b \in Builds : builds[b].status \in Active ~> builds[b].status \notin Active
=============================================================================
