--------------------------- MODULE DatasetVersions ---------------------------
(***************************************************************************)
(* The versions of one registered dataset: their upload and archiving      *)
(* (DatasetService in datasets/service.py), their processing by the worker *)
(* and the recovery of stale processing (DatasetProcessor), over           *)
(* repositories/datasets.py, and the attachment to knowledge bases that    *)
(* claims the same dataset row (services/rag.py).                          *)
(*                                                                         *)
(* A step ends at a commit, at a call of the object storage or the broker, *)
(* or at a read whose value is used after another process may have run.    *)
(* An upload, its stored object and its version share one name.            *)
(*                                                                         *)
(* Definitions that no other uses (StaleProcessing, ...) are faulty        *)
(* variants of the definition that follows them; each one makes a property *)
(* below fail.                                                             *)
(***************************************************************************)
EXTENDS Naturals, FiniteSets

CONSTANTS
    Uploads,        \* calls of create_version
    NoUpload,       \* not an upload
    Contents,       \* SHA-256 digests
    NoContent,      \* not a digest
    Kind,           \* of the dataset: "tabular" or "document_collection"
    Workers,        \* Dramatiq threads
    Passes,         \* concurrent runs of reconcile_dataset_processing
    MaxRetries,     \* max_retries of process_dataset_version
    MaxEnqueues,    \* dataset_processing_max_enqueue_attempts
    MaxFaults       \* bound: crashes, database errors and lost messages

ASSUME NullAssumption == NoUpload \notin Uploads /\ NoContent \notin Contents
ASSUME KindAssumption == Kind \in {"tabular", "document_collection"}
ASSUME BoundsAssumption == /\ MaxRetries \in Nat /\ MaxFaults \in Nat
                           /\ MaxEnqueues \in Nat \ {0}

VARIABLES
    dataset,        \* the row of the dataset
    row,            \* the dataset_versions table
    documents,      \* the versions with a document record
    objects,        \* the stored objects
    attachment,     \* of each version to a knowledge base that is not archived
    upload,         \* each call of create_version
    messages,       \* ready messages of each version, by how often retried
    worker,         \* each delivery in progress
    pass,           \* each recovery pass
    faults

vars == <<dataset, row, documents, objects, attachment, upload, messages,
          worker, pass, faults>>

-----------------------------------------------------------------------------
(* The state space *)

Unsettled == {"pending", "processing"}
Settled == {"ready", "failed"}

\* version is state_version; enqueued and started are last_enqueued_at and
\* processing_started_at, relative to the recovery cutoff; code is error_code:
\* "retry" is processing_retry_pending, "recovered" stale_processing_recovered.
Row == [status : {"absent"} \cup Unsettled \cup Settled,
        number : Nat, version : Nat, content : Contents \cup {NoContent},
        code : {"null", "retry", "recovered", "other"},
        enqueues : 0 .. MaxEnqueues,
        enqueued : {"recent", "old"},
        started : {"null", "recent", "old"}]

Dataset == [status : {"active", "archived"}, version : Nat,
            current : Uploads \cup {NoUpload}]

\* seen is the state_version of the dataset as the call read it.
Upload == [pc : {"new", "register", "enqueue", "unqueue", "discard", "done"},
           seen : Nat, content : Contents \cup {NoContent}]

\* claim is the state_version that claim_version returned.
Worker == [pc : {"idle", "ingest", "finish", "again", "repoint", "fail",
                 "release"},
           version : Uploads \cup {NoUpload}, claim : Nat, seen : Nat,
           retries : 0 .. MaxRetries]

Idle == [pc |-> "idle", version |-> NoUpload, claim |-> 0, seen |-> 0, retries |-> 0]

Pass == [pc : {"idle", "list", "loop", "enqueue"},
         todo : SUBSET Uploads, version : Uploads \cup {NoUpload}]

Resting == [pc |-> "idle", todo |-> {}, version |-> NoUpload]

TypeOK ==
    /\ dataset \in Dataset
    /\ row \in [Uploads -> Row]
    /\ documents \subseteq Uploads
    /\ objects \subseteq Uploads
    /\ attachment \in [Uploads -> {"never", "attached", "detached"}]
    /\ upload \in [Uploads -> Upload]
    /\ messages \in [Uploads -> [0 .. MaxRetries -> Nat]]
    /\ worker \in [Workers -> Worker]
    /\ pass \in [Passes -> Pass]
    /\ faults \in 0 .. MaxFaults

Init ==
    /\ dataset = [status |-> "active", version |-> 0, current |-> NoUpload]
    /\ row = [u \in Uploads |->
                [status |-> "absent", number |-> 0, version |-> 0,
                 content |-> NoContent, code |-> "null", enqueues |-> 0,
                 enqueued |-> "recent", started |-> "null"]]
    /\ documents = {}
    /\ objects = {}
    /\ attachment = [u \in Uploads |-> "never"]
    /\ upload = [u \in Uploads |-> [pc |-> "new", seen |-> 0, content |-> NoContent]]
    /\ messages = [u \in Uploads |-> [n \in 0 .. MaxRetries |-> 0]]
    /\ worker = [w \in Workers |-> Idle]
    /\ pass = [p \in Passes |-> Resting]
    /\ faults = 0

-----------------------------------------------------------------------------
(* Helpers *)

Registered == {u \in Uploads : row[u].status # "absent"}

Goto(u, pc) == upload' = [upload EXCEPT ![u].pc = pc]

Become(w, state) == worker' = [worker EXCEPT ![w] = state]

Send(u, n) == messages' = [messages EXCEPT ![u][n] = @ + 1]

Fault == faults < MaxFaults /\ faults' = faults + 1

\* Both conditional updates of a dataset row that insert a row depending on it.
ClaimableEver(seen) == seen \in Nat

Claimable(seen) == dataset.status = "active" /\ dataset.version = seen

-----------------------------------------------------------------------------
(* The conditional updates of DatasetRepository, as functions of the row *)

\* claim_version, of a pending version.
ClaimVersion(r) ==
    [r EXCEPT !.status = "processing", !.version = @ + 1, !.started = "recent"]

\* mark_version_ready and release_version_for_retry, of a version whose claim holds.
MarkReady(r) == [r EXCEPT !.status = "ready", !.version = @ + 1, !.code = "null"]

ReleaseForRetry(r) ==
    [r EXCEPT !.status = "pending", !.version = @ + 1, !.code = "retry", !.started = "null"]

MarkFailedAlways(r) == [r EXCEPT !.status = "failed", !.code = "other", !.version = @ + 1]

\* mark_version_failed looks at the status alone.
MarkFailed(r) ==
    IF r.status \in Unsettled
    THEN [r EXCEPT !.status = "failed", !.code = "other", !.version = @ + 1]
    ELSE r

StaleProcessing(r) == r.status = "processing" /\ r.started = "old"

\* A pending version counts only after an earlier attempt.
Stale(r) ==
    \/ r.status = "processing" /\ r.started = "old"
    \/ r.status = "pending" /\ r.code \in {"retry", "recovered"} /\ r.enqueued = "old"

RepairableAlways(r) == Stale(r)

Repairable(r) == Stale(r) /\ r.enqueues < MaxEnqueues

\* fail_exhausted_stale_versions.
FailIfExhausted(r) == IF Stale(r) /\ r.enqueues >= MaxEnqueues THEN MarkFailed(r) ELSE r

\* reconcile_stale_version.
Recover(r) ==
    IF Repairable(r)
    THEN [r EXCEPT !.status = "pending", !.version = @ + 1, !.code = "recovered",
                   !.enqueues = @ + 1, !.enqueued = "recent", !.started = "null"]
    ELSE r

-----------------------------------------------------------------------------
(* DatasetService.create_version *)

\* The dataset is read and the object stored.  The upload is refused when the
\* dataset is archived or the file unacceptable, empty or too large, and then
\* leaves no object.
Store(u) ==
    /\ upload[u].pc = "new"
    /\ \/ /\ dataset.status = "active"
          /\ \E c \in Contents :
                upload' = [upload EXCEPT ![u] = [pc |-> "register",
                                                 seen |-> dataset.version, content |-> c]]
          /\ objects' = objects \cup {u}
       \/ Goto(u, "done") /\ UNCHANGED objects
    /\ UNCHANGED <<dataset, row, documents, attachment, messages, worker, pass, faults>>

\* next_version_number: one more than the greatest number so far.
IsNextNumber(n) ==
    /\ \A v \in Registered : row[v].number < n
    /\ n = 1 \/ \E v \in Registered : row[v].number = n - 1

\* One transaction: the claim of the dataset and the new version.  The digest
\* is unique in the dataset, failed versions included.
Register(u) ==
    /\ upload[u].pc = "register"
    /\ IF /\ Claimable(upload[u].seen)
          /\ \A v \in Registered : row[v].content # upload[u].content
       THEN /\ dataset' = [dataset EXCEPT !.version = @ + 1]
            /\ \E n \in 1 .. Cardinality(Uploads) :
                  /\ IsNextNumber(n)
                  /\ row' = [row EXCEPT ![u] =
                                [status |-> "pending", number |-> n, version |-> 0,
                                 content |-> upload[u].content, code |-> "null",
                                 enqueues |-> 1, enqueued |-> "recent",
                                 started |-> "null"]]
            /\ Goto(u, "enqueue")
       ELSE Goto(u, "discard") /\ UNCHANGED <<dataset, row>>
    /\ UNCHANGED <<documents, objects, attachment, messages, worker, pass, faults>>

\* An error of the broker leaves open whether it has taken the message.
Enqueue(u) ==
    /\ upload[u].pc = "enqueue"
    /\ \/ Send(u, 0) /\ \E pc \in {"done", "unqueue"} : Goto(u, pc)
       \/ UNCHANGED messages /\ Goto(u, "unqueue")
    /\ UNCHANGED <<dataset, row, documents, objects, attachment, worker, pass, faults>>

UnqueueUnmarked(u) ==
    /\ upload[u].pc = "unqueue"
    /\ Goto(u, "discard")
    /\ UNCHANGED <<dataset, row, documents, objects, attachment, messages, worker, pass, faults>>

Unqueue(u) ==
    /\ upload[u].pc = "unqueue"
    /\ row' = [row EXCEPT ![u] = MarkFailed(@)]
    /\ Goto(u, "discard")
    /\ UNCHANGED <<dataset, documents, objects, attachment, messages, worker, pass, faults>>

Discard(u) ==
    /\ upload[u].pc = "discard"
    /\ objects' = objects \ {u}
    /\ Goto(u, "done")
    /\ UNCHANGED <<dataset, row, documents, attachment, messages, worker, pass, faults>>

-----------------------------------------------------------------------------
(* DatasetService.archive_dataset and the knowledge bases *)

\* The read of the dataset and the update conditional on the version read
\* amount to one step.
Archive ==
    /\ dataset.status = "active"
    /\ \A u \in Uploads : /\ row[u].status \notin Unsettled
                          /\ attachment[u] # "attached"
    /\ dataset' = [dataset EXCEPT !.status = "archived", !.version = @ + 1]
    /\ UNCHANGED <<row, documents, objects, attachment, upload, messages, worker,
                   pass, faults>>

\* RAGService.attach_dataset_version: one transaction that claims the dataset.
\* Bound: a version is attached once.
Attach(u) ==
    /\ Kind = "document_collection"
    /\ row[u].status = "ready"
    /\ attachment[u] = "never"
    /\ Claimable(dataset.version)
    /\ attachment' = [attachment EXCEPT ![u] = "attached"]
    /\ dataset' = [dataset EXCEPT !.version = @ + 1]
    /\ UNCHANGED <<row, documents, objects, upload, messages, worker, pass, faults>>

\* The version is detached or its knowledge base archived.
Detach(u) ==
    /\ attachment[u] = "attached"
    /\ attachment' = [attachment EXCEPT ![u] = "detached"]
    /\ UNCHANGED <<dataset, row, documents, objects, upload, messages, worker, pass, faults>>

-----------------------------------------------------------------------------
(* DatasetProcessor.process and the actor around it *)

\* claim_version; a message for a version that is not pending is acknowledged.
Deliver(w, u, n) ==
    /\ worker[w].pc = "idle"
    /\ messages[u][n] > 0
    /\ messages' = [messages EXCEPT ![u][n] = @ - 1]
    /\ IF row[u].status = "pending"
       THEN /\ row' = [row EXCEPT ![u] = ClaimVersion(@)]
            /\ Become(w, [pc |-> "ingest", version |-> u, claim |-> row[u].version + 1,
                          seen |-> 0, retries |-> n])
       ELSE UNCHANGED <<row, worker>>
    /\ UNCHANGED <<dataset, documents, objects, attachment, upload, pass, faults>>

\* An exception leaves the actor: Dramatiq sends the message again, up to a bound.
Raises(w) ==
    /\ Become(w, Idle)
    /\ IF worker[w].retries < MaxRetries
       THEN Send(worker[w].version, worker[w].retries + 1)
       ELSE UNCHANGED messages

\* The dataset that the rest of the delivery works with, and ingestion: it
\* succeeds, times out or finds the content invalid ("fail"), or the storage is
\* in trouble ("release"), as it is for an object that is gone.
Ingest(w) ==
    /\ worker[w].pc = "ingest"
    /\ \E pc \in IF worker[w].version \in objects
                 THEN {"finish", "fail", "release"} ELSE {"release"} :
          Become(w, [worker[w] EXCEPT !.pc = pc, !.seen = dataset.version])
    /\ UNCHANGED <<dataset, row, documents, objects, attachment, upload, messages,
                   pass, faults>>

PointableAnyNumber(u, seen, ready) == Claimable(seen) /\ u \in ready

\* set_current_version, where ready is the set of ready versions.
Pointable(u, seen, ready) ==
    /\ Claimable(seen)
    /\ u \in ready
    /\ \/ dataset.current = NoUpload
       \/ row[dataset.current].number <= row[u].number

Point(u) == [dataset EXCEPT !.current = u, !.version = @ + 1]

Ready == {u \in Uploads : row[u].status = "ready"}

\* mark_version_ready is conditional on the claim.
Held(w) == /\ row[worker[w].version].status = "processing"
           /\ row[worker[w].version].version = worker[w].claim

\* The document is not rolled back when the claim was lost.
FinishUnrolled(w) ==
    LET u == worker[w].version
    IN /\ worker[w].pc = "finish"
       /\ IF Held(w)
          THEN row' = [row EXCEPT ![u] = MarkReady(@)]
          ELSE UNCHANGED row
       /\ documents' = IF Kind = "tabular" THEN documents ELSE documents \cup {u}
       /\ Become(w, Idle)
       /\ UNCHANGED <<dataset, objects, attachment, upload, messages, pass, faults>>

\* One transaction: the document, mark_version_ready and set_current_version.
\* A document that exists already raises, a lost claim rolls back, a pointer
\* that did not move is tried again.
Finish(w) ==
    LET u == worker[w].version
    IN /\ worker[w].pc = "finish"
       /\ \/ /\ Kind = "document_collection" /\ u \in documents
             /\ Raises(w)
             /\ UNCHANGED <<row, documents, dataset>>
          \/ /\ u \notin documents /\ ~Held(w)
             /\ Become(w, Idle)
             /\ UNCHANGED <<row, documents, dataset, messages>>
          \/ /\ u \notin documents /\ Held(w)
             /\ row' = [row EXCEPT ![u] = MarkReady(@)]
             /\ documents' = IF Kind = "tabular" THEN documents ELSE documents \cup {u}
             /\ IF Pointable(u, worker[w].seen, Ready \cup {u})
                THEN dataset' = Point(u) /\ Become(w, Idle)
                ELSE UNCHANGED dataset /\ Become(w, [worker[w] EXCEPT !.pc = "again"])
             /\ UNCHANGED messages
       /\ UNCHANGED <<objects, attachment, upload, pass, faults>>

\* The session does not expire what it has loaded when it commits: the read may
\* return the dataset as it was before, or as it is.
ReadAgain(w) ==
    /\ worker[w].pc = "again"
    /\ \E v \in {worker[w].seen, dataset.version} :
          Become(w, [worker[w] EXCEPT !.pc = "repoint", !.seen = v])
    /\ UNCHANGED <<dataset, row, documents, objects, attachment, upload, messages,
                   pass, faults>>

Repoint(w) ==
    LET u == worker[w].version
    IN /\ worker[w].pc = "repoint"
       /\ dataset' = IF Pointable(u, worker[w].seen, Ready) THEN Point(u) ELSE dataset
       /\ Become(w, Idle)
       /\ UNCHANGED <<row, documents, objects, attachment, upload, messages, pass, faults>>

\* _terminal_failure, whoever holds the version by now.
Fail(w) ==
    /\ worker[w].pc = "fail"
    /\ row' = [row EXCEPT ![worker[w].version] = MarkFailed(@)]
    /\ Become(w, Idle)
    /\ UNCHANGED <<dataset, documents, objects, attachment, upload, messages, pass, faults>>

\* release_version_for_retry, then RetryableDatasetProcessingError.
Release(w) ==
    LET u == worker[w].version
    IN /\ worker[w].pc = "release"
       /\ row' = IF Held(w) THEN [row EXCEPT ![u] = ReleaseForRetry(@)] ELSE row
       /\ Raises(w)
       /\ UNCHANGED <<dataset, documents, objects, attachment, upload, pass, faults>>

-----------------------------------------------------------------------------
(* DatasetProcessor.reconcile_stale *)

\* One update of all versions.
FailExhausted(p) ==
    /\ pass[p].pc = "idle"
    /\ row' = [u \in Uploads |-> FailIfExhausted(row[u])]
    /\ pass' = [pass EXCEPT ![p].pc = "list"]
    /\ UNCHANGED <<dataset, documents, objects, attachment, upload, messages, worker, faults>>

\* list_stale_processing_ids.
List(p) ==
    /\ pass[p].pc = "list"
    /\ pass' = [pass EXCEPT ![p] = [pc |-> "loop", version |-> NoUpload,
                                    todo |-> {u \in Uploads : Repairable(row[u])}]]
    /\ UNCHANGED <<dataset, row, documents, objects, attachment, upload, messages,
                   worker, faults>>

\* reconcile_stale_version is conditional on the version's being stale still.
Reset(p, u) ==
    /\ pass[p].pc = "loop"
    /\ u \in pass[p].todo
    /\ row' = [row EXCEPT ![u] = Recover(@)]
    /\ pass' = [pass EXCEPT ![p] =
                   IF Repairable(row[u])
                   THEN [pc |-> "enqueue", version |-> u, todo |-> pass[p].todo \ {u}]
                   ELSE [pc |-> "loop", version |-> NoUpload, todo |-> pass[p].todo \ {u}]]
    /\ UNCHANGED <<dataset, documents, objects, attachment, upload, messages, worker, faults>>

\* An error of the broker is counted and skipped.
Reenqueue(p) ==
    /\ pass[p].pc = "enqueue"
    /\ Send(pass[p].version, 0) \/ UNCHANGED messages
    /\ pass' = [pass EXCEPT ![p] = [pc |-> "loop", version |-> NoUpload,
                                    todo |-> pass[p].todo]]
    /\ UNCHANGED <<dataset, row, documents, objects, attachment, upload, worker, faults>>

EndPass(p) ==
    /\ pass[p].pc = "loop"
    /\ pass[p].todo = {}
    /\ pass' = [pass EXCEPT ![p] = Resting]
    /\ UNCHANGED <<dataset, row, documents, objects, attachment, upload, messages,
                   worker, faults>>

-----------------------------------------------------------------------------
(* Time and faults *)

\* The cutoff passes last_enqueued_at, then processing_started_at.
Age(u) ==
    /\ row[u].status \in Unsettled
    /\ \/ row[u].enqueued = "recent" /\ row' = [row EXCEPT ![u].enqueued = "old"]
       \/ /\ row[u].enqueued = "old" /\ row[u].started = "recent"
          /\ row' = [row EXCEPT ![u].started = "old"]
    /\ UNCHANGED <<dataset, documents, objects, attachment, upload, messages, worker,
                   pass, faults>>

\* The API process dies, or the transaction of an upload fails and its object
\* is deleted.
LoseUpload(u) ==
    /\ Fault
    /\ \/ upload[u].pc \notin {"new", "done"} /\ Goto(u, "done")
       \/ upload[u].pc = "register" /\ Goto(u, "discard")
    /\ UNCHANGED <<dataset, row, documents, objects, attachment, messages, worker, pass>>

\* A database call of the worker fails, or reads what the rollback before it
\* has expired.
RaiseError(w) ==
    /\ Fault
    /\ worker[w].pc # "idle"
    /\ Raises(w)
    /\ UNCHANGED <<dataset, row, documents, objects, attachment, upload, pass>>

\* The worker dies; Redis delivers its message again.
LoseWorker(w) ==
    /\ Fault
    /\ worker[w].pc # "idle"
    /\ Send(worker[w].version, worker[w].retries)
    /\ Become(w, Idle)
    /\ UNCHANGED <<dataset, row, documents, objects, attachment, upload, pass>>

LoseMessage(u, n) ==
    /\ Fault
    /\ messages[u][n] > 0
    /\ messages' = [messages EXCEPT ![u][n] = @ - 1]
    /\ UNCHANGED <<dataset, row, documents, objects, attachment, upload, worker, pass>>

LosePass(p) ==
    /\ Fault
    /\ pass[p].pc # "idle"
    /\ pass' = [pass EXCEPT ![p] = Resting]
    /\ UNCHANGED <<dataset, row, documents, objects, attachment, upload, messages, worker>>

-----------------------------------------------------------------------------
(* The specification *)

Create(u) == \/ Store(u) \/ Register(u)
             \/ Enqueue(u) \/ Unqueue(u) \/ Discard(u)

Process(w) == \/ \E u \in Uploads, n \in 0 .. MaxRetries : Deliver(w, u, n)
              \/ Ingest(w) \/ Finish(w) \/ ReadAgain(w)
              \/ Repoint(w) \/ Fail(w) \/ Release(w)

Reconcile(p) == \/ FailExhausted(p) \/ List(p)
                \/ \E u \in Uploads : Reset(p, u)
                \/ Reenqueue(p) \/ EndPass(p)

Faults == \/ \E u \in Uploads : \/ LoseUpload(u)
                                \/ \E n \in 0 .. MaxRetries : LoseMessage(u, n)
          \/ \E w \in Workers : RaiseError(w) \/ LoseWorker(w)
          \/ \E p \in Passes : LosePass(p)

Next == \/ \E u \in Uploads : Create(u) \/ Attach(u) \/ Detach(u) \/ Age(u)
        \/ Archive
        \/ \E w \in Workers : Process(w)
        \/ \E p \in Passes : Reconcile(p)
        \/ Faults

Spec == Init /\ [][Next]_vars

\* Uploads run to their end unless they die, workers take what is there, the recovery
\* is scheduled again and again, and time passes.
Fairness == /\ \A u \in Uploads : WF_vars(Create(u))
            /\ \A w \in Workers : WF_vars(Process(w))
            /\ \A p \in Passes : WF_vars(Reconcile(p))
            /\ \A u \in Uploads : WF_vars(Age(u))

FairSpec == Spec /\ Fairness

-----------------------------------------------------------------------------
(* Properties *)

\* Versions are immutable after terminal processing: no late worker, failed
\* enqueue or recovery pass changes a version that is ready or failed.
SettledIsFinal ==
    [][\A u \in Uploads : row[u].status \in Settled => row'[u] = row[u]]_vars

\* The current version only moves to a ready version, and never to an older
\* one, in whatever order versions become ready.
CurrentMovesForward ==
    [][dataset'.current # dataset.current =>
         /\ dataset'.current \in Uploads
         /\ row'[dataset'.current].status = "ready"
         /\ dataset.current \in Uploads =>
               row[dataset.current].number < row'[dataset'.current].number]_vars

\* What the history of the dataset says of the row of a version.
HistoryEntry(r) ==
    [status |-> IF r.status \in Unsettled THEN "unsettled" ELSE r.status,
     number |-> r.number, content |-> r.content]

History == INSTANCE DatasetHistory WITH
               Versions <- Uploads, NoVersion <- NoUpload,
               history <- [u \in Uploads |-> HistoryEntry(row[u])],
               current <- dataset.current,
               status <- dataset.status

\* Uploads, retries, late workers, failed enqueues and recovery together keep the
\* history of a dataset: numbers and contents are given once, each version is settled
\* once, the current version only moves to a ready version with a greater number,
\* and nothing happens in an archived dataset.
ImplementsHistory == History!Spec

\* Nothing is going on in an archived dataset and no knowledge base uses it,
\* although uploads and attachments read it before they write.
ArchivedIsIdle ==
    dataset.status = "archived" =>
        \A u \in Uploads : /\ row[u].status \notin Unsettled
                           /\ attachment[u] # "attached"

\* The versions of a document collection that have a document are the ready
\* ones: an attempt that lost its claim leaves none behind.
DocumentsAreOfReady == Kind = "document_collection" => documents = Ready

\* What belongs to a dataset follows its versions: nothing is in progress or attached
\* when it is archived, and documents are those of ready versions.
DatasetsAreConsistent == TypeOK /\ ArchivedIsIdle /\ DocumentsAreOfReady

\* A version that a worker ever took up is settled in the end, also when
\* workers, passes and messages are lost.
ClaimedSettles ==
    \A u \in Uploads : row[u].status = "processing" ~> row[u].status \in Settled

-----------------------------------------------------------------------------
(* The inductive invariant of the proofs *)

\* The versions of the dataset have different numbers.
NumbersDistinct ==
    \A u, v \in Registered : row[u].number = row[v].number => u = v

\* The current version is ready.
CurrentIsReady == dataset.current \in Uploads => dataset.current \in Ready

\* An upload registers its version once.
AbsentUntilRegistered ==
    \A u \in Uploads : upload[u].pc \in {"new", "register"} => u \notin Registered

\* An upload that has stored its object has the digest of what it stored.
StoredHasContent ==
    \A u \in Uploads : upload[u].pc = "register" => upload[u].content \in Contents

\* Who works, works on a version.
BusyWithVersion ==
    /\ \A w \in Workers : worker[w].pc # "idle" => worker[w].version \in Uploads
    /\ \A p \in Passes : pass[p].pc = "enqueue" => pass[p].version \in Uploads

IndInv == /\ TypeOK /\ BusyWithVersion
          /\ ArchivedIsIdle /\ DocumentsAreOfReady
          /\ NumbersDistinct /\ CurrentIsReady /\ AbsentUntilRegistered
          /\ StoredHasContent
==============================================================================
