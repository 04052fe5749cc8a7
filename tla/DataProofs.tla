----------------------------- MODULE DataProofs -----------------------------
(***************************************************************************)
(* Proofs about the data that models are trained on and judged by.  First  *)
(* DatasetVersions, for any uploads, digests, workers, recovery passes and *)
(* bounds; then MonitoringReports, for any readings, labels, events and    *)
(* thresholds.                                                             *)
(***************************************************************************)
EXTENDS DatasetVersions, MCMonitoring, SequenceTheorems, FiniteSetTheorems, WellFoundedInduction, TLAPS

-----------------------------------------------------------------------------
(* What the conditional updates of the repository do to a row *)

\* Row s may take the place of row r without making a version ready, without
\* reviving or forgetting one, and without touching one that is settled.
Quiet(r, s) ==
    /\ s \in Row
    /\ s.number = r.number /\ s.content = r.content
    /\ s.status = "ready" <=> r.status = "ready"
    /\ s.status = "absent" <=> r.status = "absent"
    /\ s.status \in Unsettled => r.status \in Unsettled
    /\ r.status \in Settled => s = r

\* The claim of a pending version is quiet.
LEMMA ClaimVersionQuiet ==
    ASSUME NEW r \in Row, r.status = "pending" PROVE Quiet(r, ClaimVersion(r))
<1> DEFINE n == r.version + 1
<1>1. n \in Nat
  BY DEF Row
<1> HIDE DEF n
<1>2. ClaimVersion(r) = [r EXCEPT !.status = "processing", !.version = n, !.started = "recent"]
  BY DEF ClaimVersion, n
<1> QED
  BY <1>1, <1>2 DEF Quiet, Row, Unsettled, Settled

\* So is the release of a version in processing for a retry.
LEMMA ReleaseQuiet ==
    ASSUME NEW r \in Row, r.status = "processing" PROVE Quiet(r, ReleaseForRetry(r))
<1> DEFINE n == r.version + 1
<1>1. n \in Nat
  BY DEF Row
<1> HIDE DEF n
<1>2. ReleaseForRetry(r) = [r EXCEPT !.status = "pending", !.version = n, !.code = "retry",
                                     !.started = "null"]
  BY DEF ReleaseForRetry, n
<1> QED
  BY <1>1, <1>2 DEF Quiet, Row, Unsettled, Settled

\* mark_version_failed.
LEMMA MarkFailedQuiet ==
    ASSUME NEW r \in Row PROVE Quiet(r, MarkFailed(r))
<1> DEFINE n == r.version + 1
<1>1. n \in Nat
  BY DEF Row
<1> HIDE DEF n
<1>2. CASE r.status \in Unsettled
  <2>1. MarkFailed(r) = [r EXCEPT !.status = "failed", !.code = "other", !.version = n]
    BY <1>2 DEF MarkFailed, n
  <2> QED
    BY <1>1, <1>2, <2>1 DEF Quiet, Row, Unsettled, Settled
<1>3. CASE r.status \notin Unsettled
  BY <1>3 DEF MarkFailed, Quiet
<1> QED BY <1>2, <1>3

\* fail_exhausted_stale_versions.
LEMMA FailIfExhaustedQuiet ==
    ASSUME NEW r \in Row PROVE Quiet(r, FailIfExhausted(r))
<1>1. Quiet(r, r)
  BY DEF Quiet
<1> QED
  BY <1>1, MarkFailedQuiet DEF FailIfExhausted

\* reconcile_stale_version spends an enqueue attempt that is left.
LEMMA RecoverQuiet ==
    ASSUME NEW r \in Row PROVE Quiet(r, Recover(r))
<1>1. CASE ~Repairable(r)
  BY <1>1 DEF Recover, Quiet
<1>2. CASE Repairable(r)
  <2> DEFINE n == r.version + 1
             e == r.enqueues + 1
  <2>1. r.status \in Unsettled
    BY <1>2 DEF Repairable, Stale, Unsettled
  <2>2. n \in Nat /\ e \in 0 .. MaxEnqueues
    BY <1>2, BoundsAssumption DEF Repairable, Row
  <2> HIDE DEF n, e
  <2>3. Recover(r) = [r EXCEPT !.status = "pending", !.version = n, !.code = "recovered",
                               !.enqueues = e, !.enqueued = "recent", !.started = "null"]
    BY <1>2 DEF Recover, n, e
  <2> QED
    BY <2>1, <2>2, <2>3 DEF Quiet, Row, Unsettled, Settled
<1> QED BY <1>1, <1>2

\* mark_version_ready.
LEMMA MarkReadyEffect ==
    ASSUME NEW r \in Row
    PROVE  /\ MarkReady(r) \in Row
           /\ MarkReady(r).status = "ready"
           /\ MarkReady(r).number = r.number
           /\ MarkReady(r).content = r.content
<1> DEFINE n == r.version + 1
<1>1. n \in Nat
  BY DEF Row
<1> HIDE DEF n
<1>2. MarkReady(r) = [r EXCEPT !.status = "ready", !.version = n, !.code = "null"]
  BY DEF MarkReady, n
<1> QED
  BY <1>1, <1>2 DEF Row, Settled

-----------------------------------------------------------------------------
(* Quiet steps *)

\* What the properties say of the dataset, its versions and their documents.
Facts == ArchivedIsIdle /\ DocumentsAreOfReady /\ NumbersDistinct /\ CurrentIsReady

RowsQuiet == /\ row' \in [Uploads -> Row]
             /\ \A u \in Uploads : Quiet(row[u], row'[u])

\* A step that changes one row quietly leaves the others as they are.
LEMMA OneRowQuiet ==
    ASSUME TypeOK, NEW u \in Uploads, NEW s, Quiet(row[u], s),
           row' = [row EXCEPT ![u] = s]
    PROVE  RowsQuiet
<1>1. row \in [Uploads -> Row]
  BY DEF TypeOK
<1>2. s \in Row
  BY DEF Quiet
<1>3. \A v \in Uploads : Quiet(row[v], row[v])
  BY <1>1 DEF Quiet
<1> QED
  BY <1>1, <1>2, <1>3 DEF RowsQuiet

\* A step that changes no row is quiet.
LEMMA NoRowQuiet == ASSUME TypeOK, UNCHANGED row PROVE RowsQuiet
  BY DEF TypeOK, RowsQuiet, Quiet

\* A step that changes the rows quietly, and the dataset's status and pointer,
\* the documents and the attachments not at all, keeps the facts.
LEMMA QuietKeepsFacts ==
    ASSUME TypeOK, Facts, RowsQuiet, UNCHANGED <<documents, attachment>>,
           dataset'.status = dataset.status, dataset'.current = dataset.current
    PROVE  Facts'
<1>1. Ready' = Ready /\ Registered' = Registered
  BY DEF RowsQuiet, Quiet, Ready, Registered
<1>2. ArchivedIsIdle'
  BY DEF Facts, ArchivedIsIdle, RowsQuiet, Quiet
<1>3. DocumentsAreOfReady'
  BY <1>1 DEF Facts, DocumentsAreOfReady
<1>4. NumbersDistinct'
  <2>1. \A u \in Registered : u \in Uploads /\ row'[u].number = row[u].number
    BY DEF RowsQuiet, Quiet, Registered
  <2> QED
    BY <1>1, <2>1 DEF Facts, NumbersDistinct
<1>5. CurrentIsReady'
  BY <1>1 DEF Facts, CurrentIsReady
<1> QED
  BY <1>2, <1>3, <1>4, <1>5 DEF Facts

-----------------------------------------------------------------------------
(* The helpers that several actions use *)

\* The parts of the invariant about the workers and about the passes.
WorkersFit == /\ worker \in [Workers -> Worker]
              /\ \A w \in Workers : worker[w].pc # "idle" => worker[w].version \in Uploads

PassesFit == /\ pass \in [Passes -> Pass]
             /\ \A p \in Passes : pass[p].pc = "enqueue" => pass[p].version \in Uploads

\* Sending and taking a message keep the counts natural.
LEMMA SendType ==
    ASSUME TypeOK, NEW u \in Uploads, NEW n \in 0 .. MaxRetries,
           \/ Send(u, n)
           \/ messages[u][n] > 0 /\ messages' = [messages EXCEPT ![u][n] = @ - 1]
    PROVE  messages' \in [Uploads -> [0 .. MaxRetries -> Nat]]
<1>1. messages \in [Uploads -> [0 .. MaxRetries -> Nat]] /\ messages[u][n] \in Nat
  BY DEF TypeOK
<1>2. PICK k \in Nat : messages' = [messages EXCEPT ![u][n] = k]
  BY <1>1 DEF Send
<1> QED
  BY <1>1, <1>2

\* No upload returns to the steps before its registration.
UploadsForward ==
    /\ upload' \in [Uploads -> Upload]
    /\ \A u \in Uploads : upload'[u].pc \in {"new", "register"} =>
                            upload[u].pc \in {"new", "register"}
    /\ StoredHasContent => StoredHasContent'

\* An upload moves on to one of its later steps.
LEMMA GotoType ==
    ASSUME TypeOK, NEW u \in Uploads, NEW pc \in {"enqueue", "unqueue", "discard", "done"},
           Goto(u, pc)
    PROVE  UploadsForward
  BY DEF TypeOK, Goto, Upload, UploadsForward, StoredHasContent

\* A worker that turns to another step keeps working on a version.
LEMMA BecomeFits ==
    ASSUME TypeOK, BusyWithVersion, NEW w \in Workers, NEW state \in Worker,
           state.pc # "idle" => state.version \in Uploads, Become(w, state)
    PROVE  WorkersFit'
  BY DEF TypeOK, BusyWithVersion, Become, WorkersFit

\* An idle worker is one.
LEMMA IdleFits == Idle \in Worker /\ Idle.pc = "idle"
  BY BoundsAssumption DEF Idle, Worker

\* The pointer moves to u and nothing else of the dataset but its version changes.
LEMMA PointEffect ==
    ASSUME dataset \in Dataset, NEW u \in Uploads
    PROVE  /\ Point(u) \in Dataset
           /\ Point(u).status = dataset.status
           /\ Point(u).current = u
<1> DEFINE n == dataset.version + 1
<1>1. n \in Nat
  BY DEF Dataset
<1> HIDE DEF n
<1>2. Point(u) = [dataset EXCEPT !.current = u, !.version = n]
  BY DEF Point, n
<1> QED
  BY <1>1, <1>2 DEF Dataset

\* A delivery that raises leaves the worker idle and sends its message again
\* only within the bound.
LEMMA RaisesFits ==
    ASSUME TypeOK, BusyWithVersion, NEW w \in Workers, worker[w].pc # "idle", Raises(w)
    PROVE  /\ WorkersFit'
           /\ messages' \in [Uploads -> [0 .. MaxRetries -> Nat]]
<1>1. worker[w].version \in Uploads /\ worker[w].retries \in 0 .. MaxRetries
  BY DEF TypeOK, BusyWithVersion, Worker
<1>2. WorkersFit'
  BY BecomeFits, IdleFits DEF Raises
<1>3. CASE worker[w].retries < MaxRetries
  <2>1. worker[w].retries + 1 \in 0 .. MaxRetries
    BY <1>1, <1>3, BoundsAssumption
  <2> QED
    BY <1>1, <1>2, <1>3, <2>1, SendType DEF Raises
<1>4. CASE ~(worker[w].retries < MaxRetries)
  BY <1>2, <1>4 DEF Raises, TypeOK
<1> QED BY <1>3, <1>4

\* So does a recovery pass.
LEMMA PassFits ==
    ASSUME TypeOK, BusyWithVersion, NEW p \in Passes, NEW state \in Pass,
           state.pc = "enqueue" => state.version \in Uploads,
           pass' = [pass EXCEPT ![p] = state]
    PROVE  PassesFit'
  BY DEF TypeOK, BusyWithVersion, PassesFit

-----------------------------------------------------------------------------
(* The inductive invariant *)

\* What a step may do to a settled version, and to the pointer.
Final == \A u \in Uploads : row[u].status \in Settled => row'[u] = row[u]

Forward == dataset'.current # dataset.current =>
             /\ dataset'.current \in Uploads
             /\ row'[dataset'.current].status = "ready"
             /\ dataset.current \in Uploads =>
                   row[dataset.current].number < row'[dataset'.current].number

\* The versions as their history knows them, and a step or a stutter of that history.
Past == [u \in Uploads |-> HistoryEntry(row[u])]

Recorded == [History!Next]_<<Past, dataset.current, dataset.status>>

\* What every step from a state of the invariant is shown to do.
Kept == /\ TypeOK' /\ BusyWithVersion' /\ Facts'
        /\ AbsentUntilRegistered' /\ StoredHasContent'
        /\ Final /\ Forward /\ Recorded

\* The invariant holds initially.
LEMMA Start == Init => IndInv
<1> SUFFICES ASSUME Init PROVE IndInv OBVIOUS
<1>1. TypeOK
  BY BoundsAssumption
  DEF Init, TypeOK, Dataset, Row, Upload, Idle, Worker, Resting, Pass
<1> QED
  BY <1>1, NullAssumption
  DEF Init, IndInv, BusyWithVersion, Idle, Resting, ArchivedIsIdle, Unsettled,
      DocumentsAreOfReady, Ready, NumbersDistinct, Registered, CurrentIsReady,
      AbsentUntilRegistered, StoredHasContent

\* A quiet step gives up the versions that fail in it, if any.
LEMMA QuietIsRecorded ==
    ASSUME TypeOK, RowsQuiet, dataset'.current = dataset.current,
           dataset'.status = dataset.status
    PROVE  Recorded
<1> DEFINE failing == {u \in Uploads : row[u].status \in Unsettled /\ row'[u].status = "failed"}
<1>1. row \in [Uploads -> Row] /\ row' \in [Uploads -> Row]
  BY DEF TypeOK, RowsQuiet
<1>2. \A u \in failing : Past[u].status = "unsettled"
  BY DEF Past, HistoryEntry
<1>3. ASSUME NEW u \in Uploads
      PROVE  HistoryEntry(row'[u]) = IF u \in failing
                                     THEN [Past[u] EXCEPT !.status = "failed"] ELSE Past[u]
  <2> DEFINE r == row[u]
             s == row'[u]
  <2>0. Past[u] = HistoryEntry(r) /\ Quiet(r, s) /\ r \in Row /\ s \in Row
    BY <1>1, <1>3 DEF Past, RowsQuiet
  <2>1. u \in failing <=> r.status \in Unsettled /\ s.status = "failed"
    BY <1>3
  <2> HIDE DEF r, s, failing
  <2>2. CASE u \in failing
    <3>1. HistoryEntry(s) = [status |-> "failed", number |-> r.number, content |-> r.content]
      BY <2>0, <2>1, <2>2 DEF HistoryEntry, Quiet, Unsettled
    <3>2. HistoryEntry(r) = [status |-> "unsettled", number |-> r.number, content |-> r.content]
      BY <2>1, <2>2 DEF HistoryEntry
    <3>3. [HistoryEntry(r) EXCEPT !.status = "failed"]
             = [status |-> "failed", number |-> r.number, content |-> r.content]
      BY <3>2
    <3> QED BY <2>0, <2>2, <3>1, <3>3 DEF s
  <2>3. CASE u \notin failing
    <3>1. (IF s.status \in Unsettled THEN "unsettled" ELSE s.status)
             = (IF r.status \in Unsettled THEN "unsettled" ELSE r.status)
      BY <2>0, <2>1, <2>3 DEF Quiet, Row, Unsettled, Settled
    <3> QED BY <2>0, <2>3, <3>1 DEF HistoryEntry, Quiet, s
  <2> QED BY <2>2, <2>3
<1>4. Past' = [u \in Uploads |-> IF u \in failing
                                 THEN [Past[u] EXCEPT !.status = "failed"] ELSE Past[u]]
  BY <1>3 DEF Past
<1>5. failing \in SUBSET Uploads
  OBVIOUS
<1> HIDE DEF failing
<1>6. History!GiveUp(failing)
  BY <1>2, <1>4 DEF History!GiveUp, History!Unsettled, Past
<1> QED
  BY <1>5, <1>6 DEF Recorded, History!Next

\* A step that changes rows quietly and nothing else that the facts are about,
\* and whose processes fit, keeps the invariant.
LEMMA QuietKeeps ==
    ASSUME IndInv, RowsQuiet, UNCHANGED <<dataset, documents, attachment>>,
           objects' \subseteq Uploads, UploadsForward,
           messages' \in [Uploads -> [0 .. MaxRetries -> Nat]],
           WorkersFit', PassesFit', faults' \in 0 .. MaxFaults
    PROVE  Kept
<1>1. TypeOK /\ Facts
  BY DEF IndInv, Facts
<1>2. Facts'
  BY <1>1, QuietKeepsFacts
<1>3. TypeOK' /\ BusyWithVersion'
  BY <1>1 DEF TypeOK, RowsQuiet, UploadsForward, WorkersFit, PassesFit, BusyWithVersion
<1>4. AbsentUntilRegistered' /\ StoredHasContent'
  BY DEF IndInv, AbsentUntilRegistered, UploadsForward, Registered, RowsQuiet, Quiet
<1>5. Final /\ Forward
  BY DEF Final, Forward, RowsQuiet, Quiet
<1>6. Recorded
  BY <1>1, QuietIsRecorded
<1> QED
  BY <1>2, <1>3, <1>4, <1>5, <1>6 DEF Kept

\* A worker that moves the pointer has the greater number: numbers of different
\* versions differ, and the current version is registered.
LEMMA PointedForward ==
    ASSUME TypeOK, NumbersDistinct, CurrentIsReady, NEW u \in Registered, NEW seen, NEW ready,
           Pointable(u, seen, ready), dataset.current # u, dataset.current \in Uploads
    PROVE  row[dataset.current].number < row[u].number
<1>1. dataset.current \in Registered
  BY DEF CurrentIsReady, Ready, Registered
<1>2. row[dataset.current].number # row[u].number
  BY <1>1 DEF NumbersDistinct
<1>3. row[dataset.current].number \in Nat /\ row[u].number \in Nat
  BY DEF TypeOK, Row, Registered
<1>4. row[dataset.current].number <= row[u].number
  BY NullAssumption DEF Pointable
<1> QED
  BY <1>2, <1>3, <1>4

\* The history has numbers and contents from the rows, and numbers the registered ones.
LEMMA HistoryOfRows ==
    ASSUME TypeOK
    PROVE  /\ \A u \in Uploads : /\ Past[u].number = row[u].number
                                 /\ Past[u].content = row[u].content
                                 /\ Past[u].status = "unsettled" <=> row[u].status \in Unsettled
                                 /\ row[u].status = "ready" => Past[u].status = "ready"
           /\ History!Numbered = Registered
<1>1. ASSUME NEW u \in Uploads
      PROVE  /\ Past[u].number = row[u].number
             /\ Past[u].content = row[u].content
             /\ Past[u].status = "unsettled" <=> row[u].status \in Unsettled
             /\ Past[u].status = "ready" <=> row[u].status = "ready"
             /\ Past[u].status = "absent" <=> row[u].status = "absent"
  <2>1. Past[u] = HistoryEntry(row[u]) /\ row[u] \in Row
    BY DEF Past, TypeOK
  <2> QED
    BY <2>1 DEF HistoryEntry, Row, Unsettled, Settled
<1>2. History!Numbered = {u \in Uploads : Past[u].status # "absent"}
  BY DEF History!Numbered, Past
<1>3. History!Numbered = Registered
  BY <1>1, <1>2 DEF Registered
<1> QED
  BY <1>1, <1>3

\* A worker that moves the pointer moves it as the history allows.
LEMMA PointedMoves ==
    ASSUME TypeOK, Facts, NEW u \in Registered, dataset.current # u, NEW seen, NEW ready,
           Pointable(u, seen, ready), dataset' = Point(u)
    PROVE  History!MoveTo(u)
<1>1. dataset.status = "active" /\ dataset'.current = u
  <2>1. dataset \in Dataset /\ u \in Uploads
    BY DEF TypeOK, Registered
  <2> QED
    BY <2>1, PointEffect DEF Pointable, Claimable
<1>2. dataset.current = NoUpload \/ Past[dataset.current].number < Past[u].number
  <2>1. dataset.current \in Uploads \cup {NoUpload} /\ u \in Uploads
    BY DEF TypeOK, Dataset, Registered
  <2>2. CASE dataset.current \in Uploads
    BY <2>1, <2>2, PointedForward, HistoryOfRows DEF Facts
  <2> QED BY <2>1, <2>2
<1> QED
  BY <1>1, <1>2 DEF History!MoveTo, Past

\* Every step keeps the invariant, leaves settled versions alone, moves the pointer
\* forward if at all, and is a step or a stutter of the history.
LEMMA StepKeeps == IndInv /\ [Next]_vars => Kept
<1> SUFFICES ASSUME IndInv, [Next]_vars PROVE Kept OBVIOUS
<1>0. /\ TypeOK /\ BusyWithVersion /\ Facts /\ WorkersFit /\ PassesFit
      /\ objects \subseteq Uploads /\ upload \in [Uploads -> Upload]
      /\ messages \in [Uploads -> [0 .. MaxRetries -> Nat]]
      /\ row \in [Uploads -> Row] /\ faults \in 0 .. MaxFaults /\ dataset \in Dataset
      /\ AbsentUntilRegistered /\ StoredHasContent
  BY DEF IndInv, Facts, BusyWithVersion, WorkersFit, PassesFit, TypeOK
<1>f. Fault => faults' \in 0 .. MaxFaults
  BY <1>0, BoundsAssumption DEF Fault
<1>u. UNCHANGED upload => UploadsForward
  BY <1>0 DEF UploadsForward, StoredHasContent
<1>w. UNCHANGED worker => WorkersFit'
  BY <1>0 DEF WorkersFit
<1>p. UNCHANGED pass => PassesFit'
  BY <1>0 DEF PassesFit
<1>1. ASSUME NEW u \in Uploads, Store(u) PROVE Kept
  <2>1. UploadsForward /\ objects' \subseteq Uploads
    <3>1. CASE Goto(u, "done") /\ UNCHANGED objects
      BY <1>0, <3>1, GotoType
    <3>2. CASE ~(Goto(u, "done") /\ UNCHANGED objects)
      <4>1. PICK c \in Contents :
               upload' = [upload EXCEPT ![u] = [pc |-> "register",
                                                seen |-> dataset.version, content |-> c]]
        BY <1>1, <3>2 DEF Store
      <4>2. [pc |-> "register", seen |-> dataset.version, content |-> c] \in Upload
        BY <1>0 DEF Dataset, Upload
      <4> QED
        BY <1>0, <1>1, <4>1, <4>2 DEF Store, UploadsForward, StoredHasContent
    <3> QED BY <3>1, <3>2
  <2> QED
    BY <1>0, <1>1, <1>w, <1>p, <2>1, NoRowQuiet, QuietKeeps DEF Store
<1>2. ASSUME NEW u \in Uploads, Register(u) PROVE Kept
  <2>0. UNCHANGED <<documents, objects, attachment, messages, worker, pass, faults>>
    BY <1>2 DEF Register
  <2>1. CASE Goto(u, "discard") /\ UNCHANGED <<dataset, row>>
    BY <1>0, <1>w, <1>p, <2>0, <2>1, GotoType, NoRowQuiet, QuietKeeps
  <2>2. CASE ~(Goto(u, "discard") /\ UNCHANGED <<dataset, row>>)
    <3>1. /\ upload[u].pc = "register"
          /\ Claimable(upload[u].seen)
          /\ dataset' = [dataset EXCEPT !.version = @ + 1]
          /\ Goto(u, "enqueue")
      BY <1>2, <2>2 DEF Register
    <3>2. PICK n \in 1 .. Cardinality(Uploads) :
             /\ IsNextNumber(n)
             /\ row' = [row EXCEPT ![u] =
                           [status |-> "pending", number |-> n, version |-> 0,
                            content |-> upload[u].content, code |-> "null",
                            enqueues |-> 1, enqueued |-> "recent",
                            started |-> "null"]]
      BY <1>2, <2>2 DEF Register
    <3> DEFINE r == [status |-> "pending", number |-> n, version |-> 0,
                     content |-> upload[u].content, code |-> "null",
                     enqueues |-> 1, enqueued |-> "recent", started |-> "null"]
    <3>3. n \in Nat
      BY <3>2
    <3>4. r \in Row /\ r.number = n /\ r.status = "pending"
      BY <1>0, <3>3, BoundsAssumption DEF Row, Upload, Unsettled
    <3> HIDE DEF r
    <3>5. /\ row' \in [Uploads -> Row]
          /\ row'[u] = r
          /\ \A v \in Uploads \ {u} : row'[v] = row[v]
      BY <1>0, <3>2, <3>4 DEF r
    <3>6. u \notin Registered /\ u \notin Ready
      BY <1>0, <3>1 DEF AbsentUntilRegistered, Registered, Ready
    <3>7. /\ dataset' \in Dataset
          /\ dataset'.status = "active"
          /\ dataset'.current = dataset.current
      BY <1>0, <3>1 DEF Dataset, Claimable
    <3>8. ArchivedIsIdle'
      BY <3>7 DEF ArchivedIsIdle
    <3>9. Ready' = Ready
      BY <3>4, <3>5, <3>6 DEF Ready
    <3>10. DocumentsAreOfReady' /\ CurrentIsReady'
      BY <1>0, <2>0, <3>7, <3>9 DEF Facts, DocumentsAreOfReady, CurrentIsReady
    <3>11. NumbersDistinct'
      <4>1. \A v \in Registered : row[v].number < n /\ row[v].number \in Nat
        BY <1>0, <3>2 DEF IsNextNumber, Registered, Row
      <4>2. Registered' = Registered \cup {u}
        BY <3>4, <3>5 DEF Registered
      <4>3. \A v \in Registered : v # u /\ row'[v].number = row[v].number
        BY <3>5, <3>6 DEF Registered
      <4> QED
        BY <1>0, <3>3, <3>4, <3>5, <4>1, <4>2, <4>3 DEF Facts, NumbersDistinct
    <3>12. UploadsForward
      BY <1>0, <3>1, GotoType
    <3>13. AbsentUntilRegistered'
      <4>1. upload'[u].pc = "enqueue"
        BY <1>0, <3>1 DEF Goto, Upload
      <4> QED
        BY <1>0, <3>5, <3>12, <4>1 DEF AbsentUntilRegistered, UploadsForward, Registered
    <3>14. Final /\ Forward
      BY <3>5, <3>6, <3>7 DEF Final, Forward, Registered, Settled
    <3>15. Recorded
      <4> DEFINE c == upload[u].content
      <4>1. c \in Contents
        BY <1>0, <3>1 DEF StoredHasContent
      <4>2. \A v \in Registered : row[v].content # c
        BY <1>2, <2>2 DEF Register
      <4>3. r.content = c
        BY DEF r
      <4> HIDE DEF c
      <4>4. HistoryEntry(r) = History!Entry("unsettled", n, c)
        BY <3>4, <4>3 DEF HistoryEntry, History!Entry, Unsettled
      <4>5. Past' = [Past EXCEPT ![u] = History!Entry("unsettled", n, c)]
        BY <3>5, <4>4 DEF Past
      <4>6. History!Numbered = Registered /\ Registered \subseteq Uploads
        BY <1>0, HistoryOfRows DEF Registered
      <4>7. \A v \in Registered : Past[v].number = row[v].number /\ Past[v].content = row[v].content
        BY <1>0, <4>6, HistoryOfRows
      <4>8. n \in History!Successors /\ \A v \in History!Numbered : Past[v].number < n
        <5>1. /\ \A v \in Registered : row[v].number < n /\ row[v].number \in Nat
              /\ n = 1 \/ \E v \in Registered : row[v].number = n - 1
          BY <1>0, <3>2, <4>6 DEF IsNextNumber, Row
        <5>2. n = 1 \/ \E v \in Registered : n = row[v].number + 1
          BY <3>3, <5>1
        <5> QED
          BY <4>6, <4>7, <5>1, <5>2 DEF History!Successors, Past
      <4>9. \A v \in History!Numbered : Past[v].content # c
        BY <4>2, <4>6, <4>7
      <4>10. History!Register(u)
        BY <3>1, <3>6, <3>7, <4>1, <4>5, <4>6, <4>8, <4>9
        DEF History!Register, Past, Claimable
      <4> QED
        BY <4>10 DEF Recorded, History!Next
    <3>16. StoredHasContent'
      BY <1>0, <3>12 DEF UploadsForward
    <3> QED
      BY <1>0, <2>0, <3>5, <3>7, <3>8, <3>10, <3>11, <3>12, <3>13, <3>14, <3>15, <3>16
      DEF Kept, Facts, TypeOK, BusyWithVersion, UploadsForward
  <2> QED BY <2>1, <2>2
<1>3. ASSUME NEW u \in Uploads, Enqueue(u) PROVE Kept
  <2>1. UploadsForward
    BY <1>0, <1>3, GotoType DEF Enqueue
  <2>2. messages' \in [Uploads -> [0 .. MaxRetries -> Nat]]
    <3>1. 0 \in 0 .. MaxRetries
      BY BoundsAssumption
    <3> QED
      BY <1>0, <1>3, <3>1, SendType DEF Enqueue
  <2> QED
    BY <1>0, <1>3, <1>w, <1>p, <2>1, <2>2, NoRowQuiet, QuietKeeps DEF Enqueue
<1>4. ASSUME NEW u \in Uploads, Unqueue(u) PROVE Kept
  <2>1. RowsQuiet
    BY <1>0, <1>4, MarkFailedQuiet, OneRowQuiet DEF Unqueue
  <2> QED
    BY <1>0, <1>4, <1>w, <1>p, <2>1, GotoType, QuietKeeps DEF Unqueue
<1>5. ASSUME NEW u \in Uploads, Discard(u) \/ LoseUpload(u) PROVE Kept
  <2>1. UploadsForward
    BY <1>0, <1>5, GotoType DEF Discard, LoseUpload
  <2>2. /\ UNCHANGED <<dataset, row, documents, attachment, messages, worker, pass>>
        /\ objects' \subseteq Uploads
        /\ faults' \in 0 .. MaxFaults
    BY <1>0, <1>5, <1>f DEF Discard, LoseUpload
  <2> QED
    BY <1>0, <1>w, <1>p, <2>1, <2>2, NoRowQuiet, QuietKeeps
<1>6. CASE Archive
  <2>1. /\ dataset' \in Dataset /\ dataset'.current = dataset.current
        /\ UNCHANGED <<row, documents, objects, attachment, upload, messages, worker,
                       pass, faults>>
    <3> DEFINE n == dataset.version + 1
    <3>1. n \in Nat
      BY <1>0 DEF Dataset
    <3> HIDE DEF n
    <3>2. dataset' = [dataset EXCEPT !.status = "archived", !.version = n]
      BY <1>6 DEF Archive, n
    <3> QED
      BY <1>0, <1>6, <3>1, <3>2 DEF Archive, Dataset
  <2>2. ArchivedIsIdle'
    BY <1>6, <2>1 DEF Archive, ArchivedIsIdle
  <2>3. Ready' = Ready /\ Registered' = Registered
    BY <2>1 DEF Ready, Registered
  <2>4. DocumentsAreOfReady' /\ NumbersDistinct' /\ CurrentIsReady' /\ AbsentUntilRegistered'
    BY <1>0, <2>1, <2>3
    DEF Facts, DocumentsAreOfReady, NumbersDistinct, CurrentIsReady, AbsentUntilRegistered
  <2>5. Final /\ Forward
    BY <2>1 DEF Final, Forward
  <2>6. StoredHasContent'
    BY <1>0, <2>1 DEF StoredHasContent
  <2>7. Recorded
    <3>1. dataset.status = "active" /\ dataset'.status = "archived" /\ Past' = Past
      BY <1>0, <1>6, <2>1 DEF Archive, Dataset, Past
    <3>2. \A u \in Uploads : Past[u].status # "unsettled"
      BY <1>0, <1>6, HistoryOfRows DEF Archive
    <3>3. History!Archive
      BY <2>1, <3>1, <3>2 DEF History!Archive, History!Unsettled, Past
    <3> QED
      BY <3>3 DEF Recorded, History!Next
  <2> QED
    BY <1>0, <2>1, <2>2, <2>4, <2>5, <2>6, <2>7 DEF Kept, Facts, TypeOK, BusyWithVersion
<1>7. ASSUME NEW u \in Uploads, Attach(u) \/ Detach(u) PROVE Kept
  <2>1. UNCHANGED <<row, documents, objects, upload, messages, worker, pass, faults>>
    BY <1>7 DEF Attach, Detach
  <2>2. attachment' \in [Uploads -> {"never", "attached", "detached"}]
    BY <1>0, <1>7 DEF TypeOK, Attach, Detach
  <2>3. /\ dataset' \in Dataset /\ dataset'.current = dataset.current
        /\ dataset'.status = dataset.status
    BY <1>0, <1>7 DEF Attach, Detach, Dataset
  <2>4. ArchivedIsIdle'
    <3>1. CASE Attach(u)
      BY <2>3, <3>1 DEF Attach, Claimable, ArchivedIsIdle
    <3>2. CASE Detach(u)
      BY <1>0, <2>1, <2>3, <3>2 DEF TypeOK, Detach, Facts, ArchivedIsIdle
    <3> QED BY <1>7, <3>1, <3>2
  <2>5. Ready' = Ready /\ Registered' = Registered
    BY <2>1 DEF Ready, Registered
  <2>6. DocumentsAreOfReady' /\ NumbersDistinct' /\ CurrentIsReady' /\ AbsentUntilRegistered'
    BY <1>0, <2>1, <2>3, <2>5
    DEF Facts, DocumentsAreOfReady, NumbersDistinct, CurrentIsReady, AbsentUntilRegistered
  <2>7. Final /\ Forward
    BY <2>1, <2>3 DEF Final, Forward
  <2>8. StoredHasContent'
    BY <1>0, <2>1 DEF StoredHasContent
  <2>9. Recorded
    BY <1>0, <2>1, <2>3, NoRowQuiet, QuietIsRecorded
  <2> QED
    BY <1>0, <2>1, <2>2, <2>3, <2>4, <2>6, <2>7, <2>8, <2>9 DEF Kept, Facts, TypeOK, BusyWithVersion
<1>8. ASSUME NEW w \in Workers, NEW u \in Uploads, NEW n \in 0 .. MaxRetries, Deliver(w, u, n)
      PROVE  Kept
  <2>0. UNCHANGED <<dataset, documents, objects, attachment, upload, pass, faults>>
    BY <1>8 DEF Deliver
  <2>1. messages' \in [Uploads -> [0 .. MaxRetries -> Nat]]
    BY <1>0, <1>8, SendType DEF Deliver
  <2>2. CASE row[u].status = "pending"
    <3> DEFINE state == [pc |-> "ingest", version |-> u, claim |-> row[u].version + 1,
                         seen |-> 0, retries |-> n]
    <3>1. row[u].version + 1 \in Nat
      BY <1>0 DEF Row
    <3>2. state \in Worker /\ state.version \in Uploads
      BY <3>1 DEF Worker
    <3> HIDE DEF state
    <3>3. WorkersFit'
      <4>1. Become(w, state)
        BY <1>8, <2>2 DEF Deliver, state
      <4> QED
        BY <1>0, <3>2, <4>1, BecomeFits
    <3>4. RowsQuiet
      BY <1>0, <1>8, <2>2, ClaimVersionQuiet, OneRowQuiet DEF Deliver
    <3> QED
      BY <1>0, <1>u, <1>p, <2>0, <2>1, <3>3, <3>4, QuietKeeps
  <2>3. CASE row[u].status # "pending"
    <3>1. UNCHANGED <<row, worker>>
      BY <1>8, <2>3 DEF Deliver
    <3> QED
      BY <1>0, <1>u, <1>w, <1>p, <2>0, <2>1, <3>1, NoRowQuiet, QuietKeeps
  <2> QED BY <2>2, <2>3
<1>b. ASSUME NEW w \in Workers, worker[w].pc # "idle"
      PROVE  worker[w].version \in Uploads /\ row[worker[w].version] \in Row
  BY <1>0, <1>b DEF BusyWithVersion
<1>9. ASSUME NEW w \in Workers, Ingest(w) \/ ReadAgain(w) PROVE Kept
  <2>1. /\ UNCHANGED <<dataset, row, documents, objects, attachment, upload, messages,
                       pass, faults>>
        /\ worker[w].pc # "idle"
    BY <1>9 DEF Ingest, ReadAgain
  <2>2. PICK pc \in {"finish", "fail", "release", "repoint"}, v \in Nat :
           Become(w, [worker[w] EXCEPT !.pc = pc, !.seen = v])
    BY <1>0, <1>9 DEF Ingest, ReadAgain, WorkersFit, Worker, Dataset
  <2>3. worker[w] \in Worker /\ worker[w].version \in Uploads
    BY <1>0, <1>b, <2>1 DEF WorkersFit
  <2>4. [worker[w] EXCEPT !.pc = pc, !.seen = v] \in Worker
    BY <2>3 DEF Worker
  <2>5. [worker[w] EXCEPT !.pc = pc, !.seen = v].version \in Uploads
    BY <2>3 DEF Worker
  <2>6. WorkersFit'
    BY <1>0, <2>2, <2>4, <2>5, BecomeFits
  <2> QED
    BY <1>0, <1>u, <1>p, <2>1, <2>6, NoRowQuiet, QuietKeeps
<1>11. ASSUME NEW w \in Workers, Fail(w) PROVE Kept
  <2>1. worker[w].version \in Uploads /\ row[worker[w].version] \in Row
    BY <1>b, <1>11 DEF Fail
  <2>2. RowsQuiet
    BY <1>0, <1>11, <2>1, MarkFailedQuiet, OneRowQuiet DEF Fail
  <2>3. WorkersFit'
    BY <1>0, <1>11, IdleFits, BecomeFits DEF Fail
  <2> QED
    BY <1>0, <1>u, <1>p, <1>11, <2>2, <2>3, QuietKeeps DEF Fail
<1>12. ASSUME NEW w \in Workers, Release(w) PROVE Kept
  <2>1. worker[w].pc # "idle" /\ Raises(w)
    BY <1>12 DEF Release
  <2>2. worker[w].version \in Uploads /\ row[worker[w].version] \in Row
    BY <1>b, <2>1
  <2>3. RowsQuiet
    <3>1. CASE Held(w)
      BY <1>0, <1>12, <2>2, <3>1, ReleaseQuiet, OneRowQuiet DEF Release, Held
    <3>2. CASE ~Held(w)
      BY <1>0, <1>12, <3>2, NoRowQuiet DEF Release
    <3> QED BY <3>1, <3>2
  <2> QED
    BY <1>0, <1>u, <1>p, <1>12, <2>1, <2>3, RaisesFits, QuietKeeps DEF Release
<1>13. ASSUME NEW w \in Workers, RaiseError(w) \/ LoseWorker(w) PROVE Kept
  <2>1. /\ UNCHANGED <<dataset, row, documents, objects, attachment, upload, pass>>
        /\ worker[w].pc # "idle"
        /\ faults' \in 0 .. MaxFaults
    BY <1>13, <1>f DEF RaiseError, LoseWorker
  <2>2. WorkersFit' /\ messages' \in [Uploads -> [0 .. MaxRetries -> Nat]]
    <3>1. CASE RaiseError(w)
      BY <1>0, <2>1, <3>1, RaisesFits DEF RaiseError
    <3>2. CASE LoseWorker(w)
      <4>1. worker[w].version \in Uploads /\ worker[w].retries \in 0 .. MaxRetries
        BY <1>0, <1>b, <2>1 DEF WorkersFit, Worker
      <4> QED
        BY <1>0, <3>2, <4>1, SendType, IdleFits, BecomeFits DEF LoseWorker
    <3> QED BY <1>13, <3>1, <3>2
  <2> QED
    BY <1>0, <1>u, <1>p, <2>1, <2>2, NoRowQuiet, QuietKeeps
<1>14. ASSUME NEW w \in Workers, Finish(w) PROVE Kept
  <2> DEFINE u == worker[w].version
  <2>0. /\ UNCHANGED <<objects, attachment, upload, pass, faults>>
        /\ worker[w].pc # "idle"
    BY <1>14 DEF Finish
  <2>1. u \in Uploads /\ row[u] \in Row
    BY <1>b, <2>0
  <2>2. CASE Raises(w) /\ UNCHANGED <<row, documents, dataset>>
    BY <1>0, <1>u, <1>p, <2>0, <2>2, RaisesFits, NoRowQuiet, QuietKeeps
  <2>3. CASE Become(w, Idle) /\ UNCHANGED <<row, documents, dataset, messages>>
    <3>1. WorkersFit'
      BY <1>0, <2>3, IdleFits, BecomeFits
    <3> QED
      BY <1>0, <1>u, <1>p, <2>0, <2>3, <3>1, NoRowQuiet, QuietKeeps
  <2>4. ASSUME Held(w),
               row' = [row EXCEPT ![u] = MarkReady(@)],
               documents' = IF Kind = "tabular" THEN documents ELSE documents \cup {u},
               IF Pointable(u, worker[w].seen, Ready \cup {u})
               THEN dataset' = Point(u) /\ Become(w, Idle)
               ELSE UNCHANGED dataset /\ Become(w, [worker[w] EXCEPT !.pc = "again"]),
               UNCHANGED messages
        PROVE  Kept
    <3>1. row[u].status = "processing"
      BY <2>4 DEF Held
    <3>2. /\ row' \in [Uploads -> Row]
          /\ row'[u].status = "ready" /\ row'[u].number = row[u].number
          /\ \A v \in Uploads \ {u} : row'[v] = row[v]
      BY <1>0, <2>1, <2>4, MarkReadyEffect
    <3>3. Ready' = Ready \cup {u} /\ Registered' = Registered
      BY <2>1, <3>1, <3>2 DEF Ready, Registered
    <3>4. /\ dataset' \in Dataset /\ dataset'.status = dataset.status
          /\ dataset'.current \in {dataset.current, u}
      BY <1>0, <2>1, <2>4, PointEffect
    <3>5. ArchivedIsIdle'
      BY <1>0, <2>0, <2>1, <3>2, <3>4 DEF Facts, ArchivedIsIdle, Unsettled
    <3>6. DocumentsAreOfReady' /\ documents' \subseteq Uploads
      BY <1>0, <2>1, <2>4, <3>3 DEF Facts, DocumentsAreOfReady, TypeOK
    <3>7. NumbersDistinct'
      <4>1. \A v \in Registered : row'[v].number = row[v].number
        BY <2>1, <3>2 DEF Registered
      <4> QED
        BY <1>0, <3>3, <4>1 DEF Facts, NumbersDistinct
    <3>8. CurrentIsReady'
      BY <1>0, <2>1, <3>3, <3>4 DEF Facts, CurrentIsReady
    <3>9. AbsentUntilRegistered'
      BY <1>0, <2>0, <3>3 DEF AbsentUntilRegistered
    <3>10. WorkersFit'
      <4>1. CASE Become(w, Idle)
        BY <1>0, <4>1, IdleFits, BecomeFits
      <4>2. CASE Become(w, [worker[w] EXCEPT !.pc = "again"])
        <5>1. worker[w] \in Worker
          BY <1>0 DEF WorkersFit
        <5>2. [worker[w] EXCEPT !.pc = "again"] \in Worker
          BY <5>1 DEF Worker
        <5>3. [worker[w] EXCEPT !.pc = "again"].version \in Uploads
          BY <2>1, <5>1 DEF Worker
        <5> QED
          BY <1>0, <4>2, <5>2, <5>3, BecomeFits
      <4> QED BY <2>4, <4>1, <4>2
    <3>11. TypeOK' /\ BusyWithVersion'
      BY <1>0, <2>0, <2>4, <3>2, <3>4, <3>6, <3>10 DEF TypeOK, BusyWithVersion, WorkersFit
    <3>12. Final
      BY <3>1, <3>2 DEF Final, Settled
    <3>13. Forward
      <4>1. CASE UNCHANGED dataset
        BY <4>1 DEF Forward
      <4>2. CASE dataset' = Point(u) /\ Pointable(u, worker[w].seen, Ready \cup {u})
        <5>1. dataset'.current = u /\ u \in Registered
          BY <1>0, <2>1, <3>1, <4>2, PointEffect DEF Registered
        <5>2. dataset.current # u /\ dataset.current \in Uploads
                => row[dataset.current].number < row[u].number
          BY <1>0, <4>2, <5>1, PointedForward DEF Facts
        <5> QED
          BY <2>1, <3>2, <5>1, <5>2 DEF Forward
      <4> QED BY <2>4, <4>1, <4>2
    <3>14. StoredHasContent'
      BY <1>0, <2>0 DEF StoredHasContent
    <3>15. Recorded
      <4>1. row'[u].content = row[u].content
        BY <1>0, <2>1, <2>4, MarkReadyEffect
      <4>2. Past[u].status = "unsettled"
        BY <1>0, <2>1, <3>1, HistoryOfRows DEF Unsettled
      <4>3. HistoryEntry(row'[u]) = [HistoryEntry(row[u]) EXCEPT !.status = "ready"]
        BY <3>2, <4>1 DEF HistoryEntry, Unsettled
      <4>4. Past' = [Past EXCEPT ![u].status = "ready"]
        BY <2>1, <3>2, <4>3 DEF Past
      <4>5. History!MoveTo(u) \/ dataset'.current = dataset.current
        <5>1. CASE UNCHANGED dataset
          BY <5>1
        <5>2. CASE dataset' = Point(u) /\ Pointable(u, worker[w].seen, Ready \cup {u})
          <6>1. u \in Registered /\ dataset.current # u
            BY <1>0, <2>1, <3>1 DEF Registered, Facts, CurrentIsReady, Ready
          <6> QED
            BY <1>0, <2>1, <5>2, <6>1, PointedMoves
        <5> QED BY <2>4, <5>1, <5>2
      <4>6. History!BecomeReady(u)
        BY <3>4, <4>2, <4>4, <4>5 DEF History!BecomeReady, History!Unsettled, Past
      <4> QED
        BY <2>1, <4>6 DEF Recorded, History!Next
    <3> QED
      BY <3>5, <3>6, <3>7, <3>8, <3>9, <3>11, <3>12, <3>13, <3>14, <3>15 DEF Kept, Facts
  <2> QED
    BY <1>14, <2>2, <2>3, <2>4 DEF Finish
<1>15. ASSUME NEW w \in Workers, Repoint(w) PROVE Kept
  <2> DEFINE u == worker[w].version
  <2>0. /\ UNCHANGED <<row, documents, objects, attachment, upload, messages, pass, faults>>
        /\ worker[w].pc # "idle"
    BY <1>15 DEF Repoint
  <2>1. WorkersFit'
    BY <1>0, <1>15, IdleFits, BecomeFits DEF Repoint
  <2>2. CASE UNCHANGED dataset
    BY <1>0, <1>u, <1>p, <2>0, <2>1, <2>2, NoRowQuiet, QuietKeeps
  <2>3. CASE dataset' = Point(u) /\ Pointable(u, worker[w].seen, Ready)
    <3>0. u \in Ready /\ u \in Registered
      BY <2>3 DEF Pointable, Ready, Registered
    <3>1. /\ dataset' \in Dataset /\ dataset'.status = dataset.status
          /\ dataset'.current = u
      BY <1>0, <1>b, <2>0, <2>3, PointEffect
    <3>2. Ready' = Ready /\ Registered' = Registered
      BY <2>0 DEF Ready, Registered
    <3>3. /\ ArchivedIsIdle' /\ DocumentsAreOfReady' /\ NumbersDistinct' /\ CurrentIsReady'
          /\ AbsentUntilRegistered'
      BY <1>0, <2>0, <3>0, <3>1, <3>2
      DEF Facts, ArchivedIsIdle, DocumentsAreOfReady, NumbersDistinct, CurrentIsReady,
          AbsentUntilRegistered
    <3>4. Final
      BY <2>0 DEF Final
    <3>5. Forward
      <4>1. dataset.current # u /\ dataset.current \in Uploads
              => row[dataset.current].number < row[u].number
        BY <1>0, <2>3, <3>0, PointedForward DEF Facts
      <4> QED
        BY <2>0, <3>0, <3>1, <4>1 DEF Forward, Ready
    <3>6. StoredHasContent'
      BY <1>0, <2>0 DEF StoredHasContent
    <3>7. Recorded
      <4>1. Past' = Past
        BY <2>0 DEF Past
      <4>2. CASE dataset.current = u
        BY <3>1, <4>1, <4>2 DEF Recorded
      <4>3. CASE dataset.current # u
        <5>1. History!MoveTo(u)
          BY <1>0, <2>3, <3>0, <4>3, PointedMoves DEF Registered
        <5>2. Past[u].status = "ready"
          BY <1>0, <3>0, HistoryOfRows DEF Ready
        <5>3. History!Advance(u)
          BY <3>1, <4>1, <5>1, <5>2 DEF History!Advance, Past
        <5> QED
          BY <3>0, <5>3 DEF Recorded, History!Next, Ready
      <4> QED BY <4>2, <4>3
    <3> QED
      BY <1>0, <2>0, <2>1, <3>1, <3>3, <3>4, <3>5, <3>6, <3>7
      DEF Kept, Facts, TypeOK, BusyWithVersion, WorkersFit
  <2> QED
    BY <1>15, <2>2, <2>3 DEF Repoint
<1>16. ASSUME NEW p \in Passes, FailExhausted(p) PROVE Kept
  <2>1. RowsQuiet
    BY <1>0, <1>16, FailIfExhaustedQuiet DEF FailExhausted, RowsQuiet, Quiet
  <2>2. PassesFit'
    BY <1>0, <1>16 DEF FailExhausted, PassesFit, Pass
  <2> QED
    BY <1>0, <1>u, <1>w, <1>16, <2>1, <2>2, QuietKeeps DEF FailExhausted
<1>17. ASSUME NEW p \in Passes, List(p) \/ EndPass(p) \/ LosePass(p) PROVE Kept
  <2>1. /\ UNCHANGED <<dataset, row, documents, objects, attachment, upload, messages, worker>>
        /\ faults' \in 0 .. MaxFaults
    BY <1>0, <1>17, <1>f DEF List, EndPass, LosePass
  <2>2. PassesFit'
    <3>1. Resting \in Pass /\ Resting.pc = "idle"
      BY DEF Resting, Pass
    <3>2. [pc |-> "loop", version |-> NoUpload,
           todo |-> {u \in Uploads : Repairable(row[u])}] \in Pass
      BY DEF Pass
    <3> QED
      BY <1>0, <1>17, <3>1, <3>2, PassFits DEF List, EndPass, LosePass
  <2> QED
    BY <1>0, <1>u, <1>w, <2>1, <2>2, NoRowQuiet, QuietKeeps
<1>18. ASSUME NEW p \in Passes, NEW u \in Uploads, Reset(p, u) PROVE Kept
  <2>1. RowsQuiet
    BY <1>0, <1>18, RecoverQuiet, OneRowQuiet DEF Reset
  <2>2. PICK pc \in {"loop", "enqueue"}, v \in Uploads \cup {NoUpload} :
          /\ pass' = [pass EXCEPT ![p] = [pc |-> pc, version |-> v, todo |-> pass[p].todo \ {u}]]
          /\ pc = "enqueue" => v \in Uploads
    BY <1>18 DEF Reset
  <2>3. pass[p].todo \subseteq Uploads
    BY <1>0 DEF PassesFit, Pass
  <2>4. [pc |-> pc, version |-> v, todo |-> pass[p].todo \ {u}] \in Pass
    BY <2>3 DEF Pass
  <2>5. PassesFit'
    BY <1>0, <2>2, <2>4, PassFits
  <2> QED
    BY <1>0, <1>u, <1>w, <1>18, <2>1, <2>5, QuietKeeps DEF Reset
<1>19. ASSUME NEW p \in Passes, Reenqueue(p) PROVE Kept
  <2>1. pass[p].version \in Uploads /\ 0 \in 0 .. MaxRetries
    BY <1>0, <1>19, BoundsAssumption DEF Reenqueue, PassesFit
  <2>2. messages' \in [Uploads -> [0 .. MaxRetries -> Nat]]
    BY <1>0, <1>19, <2>1, SendType DEF Reenqueue
  <2>3. [pc |-> "loop", version |-> NoUpload, todo |-> pass[p].todo] \in Pass
    BY <1>0 DEF PassesFit, Pass
  <2>4. PassesFit'
    BY <1>0, <1>19, <2>3, PassFits DEF Reenqueue
  <2> QED
    BY <1>0, <1>u, <1>w, <1>19, <2>2, <2>4, NoRowQuiet, QuietKeeps DEF Reenqueue
<1>20. ASSUME NEW u \in Uploads, Age(u) PROVE Kept
  <2>1. RowsQuiet
    <3>1. row[u] \in Row /\ row[u].status \in Unsettled
      BY <1>0, <1>20 DEF Age
    <3>2. /\ Quiet(row[u], [row[u] EXCEPT !.enqueued = "old"])
          /\ Quiet(row[u], [row[u] EXCEPT !.started = "old"])
      BY <3>1 DEF Quiet, Row, Unsettled, Settled
    <3> QED
      BY <1>0, <1>20, <3>2, OneRowQuiet DEF Age
  <2> QED
    BY <1>0, <1>u, <1>w, <1>p, <1>20, <2>1, QuietKeeps DEF Age
<1>21. ASSUME NEW u \in Uploads, NEW n \in 0 .. MaxRetries, LoseMessage(u, n) PROVE Kept
  <2>1. messages' \in [Uploads -> [0 .. MaxRetries -> Nat]]
    BY <1>0, <1>21, SendType DEF LoseMessage
  <2> QED
    BY <1>0, <1>u, <1>w, <1>p, <1>f, <1>21, <2>1, NoRowQuiet, QuietKeeps DEF LoseMessage
<1>22. CASE UNCHANGED vars
  BY <1>0, <1>u, <1>w, <1>p, <1>22, NoRowQuiet, QuietKeeps DEF vars
<1>23. ASSUME NEW u \in Uploads, Create(u) \/ Attach(u) \/ Detach(u) \/ Age(u) PROVE Kept
  BY <1>1, <1>2, <1>3, <1>4, <1>5, <1>7, <1>20, <1>23 DEF Create
<1>24. ASSUME NEW w \in Workers, Process(w) PROVE Kept
  BY <1>8, <1>9, <1>11, <1>12, <1>14, <1>15, <1>24 DEF Process
<1>25. ASSUME NEW p \in Passes, Reconcile(p) PROVE Kept
  BY <1>16, <1>17, <1>18, <1>19, <1>25 DEF Reconcile
<1>26. CASE Faults
  BY <1>5, <1>13, <1>17, <1>21, <1>26 DEF Faults
<1> QED
  BY <1>6, <1>22, <1>23, <1>24, <1>25, <1>26 DEF Next

-----------------------------------------------------------------------------
(* The theorems *)

\* The inductive invariant holds in every reachable state.
THEOREM Invariance == Spec => []IndInv
<1>1. IndInv /\ [Next]_vars => IndInv'
  BY StepKeeps DEF Kept, Facts, IndInv
<1> QED
  BY <1>1, Start, PTL DEF Spec

\* Every variable keeps its type; in particular no recovery pass spends more
\* enqueue attempts than a version has.
THEOREM TypeCorrect == Spec => []TypeOK
<1>1. IndInv => TypeOK BY DEF IndInv
<1> QED BY <1>1, Invariance, PTL

\* An archived dataset has no version in progress and no knowledge base uses it.
THEOREM ArchivedDatasetsAreIdle == Spec => []ArchivedIsIdle
<1>1. IndInv => ArchivedIsIdle BY DEF IndInv
<1> QED BY <1>1, Invariance, PTL

\* In a document collection exactly the ready versions have a document.
THEOREM DocumentsFollowReadiness == Spec => []DocumentsAreOfReady
<1>1. IndInv => DocumentsAreOfReady BY DEF IndInv
<1> QED BY <1>1, Invariance, PTL

\* Together: dataset, versions and documents agree.
THEOREM DatasetConsistency == Spec => []DatasetsAreConsistent
<1>1. TypeOK /\ ArchivedIsIdle /\ DocumentsAreOfReady => DatasetsAreConsistent
  BY DEF DatasetsAreConsistent
<1> QED
  BY <1>1, TypeCorrect, ArchivedDatasetsAreIdle, DocumentsFollowReadiness, PTL

\* No late worker, failed enqueue or recovery pass changes a settled version.
THEOREM SettledVersionsAreFinal == Spec => SettledIsFinal
<1>1. IndInv /\ [Next]_vars => [Final]_vars
  BY StepKeeps DEF Kept
<1> QED
  BY <1>1, Invariance, PTL DEF Spec, SettledIsFinal, Final

\* In whatever order versions become ready, and whatever workers have read
\* before, the current version never moves to an older one.
THEOREM PointerMovesForward == Spec => CurrentMovesForward
<1>1. IndInv /\ [Next]_vars => [Forward]_vars
  BY StepKeeps DEF Kept
<1> QED
  BY <1>1, Invariance, PTL DEF Spec, CurrentMovesForward, Forward

\* Uploads, retries, late workers, failed enqueues and recovery together are steps or
\* stutters of the history of the dataset.
THEOREM HistoryRefined == Spec => ImplementsHistory
<1>1. Init => History!Init
  <2> SUFFICES ASSUME Init PROVE History!Init OBVIOUS
  <2>1. \A u \in Uploads : HistoryEntry(row[u]) = History!Absent
    BY DEF Init, HistoryEntry, History!Absent, History!Entry, Unsettled
  <2> QED
    BY <2>1 DEF Init, History!Init
<1>2. IndInv /\ [Next]_vars => Recorded
  BY StepKeeps DEF Kept
<1> QED
  BY <1>1, <1>2, Invariance, PTL DEF Spec, ImplementsHistory, History!Spec, Recorded, Past

-----------------------------------------------------------------------------
(* Counting and summing for MonitoringReports *)

\* A set of naturals that has 0, and with each number its successor, has them all.
LEMMA NaturalsBySteps ==
    ASSUME NEW S, 0 \in S, \A n \in Nat : n \in S => n + 1 \in S
    PROVE  \A n \in Nat : n \in S
<1> DEFINE T == Nat \ S
<1> SUFFICES ASSUME T # {} PROVE FALSE
    OBVIOUS
<1>1. PICK n \in T : \A m \in T : <<m, n>> \notin OpToRel(<, Nat)
    <2>1. T \subseteq Nat
        OBVIOUS
    <2> HIDE DEF T
    <2> QED BY <2>1, WFMin, NatLessThanWellFounded
<1>2. \A m \in T : ~(m < n)
    BY <1>1 DEF OpToRel
<1>3. n # 0 /\ n \in Nat
    OBVIOUS
<1>4. n - 1 \in Nat /\ n - 1 < n /\ (n - 1) + 1 = n
    BY <1>3
<1> QED BY <1>2, <1>4

\* A nonempty set of integers with a bound has a greatest element.
LEMMA GreatestExists ==
    ASSUME NEW S, S \subseteq Int, NEW b \in Int, \A x \in S : x <= b, NEW e \in S
    PROVE  P!Max(S) \in S /\ \A y \in S : P!Max(S) >= y
<1> DEFINE T == {n \in Nat : \A m \in 0 .. n : b - m \notin S}
<1>1. \E x \in S : \A y \in S : x >= y
    <2> SUFFICES ASSUME \A x \in S : \E y \in S : y > x PROVE FALSE
        BY Z3
    <2>1. 0 \in T
        <3>1. b \notin S
            OBVIOUS
        <3> QED BY <3>1
    <2>2. ASSUME NEW n \in Nat, n \in T PROVE n + 1 \in T
        <3>1. b - (n + 1) \notin S
            <4> SUFFICES ASSUME b - (n + 1) \in S PROVE FALSE
                OBVIOUS
            <4>1. PICK y \in S : y > b - (n + 1)
                OBVIOUS
            <4>2. y \in Int /\ y <= b /\ y > b - (n + 1)
                BY <4>1
            <4>3. b - y \in 0 .. n /\ b - (b - y) = y
                BY <4>2
            <4> QED BY <2>2, <4>3, <4>1
        <3>2. \A m \in 0 .. n + 1 : m \in 0 .. n \/ m = n + 1
            OBVIOUS
        <3> QED BY <3>1, <3>2, <2>2
    <2>3. \A n \in Nat : n \in T
        <3> HIDE DEF T
        <3> QED BY <2>1, <2>2, NaturalsBySteps
    <2>4. b - e \in Nat /\ b - (b - e) = e
        OBVIOUS
    <2> QED BY <2>3, <2>4
<1> QED BY <1>1 DEF P!Max

\* A set of subsets of a finite set that has the empty one, and each one of which it
\* has all that lack one element, has them all.
LEMMA SubsetsBySteps ==
    ASSUME NEW D, IsFiniteSet(D), NEW G, {} \in G,
           \A s \in SUBSET D : s # {} /\ (\A x \in s : s \ {x} \in G) => s \in G
    PROVE  \A s \in SUBSET D : s \in G
<1> DEFINE S == {n \in Nat : \A s \in SUBSET D : Cardinality(s) = n => s \in G}
<1>1. ASSUME NEW s \in SUBSET D PROVE IsFiniteSet(s) /\ Cardinality(s) \in Nat
    BY FS_Subset, FS_CardinalityType
<1>2. 0 \in S
    BY <1>1, FS_EmptySet
<1>3. ASSUME NEW n \in Nat, n \in S PROVE n + 1 \in S
    <2> SUFFICES ASSUME NEW s \in SUBSET D, Cardinality(s) = n + 1 PROVE s \in G
        OBVIOUS
    <2>1. s # {}
        <3>1. n + 1 # 0
            OBVIOUS
        <3> QED BY <3>1, FS_EmptySet
    <2>2. ASSUME NEW x \in s PROVE s \ {x} \in G
        <3>1. Cardinality(s \ {x}) = n
            BY <1>1, FS_RemoveElement
        <3> QED BY <3>1, <1>3
    <2> QED BY <2>1, <2>2
<1>4. \A n \in Nat : n \in S
    <2> HIDE DEF S
    <2> QED BY <1>2, <1>3, NaturalsBySteps
<1> QED BY <1>1, <1>4

\* A sum over every subset of D, taken element by element.
IsSum(h, f, D) ==
    /\ h \in [SUBSET D -> Int]
    /\ h[{}] = 0
    /\ \A s \in SUBSET D : \A x \in s : h[s] = f[x] + h[s \ {x}]

LEMMA SumExists ==
    ASSUME NEW D, IsFiniteSet(D), NEW f, \A x \in D : f[x] \in Int
    PROVE  \E h : IsSum(h, f, D)
<1> DEFINE G == {s \in SUBSET D : \E h : IsSum(h, f, s)}
<1>1. {} \in G
    <2> DEFINE h == [s \in SUBSET {} |-> 0]
    <2>1. IsSum(h, f, {})
        BY DEF IsSum
    <2> QED BY <2>1
<1>2. ASSUME NEW s \in SUBSET D, s # {}, \A x \in s : s \ {x} \in G PROVE s \in G
    <2>0. PICK a \in s : s \ {a} \in G
        BY <1>2
    <2> DEFINE rest == s \ {a}
    <2>1. PICK g : IsSum(g, f, rest)
        BY <2>0
    <2>2. /\ \A t \in SUBSET rest : g[t] \in Int
          /\ g[{}] = 0
          /\ \A t \in SUBSET rest : \A x \in t : g[t] = f[x] + g[t \ {x}]
        BY <2>1 DEF IsSum
    <2> DEFINE h == [t \in SUBSET s |-> IF a \in t THEN f[a] + g[t \ {a}] ELSE g[t]]
    <2>3. \A t \in SUBSET s : t \ {a} \in SUBSET rest /\ (a \notin t => t \in SUBSET rest)
        OBVIOUS
    <2> HIDE DEF rest
    <2>4. h \in [SUBSET s -> Int]
        BY <2>2, <2>3
    <2>5. h[{}] = 0
        BY <2>2
    <2>6. ASSUME NEW t \in SUBSET s, NEW x \in t PROVE h[t] = f[x] + h[t \ {x}]
        <3>1. CASE x = a
            BY <3>1, <2>3
        <3>2. CASE x # a /\ a \notin t
            BY <3>2, <2>2, <2>3
        <3>3. CASE x # a /\ a \in t
            <4>1. /\ h[t] = f[a] + g[t \ {a}]
                  /\ h[t \ {x}] = f[a] + g[(t \ {x}) \ {a}]
                BY <3>3
            <4>2. (t \ {x}) \ {a} = (t \ {a}) \ {x} /\ x \in t \ {a}
                BY <3>3
            <4>3. g[t \ {a}] = f[x] + g[(t \ {a}) \ {x}]
                BY <2>2, <2>3, <4>2
            <4>4. f[a] \in Int /\ f[x] \in Int /\ g[(t \ {a}) \ {x}] \in Int
                <5>1. (t \ {a}) \ {x} \in SUBSET rest
                    BY <2>3
                <5> QED BY <2>2, <5>1
            <4> HIDE DEF h
            <4>5. \A i, j, k \in Int : i + (j + k) = j + (i + k)
                OBVIOUS
            <4>6. h[t] = f[a] + (f[x] + g[(t \ {a}) \ {x}])
                BY <4>1, <4>3, Zenon
            <4>7. h[t \ {x}] = f[a] + g[(t \ {a}) \ {x}]
                BY <4>1, <4>2, Zenon
            <4> QED BY <4>4, <4>5, <4>6, <4>7
        <3> QED BY <3>1, <3>2, <3>3
    <2> HIDE DEF h
    <2>7. IsSum(h, f, s)
        BY <2>4, <2>5, <2>6 DEF IsSum
    <2> QED BY <2>7
<1>3. \A s \in SUBSET D : s \in G
    <2> HIDE DEF G
    <2> QED BY <1>1, <1>2, SubsetsBySteps
<1> QED BY <1>3

\* The recursion of SumFunction.
AnyOf(s) == CHOOSE x \in s : TRUE
SumStep(h, f, s) == IF s = {} THEN 0 ELSE f[AnyOf(s)] + h[s \ {AnyOf(s)}]
Totals(h, f, D) == h = [s \in SUBSET D |-> SumStep(h, f, s)]

\* The sum of a function is whatever adds its values element by element.
LEMMA SumIs ==
    ASSUME NEW f, IsFiniteSet(DOMAIN f), NEW h, IsSum(h, f, DOMAIN f)
    PROVE  P!SumFunction(f) = h[DOMAIN f]
<1> DEFINE D == DOMAIN f
           g == CHOOSE g : Totals(g, f, D)
<1>1. P!SumFunction(f) = g[D]
    BY DEF P!SumFunction, P!SumFunctionOnSet, P!FoldFunctionOnSet, P!MapThenFoldSet, Totals, SumStep, AnyOf
<1> HIDE DEF D
<1>2. /\ h \in [SUBSET D -> Int] /\ h[{}] = 0
      /\ \A s \in SUBSET D : \A x \in s : h[s] = f[x] + h[s \ {x}]
    BY DEF IsSum, D
<1>3. \A s \in SUBSET D : s # {} => AnyOf(s) \in s
    BY DEF AnyOf
<1>4. \A s \in SUBSET D : h[s] = SumStep(h, f, s)
    BY <1>2, <1>3 DEF SumStep
<1>5. Totals(h, f, D)
    <2>1. h = [s \in SUBSET D |-> h[s]]
        BY <1>2
    <2>2. [s \in SUBSET D |-> h[s]] = [s \in SUBSET D |-> SumStep(h, f, s)]
        BY <1>4
    <2> QED BY <2>1, <2>2, Zenon DEF Totals
<1>6. Totals(g, f, D)
    BY <1>5
<1> HIDE DEF g
<1>7. \A s \in SUBSET D : g[s] = SumStep(g, f, s)
    <2> DEFINE k == [s \in SUBSET D |-> SumStep(g, f, s)]
    <2>1. \A s \in SUBSET D : k[s] = SumStep(g, f, s)
        OBVIOUS
    <2> QED BY <2>1, <1>6, Zenon DEF Totals
<1> DEFINE G == {s \in SUBSET D : g[s] = h[s]}
<1>8. {} \in G
    BY <1>2, <1>7 DEF SumStep
<1>9. ASSUME NEW s \in SUBSET D, s # {}, \A x \in s : s \ {x} \in G PROVE s \in G
    <2>1. h[s] = f[AnyOf(s)] + h[s \ {AnyOf(s)}] /\ g[s] = f[AnyOf(s)] + g[s \ {AnyOf(s)}]
        BY <1>9, <1>4, <1>7 DEF SumStep
    <2>2. g[s \ {AnyOf(s)}] = h[s \ {AnyOf(s)}]
        BY <1>9, <1>3
    <2> QED BY <2>1, <2>2
<1>10. \A s \in SUBSET D : s \in G
    <2>1. IsFiniteSet(D)
        BY DEF D
    <2> HIDE DEF G
    <2> QED BY <1>8, <1>9, <2>1, SubsetsBySteps
<1> QED BY <1>1, <1>10 DEF D

\* Sums of no, one and two values.
LEMMA SumOfFew ==
    ASSUME NEW f
    PROVE  /\ DOMAIN f = {} => P!SumFunction(f) = 0
           /\ DOMAIN f = 1 .. 1 /\ f[1] \in Int => P!SumFunction(f) = f[1]
           /\ DOMAIN f = 1 .. 2 /\ f[1] \in Int /\ f[2] \in Int => P!SumFunction(f) = f[1] + f[2]
<1>0. IsFiniteSet({}) /\ IsFiniteSet(1 .. 1) /\ IsFiniteSet(1 .. 2)
    <2>1. \A n \in Int : IsFiniteSet(1 .. n)
        BY FS_Interval
    <2>2. 1 \in Int /\ 2 \in Int
        OBVIOUS
    <2> QED BY <2>1, <2>2, FS_EmptySet
<1>1. ASSUME DOMAIN f = {} PROVE P!SumFunction(f) = 0
    <2>1. PICK h : IsSum(h, f, DOMAIN f)
        BY <1>0, <1>1, SumExists
    <2> QED BY <1>0, <1>1, <2>1, SumIs DEF IsSum
<1>2. ASSUME DOMAIN f = 1 .. 1, f[1] \in Int PROVE P!SumFunction(f) = f[1]
    <2>1. PICK h : IsSum(h, f, DOMAIN f)
        BY <1>0, <1>2, SumExists
    <2> DEFINE D == 1 .. 1
    <2>0. D \in SUBSET DOMAIN f /\ 1 \in D
        BY <1>2
    <2> HIDE DEF D
    <2>2. h[D] = f[1] + h[D \ {1}] /\ h[{}] = 0
        BY <2>0, <2>1 DEF IsSum
    <2>3. D \ {1} = {} /\ D = 1 .. 1
        BY DEF D
    <2>4. h[1 .. 1] = f[1] + 0
        BY <2>2, <2>3, Zenon
    <2> QED BY <1>0, <1>2, <2>1, <2>4, SumIs
<1>3. ASSUME DOMAIN f = 1 .. 2, f[1] \in Int, f[2] \in Int PROVE P!SumFunction(f) = f[1] + f[2]
    <2>1. PICK h : IsSum(h, f, DOMAIN f)
        <3>1. \A x \in 1 .. 2 : x = 1 \/ x = 2
            OBVIOUS
        <3>2. \A x \in 1 .. 2 : f[x] \in Int
            BY <3>1, <1>3
        <3> QED BY <1>0, <1>3, <3>2, SumExists
    <2> DEFINE D == 1 .. 2
               E == {2}
    <2>0. D \in SUBSET DOMAIN f /\ 1 \in D /\ E \in SUBSET DOMAIN f /\ 2 \in E
        BY <1>3
    <2> HIDE DEF D, E
    <2>2. h[D] = f[1] + h[D \ {1}] /\ h[E] = f[2] + h[E \ {2}] /\ h[{}] = 0
        BY <2>0, <2>1 DEF IsSum
    <2>3. D \ {1} = E /\ E \ {2} = {} /\ D = 1 .. 2
        BY DEF D, E
    <2>4. h[1 .. 2] = f[1] + (f[2] + 0)
        BY <2>2, <2>3, Zenon
    <2> QED BY <1>0, <1>3, <2>1, <2>4, SumIs
<1> QED BY <1>1, <1>2, <1>3

-----------------------------------------------------------------------------
(* Counts of readings *)

\* How many values of a sequence are in V.
CountIn(values, V) == Cardinality({i \in DOMAIN values : values[i] \in V})

\* The counts of two sequences add up when they are one.
LEMMA CountOfBoth ==
    ASSUME NEW T, NEW first \in Seq(T), NEW second \in Seq(T), NEW V
    PROVE  /\ CountIn(first \o second, V) = CountIn(first, V) + CountIn(second, V)
           /\ CountIn(first, V) \in Nat /\ CountIn(second, V) \in Nat
<1> DEFINE m == Len(first)
           n == Len(second)
           both == first \o second
           A == {i \in DOMAIN first : first[i] \in V}
           B == {i \in DOMAIN second : second[i] \in V}
           later == {i \in m + 1 .. m + n : both[i] \in V}
           all == {i \in DOMAIN both : both[i] \in V}
<1>1. /\ m \in Nat /\ n \in Nat /\ DOMAIN first = 1 .. m /\ DOMAIN second = 1 .. n
      /\ DOMAIN both = 1 .. m + n
      /\ \A i \in 1 .. m : both[i] = first[i]
      /\ \A i \in m + 1 .. m + n : i - m \in 1 .. n /\ both[i] = second[i - m]
      /\ \A i \in 1 .. n : i + m \in m + 1 .. m + n /\ both[i + m] = second[i]
    <2>1. both \in Seq(T) /\ Len(both) = m + n
        BY ConcatProperties
    <2>2. \A i \in 1 .. m + n : both[i] = IF i <= m THEN first[i] ELSE second[i - m]
        BY ConcatProperties
    <2>3. m \in Nat /\ n \in Nat /\ DOMAIN first = 1 .. m /\ DOMAIN second = 1 .. n
        OBVIOUS
    <2>4. DOMAIN both = 1 .. m + n
        BY <2>1
    <2> HIDE DEF m, n, both
    <2>5. \A i \in 1 .. m : both[i] = first[i]
        BY <2>2, <2>3
    <2>6. \A i \in m + 1 .. m + n : i - m \in 1 .. n /\ both[i] = second[i - m]
        BY <2>2, <2>3
    <2>7. \A i \in 1 .. n : i + m \in m + 1 .. m + n /\ (i + m) - m = i
        BY <2>3
    <2>8. \A i \in 1 .. n : both[i + m] = second[i]
        BY <2>6, <2>7
    <2> QED BY <2>3, <2>4, <2>5, <2>6, <2>7, <2>8
<1> HIDE DEF m, n, both
<1>2. /\ IsFiniteSet(A) /\ IsFiniteSet(B) /\ IsFiniteSet(later)
    <2>1. IsFiniteSet(1 .. m) /\ IsFiniteSet(1 .. n) /\ IsFiniteSet(m + 1 .. m + n)
        BY <1>1, FS_Interval
    <2>2. A \in SUBSET (1 .. m) /\ B \in SUBSET (1 .. n) /\ later \in SUBSET (m + 1 .. m + n)
        BY <1>1
    <2> QED BY <2>1, <2>2, FS_Subset
<1>3. all = A \cup later /\ A \cap later = {}
    BY <1>1
<1>4. Cardinality(later) = Cardinality(B)
    <2> DEFINE f == [i \in B |-> i + m]
    <2>1. \A i \in B : i + m \in later /\ i \in Int
        BY <1>1
    <2>2. \A j \in later : j - m \in B /\ (j - m) + m = j
        BY <1>1
    <2>3. f \in Bijection(B, later)
        <3>1. f \in [B -> later] /\ \A i, j \in B : f[i] = f[j] => i = j
            BY <2>1, <1>1
        <3>2. \A j \in later : \E i \in B : f[i] = j
            BY <2>2
        <3> QED BY <3>1, <3>2 DEF Bijection, Injection, Surjection, IsInjective
    <2> HIDE DEF f, B, later
    <2>4. ExistsBijection(B, later)
        BY <2>3 DEF ExistsBijection
    <2> QED BY <1>2, <2>4, FS_Bijection
<1>5. Cardinality(all) = Cardinality(A) + Cardinality(later)
    <2>1. Cardinality(A \cup later) = Cardinality(A) + Cardinality(later) - Cardinality(A \cap later)
        BY <1>2, FS_Union
    <2>2. Cardinality(A) \in Nat /\ Cardinality(later) \in Nat /\ Cardinality({}) = 0
        BY <1>2, FS_CardinalityType, FS_EmptySet
    <2>3. Cardinality(A \cap later) = 0
        BY <2>2, <1>3
    <2> HIDE DEF A, later, all
    <2> QED BY <2>1, <2>2, <2>3, <1>3
<1>6. Cardinality(A) \in Nat /\ Cardinality(B) \in Nat
    BY <1>2, FS_CardinalityType
<1> QED BY <1>4, <1>5, <1>6 DEF CountIn, both

\* A finite set that is divided into parts counts as many as its parts together.
LEMMA PartsAddUp ==
    ASSUME NEW D, IsFiniteSet(D), NEW part, NEW f, IsFiniteSet(DOMAIN f),
           \A i \in D : part[i] \in DOMAIN f,
           \A b \in DOMAIN f : f[b] = Cardinality({i \in D : part[i] = b})
    PROVE  P!SumFunction(f) = Cardinality(D)
<1> DEFINE Of(s) == {i \in D : part[i] \in s}
           h == [s \in SUBSET DOMAIN f |-> Cardinality(Of(s))]
<1>1. \A s : IsFiniteSet(Of(s)) /\ Cardinality(Of(s)) \in Nat
    <2>1. \A s : Of(s) \in SUBSET D
        OBVIOUS
    <2> HIDE DEF Of
    <2> QED BY <2>1, FS_Subset, FS_CardinalityType
<1>2. h[{}] = 0
    <2>1. Of({}) = {}
        OBVIOUS
    <2> HIDE DEF Of
    <2> QED BY <2>1, FS_EmptySet
<1>3. ASSUME NEW s \in SUBSET DOMAIN f, NEW x \in s PROVE h[s] = f[x] + h[s \ {x}]
    <2> DEFINE A == Of({x})
               B == Of(s \ {x})
    <2>1. Of(s) = A \cup B /\ A \cap B = {}
        OBVIOUS
    <2>2. IsFiniteSet(A) /\ IsFiniteSet(B) /\ Cardinality(A) \in Nat /\ Cardinality(B) \in Nat
        BY <1>1
    <2>3. Cardinality(A) = f[x]
        <3>1. A = {i \in D : part[i] = x}
            OBVIOUS
        <3> QED BY <3>1
    <2>4. h[s] = Cardinality(Of(s)) /\ h[s \ {x}] = Cardinality(B)
        OBVIOUS
    <2> HIDE DEF A, B, Of, h
    <2>5. Cardinality(A \cup B) = Cardinality(A) + Cardinality(B) - Cardinality(A \cap B)
        BY <2>2, FS_Union
    <2>6. Cardinality(A \cap B) = 0
        BY <2>1, FS_EmptySet
    <2>7. Cardinality(Of(s)) = Cardinality(A \cup B)
        BY <2>1
    <2> QED BY <2>2, <2>3, <2>4, <2>5, <2>6, <2>7
<1>4. h \in [SUBSET DOMAIN f -> Int]
    <2>1. \A s \in SUBSET DOMAIN f : Cardinality(Of(s)) \in Int
        BY <1>1
    <2> HIDE DEF Of
    <2> QED BY <2>1
<1>5. h[DOMAIN f] = Cardinality(D)
    <2>1. Of(DOMAIN f) = D
        OBVIOUS
    <2>2. h[DOMAIN f] = Cardinality(Of(DOMAIN f))
        OBVIOUS
    <2> HIDE DEF Of, h
    <2> QED BY <2>1, <2>2
<1> HIDE DEF h
<1>6. IsSum(h, f, DOMAIN f)
    BY <1>2, <1>3, <1>4 DEF IsSum
<1> QED BY <1>5, <1>6, SumIs

-----------------------------------------------------------------------------
(* Histograms *)

Ascending(edges) ==
    /\ edges \in Seq(Int)
    /\ \A i, j \in 1 .. Len(edges) : i < j => edges[i] <= edges[j]

InBin(v, b, edges) ==
    /\ b > 1 => edges[b - 1] <= v
    /\ b <= Len(edges) => v < edges[b]

\* Ascending edges leave no gap and no overlap.
LEMMA OneBin ==
    ASSUME NEW edges, Ascending(edges), NEW v \in Int
    PROVE  /\ \E b \in 1 .. Len(edges) + 1 : InBin(v, b, edges)
           /\ \A b, c \in 1 .. Len(edges) + 1 : InBin(v, b, edges) /\ InBin(v, c, edges) => b = c
<1> DEFINE n == Len(edges)
           S == {k \in 0 .. n : k = 0 \/ edges[k] <= v}
<1>1. n \in Nat /\ \A i \in 1 .. n : edges[i] \in Int
    BY DEF Ascending
<1>2. \A i, j \in 1 .. n : i <= j => edges[i] <= edges[j]
    BY <1>1 DEF Ascending
<1> HIDE DEF n
<1>3. \E b \in 1 .. n + 1 : InBin(v, b, edges)
    <2>1. S \subseteq Int /\ (\A k \in S : k <= n) /\ 0 \in S
        BY <1>1
    <2>2. PICK g \in S : \A y \in S : g >= y
        <3>1. n \in Int
            BY <1>1
        <3> HIDE DEF S
        <3> QED BY <3>1, <2>1, GreatestExists
    <2>3. g \in 0 .. n /\ (g # 0 => edges[g] <= v) /\ (g + 1 <= n => ~(edges[g + 1] <= v))
        <3>1. g + 1 <= n => g + 1 \notin S
            BY <2>2, <1>1
        <3> QED BY <2>2, <3>1, <1>1
    <2>4. g + 1 \in 1 .. n + 1 /\ (g + 1) - 1 = g /\ (g + 1 > 1 => g # 0)
        BY <2>3, <1>1
    <2>5. g + 1 <= n => v < edges[g + 1]
        BY <2>3, <2>4, <1>1
    <2>6. InBin(v, g + 1, edges)
        BY <2>3, <2>4, <2>5 DEF InBin, n
    <2> QED BY <2>4, <2>6
<1>4. ASSUME NEW b \in 1 .. n + 1, NEW c \in 1 .. n + 1, b < c,
             InBin(v, b, edges), InBin(v, c, edges)
      PROVE  FALSE
    <2>1. b \in 1 .. n /\ c - 1 \in 1 .. n /\ b <= c - 1 /\ c > 1
        BY <1>1, <1>4
    <2>2. edges[c - 1] <= v /\ v < edges[b]
        BY <1>4, <2>1 DEF InBin, n
    <2>3. edges[b] <= edges[c - 1]
        BY <1>2, <2>1
    <2> QED BY <1>1, <2>1, <2>2, <2>3
<1>5. \A b, c \in 1 .. n + 1 : InBin(v, b, edges) /\ InBin(v, c, edges) => b = c
    BY <1>4, <1>1
<1> QED BY <1>3, <1>5 DEF n

\* A column of readings, of any length and values, and any edges: what the bins hold
\* together is what the summary calls finite (profiles.py).
THEOREM ReadingsBinned ==
    ASSUME NEW values \in Seq(Int), NEW edges, Ascending(edges)
    PROVE  P!EveryReadingIsBinned(values, edges)
<1> DEFINE n == Len(edges)
           D == {i \in DOMAIN values : P!Finite(values[i])}
           bins == P!HistogramCounts(values, edges)
           part == [i \in D |-> CHOOSE b \in 1 .. n + 1 : InBin(values[i], b, edges)]
<1>1. IsFiniteSet(D)
    <2>1. D \in SUBSET (1 .. Len(values)) /\ Len(values) \in Nat
        OBVIOUS
    <2>2. IsFiniteSet(1 .. Len(values))
        BY <2>1, FS_Interval
    <2> HIDE DEF D
    <2> QED BY <2>1, <2>2, FS_Subset
<1>2. DOMAIN bins = 1 .. n + 1 /\ IsFiniteSet(DOMAIN bins)
    <2>1. DOMAIN bins = 1 .. n + 1
        BY DEF P!HistogramCounts
    <2>2. n \in Nat
        BY DEF Ascending
    <2>3. IsFiniteSet(1 .. n + 1)
        <3>1. n + 1 \in Int /\ 1 \in Int
            BY <2>2
        <3> QED BY <3>1, FS_Interval
    <2> HIDE DEF bins
    <2> QED BY <2>1, <2>3
<1>3. ASSUME NEW i \in D PROVE part[i] \in 1 .. n + 1 /\ InBin(values[i], part[i], edges)
    <2>1. values[i] \in Int
        OBVIOUS
    <2>2. \E b \in 1 .. n + 1 : InBin(values[i], b, edges)
        BY <2>1, OneBin
    <2>3. part[i] = CHOOSE b \in 1 .. n + 1 : InBin(values[i], b, edges)
        OBVIOUS
    <2> HIDE DEF part, D
    <2> QED BY <2>2, <2>3
<1>4. ASSUME NEW b \in DOMAIN bins PROVE bins[b] = Cardinality({i \in D : part[i] = b})
    <2>0. b \in 1 .. n + 1
        BY <1>2
    <2>1. bins[b] = Cardinality({i \in DOMAIN values : P!Finite(values[i]) /\ InBin(values[i], b, edges)})
        BY <2>0 DEF P!HistogramCounts, P!Cardinality, Cardinality, InBin
    <2>2. \A i \in D : InBin(values[i], b, edges) <=> part[i] = b
        <3> SUFFICES ASSUME NEW i \in D, InBin(values[i], b, edges) PROVE part[i] = b
            BY <1>3
        <3>1. values[i] \in Int
            OBVIOUS
        <3> HIDE DEF part, D
        <3> QED BY <3>1, <2>0, <1>3, OneBin
    <2>3. {i \in DOMAIN values : P!Finite(values[i]) /\ InBin(values[i], b, edges)}
          = {i \in D : part[i] = b}
        <3> HIDE DEF part
        <3> QED BY <2>2
    <2> QED BY <2>1, <2>3
<1>5. P!NumericSummary(values).finite = Cardinality(D)
    BY DEF P!NumericSummary, P!Cardinality, Cardinality
<1>6. P!SumFunction(bins) = Cardinality(D)
    <2> HIDE DEF bins, D, part
    <2> QED BY <1>1, <1>2, <1>3, <1>4, PartsAddUp
<1> HIDE DEF bins, D
<1> QED BY <1>5, <1>6 DEF P!EveryReadingIsBinned, bins

-----------------------------------------------------------------------------
(* Splits of a column *)

Counts(profiles) == P!SumFunction([i \in DOMAIN profiles |-> profiles[i].summary.count])
Missing(profiles) == P!SumFunction([i \in DOMAIN profiles |-> profiles[i].summary.missing])
Finites(profiles) == P!SumFunction([i \in DOMAIN profiles |-> profiles[i].summary.finite])
Outside(profiles) == P!SumFunction([i \in DOMAIN profiles |-> profiles[i].outside])

\* What a feature result says of these sums, when every profile has a histogram.
Verdict(count, missing, finite, outside, bins, reference) ==
    IF finite < Minimum THEN "insufficient_data"
    ELSE IF P!MissingRateMoved(missing, count, reference) \/ P!AtLeast(outside, finite, RateWarning)
         THEN P!max_severity(P!Severity(Psi(reference.bins, bins)), "warning")
         ELSE P!Severity(Psi(reference.bins, bins))

LEMMA VerdictOfSums ==
    ASSUME NEW profiles, profiles = [i \in DOMAIN profiles |-> profiles[i]], NEW reference,
           \A i \in DOMAIN profiles : profiles[i].bins # <<>>
    PROVE  P!FeatureResult(profiles, reference)
           = Verdict(Counts(profiles), Missing(profiles), Finites(profiles), Outside(profiles),
                     P!AddBins(profiles, reference), reference)
<1>1. P!Restrict(profiles, {i \in DOMAIN profiles : profiles[i].bins # <<>>}) = profiles
    <2>1. {i \in DOMAIN profiles : profiles[i].bins # <<>>} = DOMAIN profiles
        OBVIOUS
    <2> QED BY <2>1 DEF P!Restrict
<1>2. /\ P!combine_numeric_summaries(profiles).count = Counts(profiles)
      /\ P!combine_numeric_summaries(profiles).finite = Finites(profiles)
      /\ P!MissingValues(profiles) = Missing(profiles)
    BY DEF P!combine_numeric_summaries, P!MissingValues, P!Total, Counts, Finites, Missing
<1>3. P!NotCompared(profiles, Finites(profiles)) <=> Finites(profiles) < Minimum
    BY DEF P!NotCompared
<1> QED BY <1>1, <1>2, <1>3 DEF P!FeatureResult, P!Total, Verdict, Outside

\* The readings that a profile counts.
FiniteReadings == {v \in Int : P!Finite(v)}
Unusual(reference) == {v \in FiniteReadings : v < reference.minimum \/ v > reference.maximum}
BinReadings(b, edges) == {v \in FiniteReadings : InBin(v, b, edges)}

\* What a profile of these values counts.
CountsOf(profile, values, reference) ==
    /\ profile.summary.count = Len(values)
    /\ profile.summary.missing = CountIn(values, {P!NaN})
    /\ profile.summary.finite = CountIn(values, FiniteReadings)
    /\ profile.outside = CountIn(values, Unusual(reference))
    /\ DOMAIN profile.bins = 1 .. Len(reference.edges) + 1
    /\ \A b \in 1 .. Len(reference.edges) + 1 :
        profile.bins[b] = CountIn(values, BinReadings(b, reference.edges))
    /\ profile.bins # <<>>

LEMMA ProfileCounts ==
    ASSUME NEW values \in Seq(Int), NEW reference, reference.edges \in Seq(Int),
           NEW profile, profile = P!ColumnProfile(values, reference, TRUE)
    PROVE  CountsOf(profile, values, reference)
<1> DEFINE D == DOMAIN values
           edges == reference.edges
<1>0. \A i \in D : values[i] \in Int
    OBVIOUS
<1>1. /\ profile.summary = P!NumericSummary(values)
      /\ profile.bins = P!HistogramCounts(values, edges)
      /\ profile.outside = P!Cardinality({i \in D : P!Finite(values[i])
                              /\ (values[i] < reference.minimum \/ values[i] > reference.maximum)})
    BY DEF P!ColumnProfile
<1>2. /\ profile.summary.count = Len(values)
      /\ profile.summary.missing = P!Cardinality({i \in D : values[i] = P!NaN})
      /\ profile.summary.finite = P!Cardinality({i \in D : P!Finite(values[i])})
    <2> DEFINE c == Len(values)
               m == P!Cardinality({i \in D : values[i] = P!NaN})
               f == P!Cardinality({i \in D : P!Finite(values[i])})
    <2>1. PICK k : profile.summary = [count |-> c, missing |-> m, finite |-> f, constant |-> k]
        BY <1>1, Zenon DEF P!NumericSummary
    <2> HIDE DEF c, m, f
    <2> DEFINE r == profile.summary
    <2>3. r = [count |-> c, missing |-> m, finite |-> f, constant |-> k]
        BY <2>1
    <2> HIDE DEF r
    <2>4. r.count = c /\ r.missing = m /\ r.finite = f
        BY <2>3
    <2>2. profile.summary.count = c /\ profile.summary.missing = m /\ profile.summary.finite = f
        BY <2>4 DEF r
    <2> QED BY <2>2 DEF c, m, f
<1>3. \A S : P!Cardinality(S) = Cardinality(S)
    BY DEF P!Cardinality, Cardinality
<1> HIDE DEF D
<1>4. profile.summary.missing = CountIn(values, {P!NaN})
    <2>1. {i \in D : values[i] = P!NaN} = {i \in D : values[i] \in {P!NaN}}
        OBVIOUS
    <2> QED BY <2>1, <1>2, <1>3 DEF CountIn, D
<1>5. profile.summary.finite = CountIn(values, FiniteReadings)
    <2>1. {i \in D : P!Finite(values[i])} = {i \in D : values[i] \in FiniteReadings}
        BY <1>0 DEF FiniteReadings
    <2> QED BY <2>1, <1>2, <1>3 DEF CountIn, D
<1>6. profile.outside = CountIn(values, Unusual(reference))
    <2>1. {i \in D : P!Finite(values[i])
                     /\ (values[i] < reference.minimum \/ values[i] > reference.maximum)}
          = {i \in D : values[i] \in Unusual(reference)}
        BY <1>0 DEF FiniteReadings, Unusual
    <2> QED BY <2>1, <1>1, <1>3 DEF CountIn, D
<1>7. DOMAIN profile.bins = 1 .. Len(edges) + 1
    BY <1>1 DEF P!HistogramCounts
<1>8. ASSUME NEW b \in 1 .. Len(edges) + 1
      PROVE  profile.bins[b] = CountIn(values, BinReadings(b, edges))
    <2>1. {i \in D : P!Finite(values[i]) /\ InBin(values[i], b, edges)}
          = {i \in D : values[i] \in BinReadings(b, edges)}
        BY <1>0 DEF FiniteReadings, BinReadings
    <2>2. profile.bins[b] = P!Cardinality({i \in D : P!Finite(values[i]) /\ InBin(values[i], b, edges)})
        BY <1>1 DEF P!HistogramCounts, InBin, D
    <2> QED BY <2>1, <2>2, <1>3 DEF CountIn, D
<1>9. profile.bins # <<>>
    <2>1. Len(edges) \in Nat
        OBVIOUS
    <2>2. 1 \in DOMAIN profile.bins
        <3>1. \A n \in Nat : 1 \in 1 .. n + 1
            OBVIOUS
        <3> QED BY <2>1, <3>1, <1>7, Zenon
    <2>3. DOMAIN <<>> = {}
        OBVIOUS
    <2> QED BY <2>2, <2>3
<1> QED BY <1>2, <1>4, <1>5, <1>6, <1>7, <1>8, <1>9 DEF CountsOf

\* What one profile, and two, hold together.
LEMMA TogetherOne ==
    ASSUME NEW p, p.summary.count \in Int, p.summary.missing \in Int,
           p.summary.finite \in Int, p.outside \in Int
    PROVE  /\ Counts(<<p>>) = p.summary.count
           /\ Missing(<<p>>) = p.summary.missing
           /\ Finites(<<p>>) = p.summary.finite
           /\ Outside(<<p>>) = p.outside
<1>0. DOMAIN <<p>> = 1 .. 1 /\ <<p>>[1] = p
    OBVIOUS
<1>1. Counts(<<p>>) = p.summary.count
    <2> DEFINE f == [i \in DOMAIN <<p>> |-> <<p>>[i].summary.count]
    <2>1. DOMAIN f = 1 .. 1 /\ f[1] = p.summary.count
        BY <1>0
    <2> HIDE DEF f
    <2>2. P!SumFunction(f) = p.summary.count
        BY <2>1, SumOfFew
    <2> QED BY <2>2 DEF Counts, f
<1>2. Missing(<<p>>) = p.summary.missing
    <2> DEFINE f == [i \in DOMAIN <<p>> |-> <<p>>[i].summary.missing]
    <2>1. DOMAIN f = 1 .. 1 /\ f[1] = p.summary.missing
        BY <1>0
    <2> HIDE DEF f
    <2>2. P!SumFunction(f) = p.summary.missing
        BY <2>1, SumOfFew
    <2> QED BY <2>2 DEF Missing, f
<1>3. Finites(<<p>>) = p.summary.finite
    <2> DEFINE f == [i \in DOMAIN <<p>> |-> <<p>>[i].summary.finite]
    <2>1. DOMAIN f = 1 .. 1 /\ f[1] = p.summary.finite
        BY <1>0
    <2> HIDE DEF f
    <2>2. P!SumFunction(f) = p.summary.finite
        BY <2>1, SumOfFew
    <2> QED BY <2>2 DEF Finites, f
<1>4. Outside(<<p>>) = p.outside
    <2> DEFINE f == [i \in DOMAIN <<p>> |-> <<p>>[i].outside]
    <2>1. DOMAIN f = 1 .. 1 /\ f[1] = p.outside
        BY <1>0
    <2> HIDE DEF f
    <2>2. P!SumFunction(f) = p.outside
        BY <2>1, SumOfFew
    <2> QED BY <2>2 DEF Outside, f
<1> QED BY <1>1, <1>2, <1>3, <1>4

LEMMA TogetherTwo ==
    ASSUME NEW p, p.summary.count \in Int, p.summary.missing \in Int,
           p.summary.finite \in Int, p.outside \in Int,
           NEW q, q.summary.count \in Int, q.summary.missing \in Int,
           q.summary.finite \in Int, q.outside \in Int
    PROVE  /\ Counts(<<p, q>>) = p.summary.count + q.summary.count
           /\ Missing(<<p, q>>) = p.summary.missing + q.summary.missing
           /\ Finites(<<p, q>>) = p.summary.finite + q.summary.finite
           /\ Outside(<<p, q>>) = p.outside + q.outside
<1>0. DOMAIN <<p, q>> = 1 .. 2 /\ <<p, q>>[1] = p /\ <<p, q>>[2] = q
    OBVIOUS
<1>1. Counts(<<p, q>>) = p.summary.count + q.summary.count
    <2> DEFINE f == [i \in DOMAIN <<p, q>> |-> <<p, q>>[i].summary.count]
    <2>1. DOMAIN f = 1 .. 2 /\ f[1] = p.summary.count /\ f[2] = q.summary.count
        BY <1>0
    <2> HIDE DEF f
    <2>2. P!SumFunction(f) = p.summary.count + q.summary.count
        BY <2>1, SumOfFew
    <2> QED BY <2>2 DEF Counts, f
<1>2. Missing(<<p, q>>) = p.summary.missing + q.summary.missing
    <2> DEFINE f == [i \in DOMAIN <<p, q>> |-> <<p, q>>[i].summary.missing]
    <2>1. DOMAIN f = 1 .. 2 /\ f[1] = p.summary.missing /\ f[2] = q.summary.missing
        BY <1>0
    <2> HIDE DEF f
    <2>2. P!SumFunction(f) = p.summary.missing + q.summary.missing
        BY <2>1, SumOfFew
    <2> QED BY <2>2 DEF Missing, f
<1>3. Finites(<<p, q>>) = p.summary.finite + q.summary.finite
    <2> DEFINE f == [i \in DOMAIN <<p, q>> |-> <<p, q>>[i].summary.finite]
    <2>1. DOMAIN f = 1 .. 2 /\ f[1] = p.summary.finite /\ f[2] = q.summary.finite
        BY <1>0
    <2> HIDE DEF f
    <2>2. P!SumFunction(f) = p.summary.finite + q.summary.finite
        BY <2>1, SumOfFew
    <2> QED BY <2>2 DEF Finites, f
<1>4. Outside(<<p, q>>) = p.outside + q.outside
    <2> DEFINE f == [i \in DOMAIN <<p, q>> |-> <<p, q>>[i].outside]
    <2>1. DOMAIN f = 1 .. 2 /\ f[1] = p.outside /\ f[2] = q.outside
        BY <1>0
    <2> HIDE DEF f
    <2>2. P!SumFunction(f) = p.outside + q.outside
        BY <2>1, SumOfFew
    <2> QED BY <2>2 DEF Outside, f
<1> QED BY <1>1, <1>2, <1>3, <1>4

\* A histogram has a whole number for each bin of the reference.
FillsBins(profile, reference) ==
    profile.bins # <<>> /\ \A b \in DOMAIN reference.bins : profile.bins[b] \in Int

BinsOfOne(p, reference) == [b \in DOMAIN reference.bins |-> p.bins[b]]
BinsOfTwo(p, q, reference) == [b \in DOMAIN reference.bins |-> p.bins[b] + q.bins[b]]

LEMMA BinsTogether ==
    ASSUME NEW reference,
           NEW p, FillsBins(p, reference), NEW q, FillsBins(q, reference)
    PROVE  /\ P!AddBins(<<p>>, reference) = BinsOfOne(p, reference)
           /\ P!AddBins(<<p, q>>, reference) = BinsOfTwo(p, q, reference)
<1> DEFINE one(b) == [i \in DOMAIN <<p>> |-> IF <<p>>[i].bins = <<>> THEN 0 ELSE <<p>>[i].bins[b]]
           two(b) == [i \in DOMAIN <<p, q>> |->
                        IF <<p, q>>[i].bins = <<>> THEN 0 ELSE <<p, q>>[i].bins[b]]
<1>1. ASSUME NEW b \in DOMAIN reference.bins
      PROVE  P!SumFunction(one(b)) = p.bins[b] /\ P!SumFunction(two(b)) = p.bins[b] + q.bins[b]
    <2>1. DOMAIN <<p>> = 1 .. 1 /\ <<p>>[1] = p
          /\ DOMAIN <<p, q>> = 1 .. 2 /\ <<p, q>>[1] = p /\ <<p, q>>[2] = q
        OBVIOUS
    <2>2. /\ DOMAIN one(b) = 1 .. 1 /\ one(b)[1] = p.bins[b]
          /\ DOMAIN two(b) = 1 .. 2 /\ two(b)[1] = p.bins[b] /\ two(b)[2] = q.bins[b]
        BY <2>1 DEF FillsBins
    <2>3. p.bins[b] \in Int /\ q.bins[b] \in Int
        BY DEF FillsBins
    <2> HIDE DEF one, two
    <2> QED BY <2>2, <2>3, SumOfFew
<1>2. /\ P!AddBins(<<p>>, reference) = [b \in DOMAIN reference.bins |-> P!SumFunction(one(b))]
      /\ P!AddBins(<<p, q>>, reference) = [b \in DOMAIN reference.bins |-> P!SumFunction(two(b))]
    BY DEF P!AddBins
<1> HIDE DEF one, two
<1> QED BY <1>1, <1>2 DEF BinsOfOne, BinsOfTwo

\* The columns of two requests of any size and any values: the drift of their feature is
\* that of one request with both (drift.py).
THEOREM SplitsOfColumns ==
    ASSUME NEW first \in Seq(Int), NEW second \in Seq(Int), NEW reference,
           reference.edges \in Seq(Int),
           DOMAIN reference.bins \subseteq 1 .. Len(reference.edges) + 1
    PROVE  P!SplitsAgree(first, second, reference)
<1> DEFINE both == first \o second
           p == P!ColumnProfile(first, reference, TRUE)
           q == P!ColumnProfile(second, reference, TRUE)
           r == P!ColumnProfile(both, reference, TRUE)
           edges == reference.edges
<1>1. both \in Seq(Int) /\ Len(both) = Len(first) + Len(second)
      /\ Len(first) \in Int /\ Len(second) \in Int /\ Len(both) \in Int
    BY ConcatProperties
<1> HIDE DEF both
<1>2. ASSUME NEW V
      PROVE  /\ CountIn(both, V) = CountIn(first, V) + CountIn(second, V)
             /\ CountIn(first, V) \in Int /\ CountIn(second, V) \in Int /\ CountIn(both, V) \in Int
    BY CountOfBoth DEF both
<1>3. /\ p = P!ColumnProfile(first, reference, TRUE)
      /\ q = P!ColumnProfile(second, reference, TRUE)
      /\ r = P!ColumnProfile(both, reference, TRUE)
    OBVIOUS
<1> HIDE DEF p, q, r, edges
<1>4. CountsOf(p, first, reference)
    BY <1>3, ProfileCounts
<1>5. CountsOf(q, second, reference)
    BY <1>3, ProfileCounts
<1>11. CountsOf(r, both, reference)
    BY <1>1, <1>3, ProfileCounts
<1>6. Counts(<<p, q>>) = Counts(<<r>>) /\ Missing(<<p, q>>) = Missing(<<r>>)
      /\ Finites(<<p, q>>) = Finites(<<r>>) /\ Outside(<<p, q>>) = Outside(<<r>>)
    <2>1. /\ p.summary.count \in Int /\ p.summary.missing \in Int
          /\ p.summary.finite \in Int /\ p.outside \in Int
        BY <1>1, <1>2, <1>4 DEF CountsOf
    <2>2. /\ q.summary.count \in Int /\ q.summary.missing \in Int
          /\ q.summary.finite \in Int /\ q.outside \in Int
        BY <1>1, <1>2, <1>5 DEF CountsOf
    <2>3. /\ r.summary.count \in Int /\ r.summary.missing \in Int
          /\ r.summary.finite \in Int /\ r.outside \in Int
        BY <1>1, <1>2, <1>11 DEF CountsOf
    <2>4. /\ Counts(<<p, q>>) = p.summary.count + q.summary.count
          /\ Missing(<<p, q>>) = p.summary.missing + q.summary.missing
          /\ Finites(<<p, q>>) = p.summary.finite + q.summary.finite
          /\ Outside(<<p, q>>) = p.outside + q.outside
        BY <2>1, <2>2, TogetherTwo
    <2>5. /\ Counts(<<r>>) = r.summary.count /\ Missing(<<r>>) = r.summary.missing
          /\ Finites(<<r>>) = r.summary.finite /\ Outside(<<r>>) = r.outside
        BY <2>3, TogetherOne
    <2>6. /\ r.summary.count = p.summary.count + q.summary.count
          /\ r.summary.missing = p.summary.missing + q.summary.missing
          /\ r.summary.finite = p.summary.finite + q.summary.finite
          /\ r.outside = p.outside + q.outside
        BY <1>1, <1>2, <1>4, <1>5, <1>11 DEF CountsOf
    <2> QED BY <2>4, <2>5, <2>6
<1>7. P!AddBins(<<p, q>>, reference) = P!AddBins(<<r>>, reference)
    <2>1. ASSUME NEW b \in DOMAIN reference.bins
          PROVE  /\ p.bins[b] \in Int /\ q.bins[b] \in Int /\ r.bins[b] \in Int
                 /\ r.bins[b] = p.bins[b] + q.bins[b]
        <3> DEFINE V == BinReadings(b, reference.edges)
        <3>1. p.bins[b] = CountIn(first, V) /\ q.bins[b] = CountIn(second, V) /\ r.bins[b] = CountIn(both, V)
            BY <1>4, <1>5, <1>11 DEF CountsOf
        <3> HIDE DEF V
        <3> QED BY <3>1, <1>2
    <2>5. FillsBins(p, reference) /\ FillsBins(q, reference) /\ FillsBins(r, reference)
        BY <2>1, <1>4, <1>5, <1>11 DEF FillsBins, CountsOf
    <2>2. P!AddBins(<<p, q>>, reference) = BinsOfTwo(p, q, reference)
        BY <2>5, BinsTogether
    <2>3. P!AddBins(<<r>>, reference) = BinsOfOne(r, reference)
        BY <2>5, BinsTogether
    <2>4. BinsOfTwo(p, q, reference) = BinsOfOne(r, reference)
        BY <2>1 DEF BinsOfOne, BinsOfTwo
    <2> QED BY <2>2, <2>3, <2>4
<1>8. P!FeatureResult(<<p, q>>, reference)
      = Verdict(Counts(<<p, q>>), Missing(<<p, q>>), Finites(<<p, q>>), Outside(<<p, q>>),
                P!AddBins(<<p, q>>, reference), reference)
    <2> DEFINE s == <<p, q>>
    <2>1. s = [i \in DOMAIN s |-> s[i]] /\ \A i \in DOMAIN s : s[i].bins # <<>>
        BY <1>4, <1>5, <1>11 DEF CountsOf
    <2> HIDE DEF s
    <2>2. P!FeatureResult(s, reference)
          = Verdict(Counts(s), Missing(s), Finites(s), Outside(s), P!AddBins(s, reference), reference)
        BY <2>1, VerdictOfSums
    <2> QED BY <2>2 DEF s
<1>9. P!FeatureResult(<<r>>, reference)
      = Verdict(Counts(<<r>>), Missing(<<r>>), Finites(<<r>>), Outside(<<r>>),
                P!AddBins(<<r>>, reference), reference)
    <2> DEFINE s == <<r>>
    <2>1. s = [i \in DOMAIN s |-> s[i]] /\ \A i \in DOMAIN s : s[i].bins # <<>>
        BY <1>4, <1>5, <1>11 DEF CountsOf
    <2> HIDE DEF s
    <2>2. P!FeatureResult(s, reference)
          = Verdict(Counts(s), Missing(s), Finites(s), Outside(s), P!AddBins(s, reference), reference)
        BY <2>1, VerdictOfSums
    <2> QED BY <2>2 DEF s
<1>10. P!FeatureResult(<<p, q>>, reference) = P!FeatureResult(<<r>>, reference)
    BY <1>6, <1>7, <1>8, <1>9
<1> QED BY <1>10 DEF P!SplitsAgree, p, q, r, both

-----------------------------------------------------------------------------
(* Splits of labels *)

HeldTogether(profiles, l) == P!SumFunction([i \in DOMAIN profiles |-> P!Held(profiles[i], l)])
SamplesOf(profiles) == P!SumFunction([i \in DOMAIN profiles |-> profiles[i].count])
OthersOf(profiles) == P!SumFunction([i \in DOMAIN profiles |-> profiles[i].other])
LabelsOf(profiles) == UNION {DOMAIN profiles[i].classes : i \in DOMAIN profiles}

\* How far two counts are apart, of so many samples.
Apart(a, b, count, reference) ==
    LET d == a * count - b * reference.count IN IF d < 0 THEN -d ELSE d

\* What a prediction result says of these sums.
LabelVerdict(count, labels, held, other, reference) ==
    IF count < Minimum THEN "insufficient_data"
    ELSE P!Severity(((P!SumFunction([l \in DOMAIN reference.classes \cup labels |->
                            Apart(P!Held(reference, l), held[l], count, reference)])
                      + Apart(reference.other, other, count, reference)) * 1000)
                    \div (2 * count * reference.count))

HeldOver(profiles, reference) ==
    [l \in DOMAIN reference.classes \cup LabelsOf(profiles) |-> HeldTogether(profiles, l)]

LEMMA LabelVerdictOfSums ==
    ASSUME NEW profiles, NEW reference
    PROVE  P!ClassificationPredictionResult(profiles, reference)
           = LabelVerdict(SamplesOf(profiles), LabelsOf(profiles), HeldOver(profiles, reference),
                          OthersOf(profiles), reference)
<1> DEFINE labels == DOMAIN reference.classes \cup LabelsOf(profiles)
           count == SamplesOf(profiles)
           f == [l \in labels |-> Apart(P!Held(reference, l), HeldTogether(profiles, l), count, reference)]
           g == [l \in labels |-> Apart(P!Held(reference, l), HeldOver(profiles, reference)[l],
                                        count, reference)]
<1>1. f = g
    BY DEF HeldOver
<1>2. P!ClassificationPredictionResult(profiles, reference)
      = IF count < Minimum THEN "insufficient_data"
        ELSE P!Severity(((P!SumFunction(f) + Apart(reference.other, OthersOf(profiles), count, reference))
                         * 1000) \div (2 * count * reference.count))
    BY DEF P!ClassificationPredictionResult, P!Total, SamplesOf, LabelsOf, OthersOf, HeldTogether, Apart
<1>3. LabelVerdict(SamplesOf(profiles), LabelsOf(profiles), HeldOver(profiles, reference),
                   OthersOf(profiles), reference)
      = IF count < Minimum THEN "insufficient_data"
        ELSE P!Severity(((P!SumFunction(g) + Apart(reference.other, OthersOf(profiles), count, reference))
                         * 1000) \div (2 * count * reference.count))
    BY DEF LabelVerdict
<1> HIDE DEF f, g, count
<1> QED BY <1>1, <1>2, <1>3

\* When there are no more labels than a profile keeps, it keeps the count of each.
LEMMA AllLabelsKept ==
    ASSUME NEW labels \in Seq(Int), MaxLabels \in Int, Cardinality(P!ToSet(labels)) <= MaxLabels,
           NEW profile, profile = P!ClassificationProfile(labels)
    PROVE  /\ profile.count = Len(labels)
           /\ profile.other = 0
           /\ DOMAIN profile.classes = P!ToSet(labels)
           /\ \A l \in Int : P!Held(profile, l) = CountIn(labels, {l})
<1> DEFINE before(a, b) == \/ P!CountOf(a, labels) > P!CountOf(b, labels)
                           \/ P!CountOf(a, labels) = P!CountOf(b, labels) /\ a < b
           S == P!ToSet(labels)
           retained == {a \in S : P!Cardinality({b \in S : before(b, a)}) < MaxLabels}
<1>1. \A V : P!Cardinality(V) = Cardinality(V)
    BY DEF P!Cardinality, Cardinality
<1>2. S \subseteq Int
    BY DEF P!ToSet
<1>3. IsFiniteSet(S) /\ Cardinality(S) \in Nat
    <2>1. labels \in Seq(Int) /\ Len(labels) \in Nat /\ DOMAIN labels = 1 .. Len(labels)
        OBVIOUS
    <2>2. IsFiniteSet(DOMAIN labels)
        BY <2>1, FS_Interval
    <2>3. S = {labels[i] : i \in DOMAIN labels}
        BY DEF P!ToSet
    <2> DEFINE f == [i \in DOMAIN labels |-> labels[i]]
    <2>4. f \in Surjection(DOMAIN labels, S)
        BY <2>3 DEF Surjection
    <2> HIDE DEF f, S
    <2> QED BY <2>2, <2>4, FS_Surjection, FS_CardinalityType
<1>4. \A l \in Int : P!CountOf(l, labels) = CountIn(labels, {l}) /\ CountIn(labels, {l}) \in Int
    <2> SUFFICES ASSUME NEW l \in Int
                 PROVE  P!CountOf(l, labels) = CountIn(labels, {l}) /\ CountIn(labels, {l}) \in Int
        OBVIOUS
    <2>1. {i \in DOMAIN labels : labels[i] = l} = {i \in DOMAIN labels : labels[i] \in {l}}
        OBVIOUS
    <2>2. P!CountOf(l, labels) = CountIn(labels, {l})
        BY <1>1, <2>1 DEF P!CountOf, CountIn
    <2>3. CountIn(labels, {l}) \in Nat
        BY CountOfBoth
    <2> QED BY <2>2, <2>3
<1>5. ASSUME NEW a \in S PROVE P!Cardinality({b \in S : before(b, a)}) < MaxLabels
    <2> DEFINE T == {b \in S : before(b, a)}
    <2>1. a \notin T
        <3>1. P!CountOf(a, labels) \in Int /\ a \in Int
            BY <1>2, <1>4
        <3> HIDE DEF S
        <3> QED BY <3>1
    <2>2. T \subseteq S /\ T # S
        BY <2>1
    <2> HIDE DEF T, S
    <2>3. Cardinality(T) < Cardinality(S)
        <3>1. Cardinality(T) <= Cardinality(S) /\ (Cardinality(T) = Cardinality(S) => T = S)
            BY <1>3, <2>2, FS_Subset
        <3>2. Cardinality(T) \in Nat
            BY <1>3, <2>2, FS_Subset, FS_CardinalityType
        <3> QED BY <3>1, <3>2, <1>3, <2>2
    <2>4. Cardinality(T) \in Nat
        BY <1>3, <2>2, FS_Subset, FS_CardinalityType
    <2>5. Cardinality(S) <= MaxLabels
        BY DEF S
    <2>6. Cardinality(T) < MaxLabels
        BY <2>3, <2>4, <2>5, <1>3
    <2> QED BY <2>6, <1>1 DEF T
<1>6. retained = S
    <2> HIDE DEF before, S
    <2> QED BY <1>5
<1> DEFINE rest == [a \in S \ retained |-> P!CountOf(a, labels)]
<1>7. P!SumFunction(rest) = 0
    <2>1. DOMAIN rest = {}
        BY <1>6
    <2> HIDE DEF rest
    <2> QED BY <2>1, SumOfFew
<1>8. profile = [count |-> Len(labels), classes |-> [a \in retained |-> P!CountOf(a, labels)],
                 other |-> P!SumFunction(rest)]
    BY DEF P!ClassificationProfile
<1>9. /\ profile.count = Len(labels)
      /\ profile.classes = [a \in S |-> P!CountOf(a, labels)]
      /\ profile.other = 0
    <2> HIDE DEF retained, rest, S
    <2> QED BY <1>6, <1>7, <1>8
<1>10. ASSUME NEW l \in Int PROVE P!Held(profile, l) = CountIn(labels, {l})
    <2>1. CASE l \in S
        BY <2>1, <1>4, <1>9 DEF P!Held
    <2>2. CASE l \notin S
        <3>1. {i \in DOMAIN labels : labels[i] \in {l}} = {}
            BY <2>2 DEF P!ToSet
        <3>2. CountIn(labels, {l}) = 0
            BY <3>1, FS_EmptySet DEF CountIn
        <3>3. P!Held(profile, l) = 0
            BY <2>2, <1>9 DEF P!Held
        <3> QED BY <3>2, <3>3
    <2> QED BY <2>1, <2>2
<1> QED BY <1>9, <1>10

\* What a profile of these labels holds, when there are no more than it keeps.
KeepsLabels(profile, labels) ==
    /\ profile.count = Len(labels)
    /\ profile.other = 0
    /\ DOMAIN profile.classes = P!ToSet(labels)
    /\ \A l \in Int : P!Held(profile, l) = CountIn(labels, {l})

\* The labels of two requests, of any number and in any order, no more than a profile
\* keeps of different ones: the drift of the predictions is that of one request with
\* both (drift.py).
THEOREM SplitsOfLabels ==
    ASSUME NEW first \in Seq(Int), NEW second \in Seq(Int), MaxLabels \in Int,
           Cardinality(P!ToSet(first \o second)) <= MaxLabels,
           NEW labels \in Seq(Int)
    PROVE  P!LabelSplitsAgree(first, second, labels)
<1> DEFINE reference == P!ClassificationProfile(labels)
           both == first \o second
           p == P!ClassificationProfile(first)
           q == P!ClassificationProfile(second)
           r == P!ClassificationProfile(both)
<1>1. both \in Seq(Int) /\ Len(both) = Len(first) + Len(second)
      /\ Len(first) \in Int /\ Len(second) \in Int /\ Len(both) \in Int
    BY ConcatProperties
<1>2. P!ToSet(both) = P!ToSet(first) \cup P!ToSet(second)
    <2>1. both \in Seq(Int) /\ Len(both) = Len(first) + Len(second)
          /\ \A i \in 1 .. Len(both) :
                both[i] = IF i <= Len(first) THEN first[i] ELSE second[i - Len(first)]
        BY ConcatProperties
    <2> DEFINE m == Len(first)
               n == Len(second)
    <2>2. m \in Nat /\ n \in Nat /\ DOMAIN first = 1 .. m /\ DOMAIN second = 1 .. n
          /\ DOMAIN both = 1 .. m + n
        BY <2>1
    <2>3. \A i \in 1 .. m + n : both[i] = IF i <= m THEN first[i] ELSE second[i - m]
        BY <2>1
    <2> HIDE DEF m, n, both
    <2>4. \A i \in 1 .. m + n : i <= m => i \in 1 .. m
        BY <2>2
    <2>5. \A i \in 1 .. m + n : ~(i <= m) => i - m \in 1 .. n
        BY <2>2
    <2>6. \A i \in 1 .. m : i \in 1 .. m + n /\ i <= m
        BY <2>2
    <2>7. \A i \in 1 .. n : i + m \in 1 .. m + n /\ ~(i + m <= m) /\ (i + m) - m = i
        BY <2>2
    <2>8. \A i \in 1 .. m : both[i] = first[i]
        BY <2>3, <2>6
    <2>9. \A i \in 1 .. n : both[i + m] = second[i]
        BY <2>3, <2>7
    <2>10. \A x \in P!ToSet(first) : x \in P!ToSet(both)
        BY <2>2, <2>6, <2>8 DEF P!ToSet
    <2>11. \A x \in P!ToSet(second) : x \in P!ToSet(both)
        BY <2>2, <2>7, <2>9 DEF P!ToSet
    <2>12. \A x \in P!ToSet(both) : x \in P!ToSet(first) \cup P!ToSet(second)
        BY <2>2, <2>3, <2>4, <2>5 DEF P!ToSet
    <2> QED BY <2>10, <2>11, <2>12
<1>3. /\ Cardinality(P!ToSet(both)) <= MaxLabels
      /\ Cardinality(P!ToSet(first)) <= MaxLabels
      /\ Cardinality(P!ToSet(second)) <= MaxLabels
    <2>1. IsFiniteSet(P!ToSet(both)) /\ Cardinality(P!ToSet(both)) \in Nat
        <3>1. Len(both) \in Nat /\ DOMAIN both = 1 .. Len(both)
            BY <1>1
        <3>2. IsFiniteSet(DOMAIN both)
            BY <3>1, FS_Interval
        <3> DEFINE f == [i \in DOMAIN both |-> both[i]]
                   S == P!ToSet(both)
        <3>3. f \in Surjection(DOMAIN both, S)
            BY DEF Surjection, P!ToSet
        <3> HIDE DEF f, S, both
        <3>4. IsFiniteSet(S) /\ Cardinality(S) \in Nat
            BY <3>2, <3>3, FS_Surjection, FS_CardinalityType
        <3> QED BY <3>4 DEF S
    <2>2. ASSUME NEW S, S \subseteq P!ToSet(both) PROVE Cardinality(S) <= MaxLabels
        <3>1. Cardinality(S) <= Cardinality(P!ToSet(both)) /\ IsFiniteSet(S)
            BY <2>1, <2>2, FS_Subset
        <3>2. Cardinality(S) \in Nat
            BY <3>1, FS_CardinalityType
        <3>3. Cardinality(P!ToSet(both)) <= MaxLabels
            OBVIOUS
        <3> HIDE DEF both
        <3> QED BY <3>1, <3>2, <3>3, <2>1
    <2> HIDE DEF both
    <2> QED BY <1>2, <2>2
<1> HIDE DEF both
<1>4. KeepsLabels(p, first) /\ KeepsLabels(q, second) /\ KeepsLabels(r, both)
    BY <1>1, <1>3, AllLabelsKept DEF KeepsLabels
<1> HIDE DEF p, q, r, reference
<1>5. ASSUME NEW l \in Int
      PROVE  /\ P!Held(p, l) = CountIn(first, {l}) /\ P!Held(q, l) = CountIn(second, {l})
             /\ P!Held(r, l) = CountIn(both, {l})
             /\ CountIn(both, {l}) = CountIn(first, {l}) + CountIn(second, {l})
             /\ CountIn(first, {l}) \in Int /\ CountIn(second, {l}) \in Int
             /\ CountIn(both, {l}) \in Int
    <2>1. CountIn(both, {l}) = CountIn(first, {l}) + CountIn(second, {l})
          /\ CountIn(first, {l}) \in Nat /\ CountIn(second, {l}) \in Nat
        BY CountOfBoth DEF both
    <2>2. /\ P!Held(p, l) = CountIn(first, {l}) /\ P!Held(q, l) = CountIn(second, {l})
          /\ P!Held(r, l) = CountIn(both, {l})
        BY <1>4 DEF KeepsLabels
    <2> QED BY <2>1, <2>2
<1>6. DOMAIN <<p, q>> = 1 .. 2 /\ <<p, q>>[1] = p /\ <<p, q>>[2] = q
      /\ DOMAIN <<r>> = 1 .. 1 /\ <<r>>[1] = r
    OBVIOUS
<1>7. SamplesOf(<<p, q>>) = SamplesOf(<<r>>)
    <2> DEFINE f == [i \in DOMAIN <<p, q>> |-> <<p, q>>[i].count]
               g == [i \in DOMAIN <<r>> |-> <<r>>[i].count]
    <2>1. DOMAIN f = 1 .. 2 /\ f[1] = Len(first) /\ f[2] = Len(second)
          /\ DOMAIN g = 1 .. 1 /\ g[1] = Len(both)
        BY <1>4, <1>6 DEF KeepsLabels
    <2> HIDE DEF f, g
    <2>2. P!SumFunction(f) = Len(first) + Len(second) /\ P!SumFunction(g) = Len(both)
        BY <1>1, <2>1, SumOfFew
    <2> QED BY <1>1, <2>2 DEF SamplesOf, f, g
<1>8. OthersOf(<<p, q>>) = OthersOf(<<r>>)
    <2> DEFINE f == [i \in DOMAIN <<p, q>> |-> <<p, q>>[i].other]
               g == [i \in DOMAIN <<r>> |-> <<r>>[i].other]
    <2>1. DOMAIN f = 1 .. 2 /\ f[1] = 0 /\ f[2] = 0 /\ DOMAIN g = 1 .. 1 /\ g[1] = 0
        BY <1>4, <1>6 DEF KeepsLabels
    <2> HIDE DEF f, g
    <2>5. f[1] \in Int /\ f[2] \in Int /\ g[1] \in Int
        BY <2>1
    <2>2. P!SumFunction(f) = f[1] + f[2]
        BY <2>1, <2>5, SumOfFew, Zenon
    <2>3. P!SumFunction(g) = g[1]
        BY <2>1, <2>5, SumOfFew, Zenon
    <2>4. f[1] + f[2] = g[1]
        BY <2>1
    <2> QED BY <2>2, <2>3, <2>4 DEF OthersOf, f, g
<1>9. LabelsOf(<<p, q>>) = LabelsOf(<<r>>)
    <2>1. LabelsOf(<<r>>) = P!ToSet(both)
        BY <1>4, <1>6 DEF LabelsOf, KeepsLabels
    <2>2. LabelsOf(<<p, q>>) = P!ToSet(first) \cup P!ToSet(second)
        <3>1. \A i \in DOMAIN <<p, q>> : i = 1 \/ i = 2
            BY <1>6
        <3>2. 1 \in DOMAIN <<p, q>> /\ 2 \in DOMAIN <<p, q>>
            BY <1>6
        <3>3. DOMAIN <<p, q>>[1].classes = P!ToSet(first)
              /\ DOMAIN <<p, q>>[2].classes = P!ToSet(second)
            BY <1>4, <1>6 DEF KeepsLabels
        <3> QED BY <3>1, <3>2, <3>3 DEF LabelsOf
    <2> QED BY <2>1, <2>2, <1>2
<1>10. HeldOver(<<p, q>>, reference) = HeldOver(<<r>>, reference)
    <2> DEFINE names == DOMAIN reference.classes \cup LabelsOf(<<r>>)
    <2>1. names \subseteq Int
        <3>1. \A s \in Seq(Int) : P!ToSet(s) \subseteq Int
            BY DEF P!ToSet
        <3>2. DOMAIN reference.classes \subseteq Int
            <4>1. DOMAIN reference.classes \subseteq P!ToSet(labels)
                BY DEF P!ClassificationProfile, reference
            <4> QED BY <3>1, <4>1
        <3>3. LabelsOf(<<r>>) = P!ToSet(both)
            BY <1>4, <1>6 DEF LabelsOf, KeepsLabels
        <3> QED BY <1>1, <3>1, <3>2, <3>3
    <2>2. ASSUME NEW l \in names PROVE HeldTogether(<<p, q>>, l) = HeldTogether(<<r>>, l)
        <3> DEFINE f == [i \in DOMAIN <<p, q>> |-> P!Held(<<p, q>>[i], l)]
                   g == [i \in DOMAIN <<r>> |-> P!Held(<<r>>[i], l)]
        <3>1. DOMAIN f = 1 .. 2 /\ f[1] = P!Held(p, l) /\ f[2] = P!Held(q, l)
              /\ DOMAIN g = 1 .. 1 /\ g[1] = P!Held(r, l)
            BY <1>6
        <3>2. /\ P!Held(p, l) \in Int /\ P!Held(q, l) \in Int /\ P!Held(r, l) \in Int
              /\ P!Held(r, l) = P!Held(p, l) + P!Held(q, l)
            BY <2>1, <1>5
        <3> HIDE DEF f, g
        <3>3. P!SumFunction(f) = P!Held(p, l) + P!Held(q, l) /\ P!SumFunction(g) = P!Held(r, l)
            BY <3>1, <3>2, SumOfFew
        <3> QED BY <3>2, <3>3 DEF HeldTogether, f, g
    <2> QED BY <1>9, <2>2 DEF HeldOver
<1>11. P!ClassificationPredictionResult(<<p, q>>, reference)
       = P!ClassificationPredictionResult(<<r>>, reference)
    <2>1. ASSUME NEW profiles
          PROVE  P!ClassificationPredictionResult(profiles, reference)
                 = LabelVerdict(SamplesOf(profiles), LabelsOf(profiles),
                                HeldOver(profiles, reference), OthersOf(profiles), reference)
        BY LabelVerdictOfSums
    <2> QED BY <1>7, <1>8, <1>9, <1>10, <2>1
<1> QED BY <1>11 DEF p, q, r, both, reference, P!LabelSplitsAgree

-----------------------------------------------------------------------------
(* Healthy windows *)

LEMMA SumOfIntegers ==
    ASSUME NEW f, IsFiniteSet(DOMAIN f), \A x \in DOMAIN f : f[x] \in Int
    PROVE  P!SumFunction(f) \in Int
<1>1. PICK h : IsSum(h, f, DOMAIN f)
    BY SumExists
<1>2. P!SumFunction(f) = h[DOMAIN f]
    BY <1>1, SumIs
<1> QED BY <1>1, <1>2 DEF IsSum

\* The least of two numbers.
LEMMA LeastOfTwo ==
    ASSUME NEW a \in Int, NEW b \in Int
    PROVE  P!Min({a, b}) = IF a <= b THEN a ELSE b
<1> DEFINE least == IF a <= b THEN a ELSE b
<1>1. least \in {a, b} /\ \A y \in {a, b} : least <= y
    OBVIOUS
<1>2. \A x \in {a, b} : (\A y \in {a, b} : x <= y) => x = least
    OBVIOUS
<1> HIDE DEF least
<1>3. P!Min({a, b}) = least
    BY <1>1, <1>2 DEF P!Min
<1> QED BY <1>3 DEF least

Unhealthy == {"unavailable", "critical", "warning", "insufficient_data"}

\* An evaluation is healthy when no component is anything worse.
LEMMA HealthyIsAllHealthy ==
    ASSUME NEW statuses
    PROVE  IF statuses \cap Unhealthy = {} THEN P!derive_overall_status(statuses) = "healthy"
           ELSE P!derive_overall_status(statuses) \in Unhealthy
<1> DEFINE ranking == <<"unavailable", "critical", "warning", "insufficient_data">>
           held == {i \in DOMAIN ranking : ranking[i] \in statuses}
<1>1. DOMAIN ranking = 1 .. 4 /\ ranking[1] = "unavailable" /\ ranking[2] = "critical"
      /\ ranking[3] = "warning" /\ ranking[4] = "insufficient_data"
    OBVIOUS
<1> HIDE DEF ranking
<1>2. P!derive_overall_status(statuses) = IF held = {} THEN "healthy" ELSE ranking[P!Min(held)]
    BY DEF P!derive_overall_status, ranking
<1>3. \A i \in 1 .. 4 : i = 1 \/ i = 2 \/ i = 3 \/ i = 4
    OBVIOUS
<1>4. \A i \in 1 .. 4 : ranking[i] \in Unhealthy
    BY <1>1, <1>3 DEF Unhealthy
<1>5. statuses \cap Unhealthy = {} <=> held = {}
    <2>1. \A s \in Unhealthy : \E i \in 1 .. 4 : ranking[i] = s
        BY <1>1 DEF Unhealthy
    <2> QED BY <2>1, <1>1, <1>4
<1>6. ASSUME held # {} PROVE P!Min(held) \in 1 .. 4
    <2>1. held \subseteq 1 .. 4
        BY <1>1
    <2>2. \E x \in held : \A y \in held : x <= y
        <3> HIDE DEF held
        <3>1. CASE 1 \in held
            BY <2>1, <3>1
        <3>2. CASE 1 \notin held /\ 2 \in held
            <4>1. \A y \in held : 2 <= y
                BY <2>1, <1>3, <3>2
            <4> QED BY <3>2, <4>1
        <3>3. CASE 1 \notin held /\ 2 \notin held /\ 3 \in held
            <4>1. \A y \in held : 3 <= y
                BY <2>1, <1>3, <3>3
            <4> QED BY <3>3, <4>1
        <3>4. CASE 1 \notin held /\ 2 \notin held /\ 3 \notin held
            <4>1. \A y \in held : y = 4
                BY <2>1, <1>3, <3>4
            <4> QED BY <1>6, <4>1
        <3> QED BY <3>1, <3>2, <3>3, <3>4
    <2> HIDE DEF held
    <2>3. P!Min(held) \in held
        BY <2>2 DEF P!Min
    <2> QED BY <2>1, <2>3
<1> HIDE DEF held
<1> QED BY <1>2, <1>4, <1>5, <1>6

\* A comparison that was made had a histogram in every profile, and readings enough.
LEMMA ComparedIsProfiled ==
    ASSUME NEW profiles, profiles = [i \in DOMAIN profiles |-> profiles[i]], NEW reference
    PROVE  /\ P!FeatureResult(profiles, reference) # "insufficient_data" =>
                /\ \A i \in DOMAIN profiles : profiles[i].bins # <<>>
                /\ ~(Finites(profiles) < Minimum)
           /\ P!RegressionPredictionResult(profiles, reference) # "insufficient_data" =>
                /\ \A i \in DOMAIN profiles : profiles[i].bins # <<>>
                /\ ~(Finites(profiles) < Minimum)
<1>1. ASSUME P!FeatureResult(profiles, reference) # "insufficient_data"
      PROVE  /\ \A i \in DOMAIN profiles : profiles[i].bins # <<>>
             /\ ~(Finites(profiles) < Minimum)
    <2>1. \A i \in DOMAIN profiles : profiles[i].bins # <<>>
        BY <1>1 DEF P!FeatureResult, P!NotCompared
    <2>2. P!FeatureResult(profiles, reference)
          = Verdict(Counts(profiles), Missing(profiles), Finites(profiles), Outside(profiles),
                    P!AddBins(profiles, reference), reference)
        BY <2>1, VerdictOfSums
    <2> QED BY <1>1, <2>1, <2>2 DEF Verdict
<1>2. P!combine_numeric_summaries(profiles).finite = Finites(profiles)
    BY DEF P!combine_numeric_summaries, P!Total, Finites
<1>3. P!RegressionPredictionResult(profiles, reference) # "insufficient_data" =>
        /\ \A i \in DOMAIN profiles : profiles[i].bins # <<>>
        /\ ~(Finites(profiles) < Minimum)
    BY <1>2 DEF P!RegressionPredictionResult, P!NotCompared
<1> QED BY <1>1, <1>3

\* The prediction events of a window, with readings of any values and number.
PredictionEvent ==
    [succeeded : BOOLEAN, columns : Seq(Seq(Int)), predictions : Seq(Int), profiled : BOOLEAN]

LEMMA FinitesAreCounts ==
    ASSUME NEW values \in Seq(Int)
    PROVE  P!NumericSummary(values).finite \in Int
<1> DEFINE f == P!Cardinality({i \in DOMAIN values : P!Finite(values[i])})
           r == P!NumericSummary(values)
<1>1. PICK c, m, k : r = [count |-> c, missing |-> m, finite |-> f, constant |-> k]
    BY Zenon DEF P!NumericSummary
<1>2. f \in Int
    <2> DEFINE S == {i \in DOMAIN values : P!Finite(values[i])}
    <2>1. Len(values) \in Nat /\ DOMAIN values = 1 .. Len(values)
        OBVIOUS
    <2>2. IsFiniteSet(DOMAIN values) /\ S \subseteq DOMAIN values
        BY <2>1, FS_Interval
    <2> HIDE DEF S
    <2>3. Cardinality(S) \in Nat
        BY <2>2, FS_Subset, FS_CardinalityType
    <2> QED BY <2>3 DEF S, P!Cardinality, Cardinality
<1> HIDE DEF r, f
<1>3. r.finite = f
    BY <1>1
<1> QED BY <1>2, <1>3 DEF r

LEMMA ProfileFields ==
    ASSUME NEW values, NEW reference, NEW profiled
    PROVE  /\ P!ColumnProfile(values, reference, profiled).summary = P!NumericSummary(values)
           /\ ~profiled => P!ColumnProfile(values, reference, profiled).bins = <<>>
  BY DEF P!ColumnProfile

\* Windows of any events: one is healthy only if the successful events that are looked at
\* were captured against the reference, with readings enough of every feature and of the
\* predictions (drift.py, evaluation_service.py).
THEOREM HealthyCompared ==
    ASSUME NEW window \in Seq(PredictionEvent), NEW features, NEW predictions,
           MaxEvents \in Nat, Minimum \in Int
    PROVE  P!HealthyIsCompared(window, features, predictions)
<1> SUFFICES ASSUME P!calculate(window, features, predictions, FALSE).overall = "healthy"
             PROVE  LET succeeded == {e \in DOMAIN window : e <= MaxEvents /\ window[e].succeeded}
                    IN /\ \A e \in succeeded : window[e].profiled
                       /\ \A i \in DOMAIN features :
                            P!SumFunction([e \in succeeded |->
                                P!NumericSummary(window[e].columns[i]).finite]) >= Minimum
                       /\ P!SumFunction([e \in succeeded |->
                                P!NumericSummary(window[e].predictions).finite]) >= Minimum
    BY DEF P!HealthyIsCompared
<1> DEFINE succeeded == {e \in DOMAIN window : e <= MaxEvents /\ window[e].succeeded}
           looked == P!list_window_events(window)
           successful == P!Restrict(looked, {e \in DOMAIN looked : looked[e].succeeded})
           drift == P!detect(looked, features, predictions)
<1>1. \A e \in DOMAIN window : /\ window[e].columns \in Seq(Seq(Int))
                               /\ window[e].predictions \in Seq(Int)
    <2>1. \A e \in DOMAIN window : window[e] \in PredictionEvent
        OBVIOUS
    <2>2. \A x \in PredictionEvent : x.columns \in Seq(Seq(Int)) /\ x.predictions \in Seq(Int)
        BY DEF PredictionEvent
    <2> QED BY <2>1, <2>2
<1>2. DOMAIN successful = succeeded /\ \A e \in succeeded : successful[e] = window[e]
    <2> DEFINE n == Len(window)
               m == P!Min({n, MaxEvents})
    <2>1. n \in Nat /\ DOMAIN window = 1 .. n
        OBVIOUS
    <2>2. m = (IF n <= MaxEvents THEN n ELSE MaxEvents)
        <3>1. n \in Int /\ MaxEvents \in Int
            BY <2>1
        <3> HIDE DEF n
        <3> QED BY <3>1, LeastOfTwo
    <2>3. m \in Nat /\ m <= n /\ \A e \in 1 .. n : e <= m <=> e <= MaxEvents
        <3> HIDE DEF n, m
        <3> QED BY <2>1, <2>2
    <2>4. looked = SubSeq(window, 1, m)
        BY DEF P!list_window_events
    <2>5. DOMAIN looked = 1 .. m /\ \A e \in 1 .. m : looked[e] = window[e]
        <3> HIDE DEF m, n
        <3> QED BY <2>1, <2>3, <2>4
    <2>6. \A e : e \in 1 .. m <=> (e \in 1 .. n /\ e <= MaxEvents)
        <3> HIDE DEF m, n
        <3> QED BY <2>1, <2>3
    <2> HIDE DEF m, n, looked
    <2>7. {e \in DOMAIN looked : looked[e].succeeded} = succeeded
        BY <2>1, <2>5, <2>6
    <2>8. successful = [e \in succeeded |-> looked[e]]
        BY <2>7 DEF P!Restrict
    <2>9. \A e \in succeeded : looked[e] = window[e]
        BY <2>1, <2>5, <2>6
    <2> HIDE DEF succeeded, successful
    <2> QED BY <2>8, <2>9
<1>3. IsFiniteSet(succeeded) /\ succeeded \subseteq DOMAIN window
    <2>1. Len(window) \in Nat /\ DOMAIN window = 1 .. Len(window)
        OBVIOUS
    <2>2. IsFiniteSet(DOMAIN window) /\ succeeded \subseteq DOMAIN window
        BY <2>1, FS_Interval
    <2> HIDE DEF succeeded
    <2> QED BY <2>2, FS_Subset
<1>4. /\ \A i \in DOMAIN features :
            P!FeatureResult(P!FeatureProfiles(successful, i, features[i]), features[i])
            # "insufficient_data"
      /\ P!RegressionPredictionResult(P!PredictionProfiles(successful, predictions), predictions)
         # "insufficient_data"
    <2>1. \E a, b, c, d : P!calculate(window, features, predictions, FALSE)
                          = P!Report(a, P!feature_status(drift.features),
                                     P!drift_status(drift.prediction), b, c, d)
        BY Zenon DEF P!calculate
    <2>3. PICK a, b : P!derive_overall_status({a, P!feature_status(drift.features),
                                               P!drift_status(drift.prediction), b}) = "healthy"
        <3> HIDE DEF drift
        <3>1. PICK a, b, c, d : P!calculate(window, features, predictions, FALSE)
                                = P!Report(a, P!feature_status(drift.features),
                                           P!drift_status(drift.prediction), b, c, d)
            BY <2>1, Zenon
        <3>2. P!derive_overall_status({a, P!feature_status(drift.features),
                                       P!drift_status(drift.prediction), b}) = "healthy"
            <4> DEFINE f == P!feature_status(drift.features)
                       p == P!drift_status(drift.prediction)
            <4>1. P!Report(a, f, p, b, c, d).overall = P!derive_overall_status({a, f, p, b})
                <5> HIDE DEF f, p
                <5> QED BY DEF P!Report
            <4>2. P!Report(a, f, p, b, c, d).overall = "healthy"
                BY <3>1, Zenon
            <4> QED BY <4>1, <4>2, Zenon
        <3> QED BY <3>2, Zenon
    <2>4. /\ P!feature_status(drift.features) \notin Unhealthy
          /\ P!drift_status(drift.prediction) \notin Unhealthy
        <3> DEFINE s == {a, P!feature_status(drift.features), P!drift_status(drift.prediction), b}
        <3>1. P!derive_overall_status(s) \notin Unhealthy
            BY <2>3 DEF Unhealthy
        <3> HIDE DEF s
        <3>2. s \cap Unhealthy = {}
            BY <3>1, HealthyIsAllHealthy
        <3> QED BY <3>2 DEF s
    <2>5. \A s : P!drift_status(s) \notin Unhealthy => s # "insufficient_data"
        BY DEF P!drift_status, Unhealthy
    <2>6. \A s \in drift.features : P!drift_status(s) \notin Unhealthy
        <3> DEFINE t == {P!drift_status(s) : s \in drift.features}
        <3>1. P!derive_overall_status(t) \notin Unhealthy
            BY <2>4 DEF P!feature_status
        <3> HIDE DEF t, drift
        <3>2. t \cap Unhealthy = {}
            BY <3>1, HealthyIsAllHealthy
        <3> QED BY <3>2 DEF t
    <2>7. /\ drift.features
             = {P!FeatureResult(P!FeatureProfiles(successful, i, features[i]), features[i]) :
                    i \in DOMAIN features}
          /\ drift.prediction
             = P!RegressionPredictionResult(P!PredictionProfiles(successful, predictions), predictions)
        BY DEF P!detect
    <2> HIDE DEF drift, successful
    <2> QED BY <2>4, <2>5, <2>6, <2>7
<1> HIDE DEF successful, looked, drift
<1>5. /\ \A e \in succeeded : window[e].profiled
      /\ P!SumFunction([e \in succeeded |-> P!NumericSummary(window[e].predictions).finite]) >= Minimum
    <2> DEFINE profiles == P!PredictionProfiles(successful, predictions)
               f == [e \in succeeded |-> P!NumericSummary(window[e].predictions).finite]
    <2>1. profiles = [e \in succeeded |->
                        P!ColumnProfile(window[e].predictions, predictions, window[e].profiled)]
        BY <1>2 DEF P!PredictionProfiles
    <2>2. /\ profiles = [e \in DOMAIN profiles |-> profiles[e]]
          /\ DOMAIN profiles = succeeded
          /\ \A e \in succeeded : profiles[e]
                = P!ColumnProfile(window[e].predictions, predictions, window[e].profiled)
        <3> HIDE DEF profiles, succeeded
        <3> QED BY <2>1
    <2>3. P!RegressionPredictionResult(profiles, predictions) # "insufficient_data"
        BY <1>4
    <2> HIDE DEF profiles
    <2>4. (\A e \in succeeded : profiles[e].bins # <<>>) /\ ~(Finites(profiles) < Minimum)
        BY <2>2, <2>3, ComparedIsProfiled
    <2>5. \A e \in succeeded : window[e].profiled
        BY <2>2, <2>4, ProfileFields
    <2>6. Finites(profiles) = P!SumFunction(f)
        <3>1. \A e \in succeeded : profiles[e].summary.finite = f[e]
            BY <2>2, ProfileFields
        <3>2. [e \in DOMAIN profiles |-> profiles[e].summary.finite] = f
            <4> HIDE DEF succeeded
            <4> QED BY <2>2, <3>1
        <3> HIDE DEF f
        <3> QED BY <3>2 DEF Finites
    <2>7. DOMAIN f = succeeded /\ \A e \in succeeded : f[e] \in Int
        BY <1>1, <1>3, FinitesAreCounts
    <2>8. P!SumFunction(f) \in Int
        <3> HIDE DEF f, succeeded
        <3> QED BY <2>7, <1>3, SumOfIntegers
    <2>9. P!SumFunction(f) >= Minimum
        <3> HIDE DEF f, succeeded
        <3> QED BY <2>4, <2>6, <2>8
    <2> QED BY <2>5, <2>9
<1>6. ASSUME NEW i \in DOMAIN features
      PROVE  P!SumFunction([e \in succeeded |-> P!NumericSummary(window[e].columns[i]).finite])
             >= Minimum
    <2> DEFINE profiles == P!FeatureProfiles(successful, i, features[i])
               f == [e \in succeeded |-> P!NumericSummary(window[e].columns[i]).finite]
    <2>1. profiles = [e \in succeeded |->
                        IF i \in DOMAIN window[e].columns
                        THEN P!ColumnProfile(window[e].columns[i], features[i], window[e].profiled)
                        ELSE P!ColumnProfile(<<>>, features[i], FALSE)]
        BY <1>2 DEF P!FeatureProfiles
    <2>2. /\ profiles = [e \in DOMAIN profiles |-> profiles[e]]
          /\ DOMAIN profiles = succeeded
          /\ \A e \in succeeded : profiles[e]
                = IF i \in DOMAIN window[e].columns
                  THEN P!ColumnProfile(window[e].columns[i], features[i], window[e].profiled)
                  ELSE P!ColumnProfile(<<>>, features[i], FALSE)
        <3> HIDE DEF profiles, succeeded
        <3> QED BY <2>1
    <2>3. P!FeatureResult(profiles, features[i]) # "insufficient_data"
        BY <1>4
    <2> HIDE DEF profiles
    <2>4. (\A e \in succeeded : profiles[e].bins # <<>>) /\ ~(Finites(profiles) < Minimum)
        BY <2>2, <2>3, ComparedIsProfiled
    <2>5. \A e \in succeeded : i \in DOMAIN window[e].columns
        <3> HIDE DEF succeeded
        <3>1. P!ColumnProfile(<<>>, features[i], FALSE).bins = <<>>
            BY ProfileFields
        <3> QED BY <2>2, <2>4, <3>1
    <2>6. Finites(profiles) = P!SumFunction(f)
        <3>1. \A e \in succeeded : profiles[e].summary.finite = f[e]
            <4> SUFFICES ASSUME NEW e \in succeeded PROVE profiles[e].summary.finite = f[e]
                OBVIOUS
            <4>1. profiles[e] = P!ColumnProfile(window[e].columns[i], features[i], window[e].profiled)
                BY <2>2, <2>5
            <4>2. f[e] = P!NumericSummary(window[e].columns[i]).finite
                OBVIOUS
            <4> HIDE DEF f, succeeded
            <4> QED BY <4>1, <4>2, ProfileFields
        <3>2. [e \in DOMAIN profiles |-> profiles[e].summary.finite] = f
            <4> HIDE DEF succeeded
            <4> QED BY <2>2, <3>1
        <3> HIDE DEF f
        <3> QED BY <3>2 DEF Finites
    <2>7. DOMAIN f = succeeded /\ \A e \in succeeded : f[e] \in Int
        <3>1. \A e \in succeeded : window[e].columns[i] \in Seq(Int)
            BY <1>1, <1>3, <2>5
        <3> QED BY <3>1, FinitesAreCounts
    <2>8. P!SumFunction(f) \in Int
        <3> HIDE DEF f, succeeded
        <3> QED BY <2>7, <1>3, SumOfIntegers
    <2>9. P!SumFunction(f) >= Minimum
        <3> HIDE DEF f, succeeded
        <3> QED BY <2>4, <2>6, <2>8
    <2> QED BY <2>9
<1> QED BY <1>5, <1>6

-----------------------------------------------------------------------------
(* The inputs of the runs *)

LEMMA InputsAreReadings ==
    /\ \A n \in Nat : P!SeqOf(Readings, n) \subseteq Seq(Int)
    /\ \A n \in Nat : P!SeqOf({0, 1}, n) \subseteq Seq({0, 1})
    /\ \A n \in Nat : P!SeqOf(EventsOf, n) \subseteq Seq(PredictionEvent)
<1>1. \A S, n : n \in Nat => P!SeqOf(S, n) \subseteq Seq(S)
    BY SeqDef DEF P!SeqOf
<1>2. Readings \subseteq Int
    BY DEF Readings, P!NaN, P!Infinite
<1>3. EventsOf \subseteq PredictionEvent
    <2>1. Rows \subseteq Seq(Int)
        BY DEF Rows, P!NaN
    <2> DEFINE columns == {<<values>> : values \in Rows} \cup {<<>>}
               predictions == {<<1>>, <<1, 2>>, <<3>>}
    <2>2. columns \subseteq Seq(Seq(Int)) /\ predictions \subseteq Seq(Int)
        <3>1. predictions \subseteq Seq(Int)
            OBVIOUS
        <3> DEFINE S == Seq(Int)
        <3> HIDE DEF S
        <3>2. \A values \in S : <<values>> \in Seq(S)
            OBVIOUS
        <3>3. <<>> \in Seq(S)
            OBVIOUS
        <3>4. columns \subseteq Seq(S)
            BY <2>1, <3>2, <3>3 DEF S
        <3> QED BY <3>1, <3>4 DEF S
    <2>3. EventsOf = [succeeded : BOOLEAN, columns : columns, predictions : predictions, profiled : BOOLEAN]
        BY DEF EventsOf
    <2> HIDE DEF columns, predictions
    <2> QED BY <2>2, <2>3 DEF PredictionEvent
<1>4. \A S, T : S \subseteq T => Seq(S) \subseteq Seq(T)
    OBVIOUS
<1> QED BY <1>1, <1>2, <1>3, <1>4

LEMMA ReferenceHasBins ==
    Reference.edges \in Seq(Int) /\ DOMAIN Reference.bins \subseteq 1 .. Len(Reference.edges) + 1
<1> DEFINE edges == <<1, 2>>
           bins == P!HistogramCounts(<<1, 2>>, edges)
<1>1. PICK s, a, b : Reference = [edges |-> edges, bins |-> bins, summary |-> s, minimum |-> a, maximum |-> b]
    BY Zenon DEF Reference, P!NumericReference
<1>2. edges \in Seq(Int) /\ DOMAIN bins = 1 .. Len(edges) + 1
    BY DEF P!HistogramCounts
<1> HIDE DEF edges, bins
<1>3. Reference.edges = edges /\ Reference.bins = bins
    BY <1>1
<1> QED BY <1>2, <1>3

InputKnown == input \in {System} \cup Inputs

LEMMA ReportsSound == ASSUME InputKnown PROVE ReportsAreSound
<1> USE ReportsAssumption DEF P!ReportConstants
<1>0. System.kind = "system"
    BY DEF System
<1>1. ASSUME input.kind = "columns" PROVE input.first \in Seq(Int) /\ input.second \in Seq(Int)
    BY <1>0, <1>1, InputsAreReadings DEF InputKnown, Inputs
<1>2. ASSUME input.kind = "labels" PROVE input.first \in Seq({0, 1}) /\ input.second \in Seq({0, 1})
    BY <1>0, <1>2, InputsAreReadings DEF InputKnown, Inputs
<1>3. ASSUME input.kind = "window" PROVE input.events \in Seq(PredictionEvent)
    BY <1>0, <1>3, InputsAreReadings DEF InputKnown, Inputs
<1>4. ReadingsAreBinned
    <2> SUFFICES ASSUME input.kind = "columns"
                 PROVE  /\ P!EveryReadingIsBinned(input.first \o input.second, <<1, 2>>)
                        /\ P!EveryReadingIsBinned(input.first \o input.second, <<0, 2, 3>>)
        BY DEF ReadingsAreBinned
    <2>1. input.first \o input.second \in Seq(Int)
        BY <1>1, ConcatProperties
    <2>2. Ascending(<<1, 2>>) /\ Ascending(<<0, 2, 3>>)
        BY DEF Ascending
    <2> QED BY <2>1, <2>2, ReadingsBinned
<1>5. input.kind = "columns" => P!SplitsAgree(input.first, input.second, Reference)
    BY <1>1, ReferenceHasBins, SplitsOfColumns
<1>6. ASSUME input.kind = "labels"
      PROVE  P!LabelSplitsAgree(input.first, input.second, <<0, 1, 1>>)
    <2> DEFINE both == input.first \o input.second
    <2>1. input.first \in Seq(Int) /\ input.second \in Seq(Int) /\ <<0, 1, 1>> \in Seq(Int)
        BY <1>2, <1>6
    <2>2. both \in Seq({0, 1})
        BY <1>2, <1>6, ConcatProperties
    <2> HIDE DEF both
    <2>3. P!ToSet(both) \subseteq {0, 1}
        BY <2>2 DEF P!ToSet
    <2>4. Cardinality(P!ToSet(both)) <= 2
        <3>1. IsFiniteSet({0, 1}) /\ Cardinality({0, 1}) = 2
            <4>1. IsFiniteSet({0}) /\ Cardinality({0}) = 1 /\ 1 \notin {0}
                BY FS_Singleton
            <4>2. {0} \cup {1} = {0, 1}
                OBVIOUS
            <4>3. IsFiniteSet({0} \cup {1}) /\ Cardinality({0} \cup {1}) = Cardinality({0}) + 1
                BY <4>1, FS_AddElement
            <4> QED BY <4>1, <4>2, <4>3
        <3> QED BY <3>1, <2>3, FS_Subset
    <2>5. Cardinality(P!ToSet(both)) <= MaxLabels
        <3>1. Cardinality(P!ToSet(both)) \in Nat
            <4>1. IsFiniteSet({0, 1})
                <5>1. {0, 1} = 0 .. 1 /\ 0 \in Int /\ 1 \in Int
                    OBVIOUS
                <5> QED BY <5>1, FS_Interval
            <4> QED BY <4>1, <2>3, FS_Subset, FS_CardinalityType
        <3> QED BY <3>1, <2>4
    <2> DEFINE f == input.first
               s == input.second
               l == <<0, 1, 1>>
    <2>6. MaxLabels \in Int
        OBVIOUS
    <2>7. Cardinality(P!ToSet(f \o s)) <= MaxLabels /\ f \in Seq(Int) /\ s \in Seq(Int) /\ l \in Seq(Int)
        BY <2>1, <2>5 DEF both
    <2> HIDE DEF f, s, l
    <2>8. P!LabelSplitsAgree(f, s, l)
        BY <2>6, <2>7, SplitsOfLabels
    <2> QED BY <2>8 DEF f, s, l
<1>7. HealthyWindowsAreCompared
    <2>1. MaxEvents \in Nat /\ Minimum \in Int
        OBVIOUS
    <2> QED BY <1>3, <2>1, HealthyCompared DEF HealthyWindowsAreCompared
<1> QED BY <1>4, <1>5, <1>6, <1>7 DEF ReportsAreSound, DriftIgnoresBatches

\* Whatever the inputs of the runs: what a report says does not hang on where a reading
\* lies or how the events were batched, and it calls healthy only what it compared
\* (profiles.py, drift.py, evaluation_service.py).
THEOREM ReportsSoundAlways == MCSpec => []ReportsAreSound
<1>1. MCInit => InputKnown
    BY DEF MCInit, InputKnown
<1>2. InputKnown /\ [MCNext]_<<M!vars, input>> => InputKnown'
    BY DEF InputKnown, MCNext
<1>3. InputKnown => ReportsAreSound
    BY ReportsSound
<1> QED BY <1>1, <1>2, <1>3, PTL DEF MCSpec
=============================================================================
