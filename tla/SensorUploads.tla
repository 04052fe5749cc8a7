---------------------------- MODULE SensorUploads ----------------------------
(***************************************************************************)
(* Upload jobs and readings (services/sensor_data_etl.py,                  *)
(* services/sensor_data.py, repositories/sensor_data.py and the routes of  *)
(* sensor data).  A CSV file is read in chunks; rows that are unusable, or *)
(* whose sensor and time already have a reading, are counted as invalid.   *)
(* The chunks of a file are one transaction, and the job's start another.  *)
(* Nothing in the database keeps two readings of one sensor and time       *)
(* apart.                                                                  *)
(***************************************************************************)
EXTENDS Naturals, Sequences, FiniteSets, UnitOfWork

CONSTANTS
    Jobs,        \* upload jobs, all of the source CSV
    Keys,        \* a sensor and a time: what a reading is about
    Bad,         \* a row that no sensor can take
    Files,       \* files: sequences of chunks, which are sequences of rows
    Requests,
    MaxReadings  \* bound: readings created one by one

\* A row of a file is about a key or cannot be taken.
UploadConstants == Files \subseteq Seq(Seq(Keys \cup {Bad})) /\ MaxReadings \in Nat

VARIABLES
    jobs,        \* upload_jobs
    readings,    \* committed sensor_readings; nth tells those of a key and a job apart
    request,     \* the local state of every request
    singles,     \* readings created one by one so far
    overlap,     \* two requests were under way at once
    aborted      \* jobs on which an upload ended in an exception

vars == <<jobs, readings, request, singles, overlap, aborted>>

NoJob == [status |-> "absent", total |-> 0, valid |-> 0, invalid |-> 0]

NoRequest == [pc |-> "free"]

Init ==
    /\ jobs = [j \in Jobs |-> NoJob]
    /\ readings = {}
    /\ request = [r \in Requests |-> NoRequest]
    /\ singles = 0 /\ overlap = FALSE /\ aborted = {}

Free(r) == request[r] = NoRequest

Begin(r, record) ==
    /\ Free(r)
    /\ request' = [request EXCEPT ![r] = record]
    /\ overlap' = (overlap \/ \E q \in Requests : ~Free(q))

Done(r) == request' = [request EXCEPT ![r] = NoRequest]

create_upload_job ==
    /\ \E j \in Jobs : jobs[j] = NoJob /\ jobs' = [jobs EXCEPT ![j].status = "PENDING"]
    /\ UNCHANGED <<readings, request, singles, overlap, aborted>>

-----------------------------------------------------------------------------
(* A file. *)

ReadJob(r) ==
    /\ \E j \in Jobs, file \in Files :
         /\ jobs[j].status = "PENDING"
         /\ Begin(r, [pc |-> "start", job |-> j, file |-> file, read |-> jobs[j]])
    /\ UNCHANGED <<jobs, readings, singles, aborted>>

Started == [status |-> "PROCESSING", total |-> 0, valid |-> 0, invalid |-> 0]

start_upload_job(r) ==
    /\ request[r].pc = "start"
    /\ jobs' = [jobs EXCEPT ![request[r].job] = Flush(@, request[r].read, Started)]
    /\ request' = [request EXCEPT ![r] =
                     [pc |-> "chunks", job |-> request[r].job, file |-> request[r].file,
                      mine |-> {}, total |-> 0, invalid |-> 0]]
    /\ UNCHANGED <<readings, singles, overlap, aborted>>

Stored == {row.key : row \in readings}

ReadingRow(key, job) ==
    [key |-> key, job |-> job,
     nth |-> Cardinality({row \in readings : row.key = key /\ row.job = job})]

OnlyTheOwn(own) == own

\* What the transaction sees: its own rows and those that are committed.
get_existing_reading_keys(own) == own \cup Stored

\* The rows of a chunk that become readings: usable, new, and the first of their key.
Deduplicated(chunk, existing) ==
    {i \in DOMAIN chunk : /\ chunk[i] # Bad /\ chunk[i] \notin existing
                          /\ \A h \in 1 .. i - 1 : chunk[h] # chunk[i]}

_process_chunk(r) ==
    /\ request[r].pc = "chunks" /\ request[r].file # <<>>
    /\ LET q == request[r]
           chunk == Head(q.file)
           kept == Deduplicated(chunk, get_existing_reading_keys(q.mine))
       IN request' = [request EXCEPT ![r] =
            [q EXCEPT !.file = Tail(@), !.mine = @ \cup {chunk[i] : i \in kept},
                      !.total = @ + Len(chunk),
                      !.invalid = @ + Len(chunk) - Cardinality(kept)]]
    /\ UNCHANGED <<jobs, readings, singles, overlap, aborted>>

CountsEveryRow(q) == q.total

\* The readings the upload stored.
valid_rows(q) == Cardinality(q.mine)

\* The job is finalized in the transaction of the readings.
finalize_upload_job(r) ==
    /\ request[r].pc = "chunks" /\ request[r].file = <<>>
    /\ LET q == request[r]
           final == [status |-> IF q.invalid = 0 THEN "COMPLETED" ELSE "FAILED",
                     total |-> q.total, valid |-> valid_rows(q), invalid |-> q.invalid]
       IN /\ jobs' = [jobs EXCEPT ![q.job] = Flush(@, Started, final)]
          /\ readings' = readings \cup {ReadingRow(k, q.job) : k \in q.mine}
    /\ Done(r)
    /\ UNCHANGED <<singles, overlap, aborted>>

\* The file cannot be parsed, or a statement fails: what was inserted is rolled
\* back, what was counted is not.
FailUpload(r) ==
    /\ request[r].pc = "chunks" /\ request[r].file # <<>>
    /\ LET q == request[r]
       IN /\ jobs' = [jobs EXCEPT ![q.job] =
                [status |-> "FAILED", total |-> q.total, valid |-> Cardinality(q.mine),
                 invalid |-> IF q.invalid = 0 THEN 1 ELSE q.invalid]]
          /\ aborted' = aborted \cup {q.job}
    /\ Done(r)
    /\ UNCHANGED <<readings, singles, overlap>>

-----------------------------------------------------------------------------
(* One reading. *)

\* Whatever the job's status; it is counted if the reading names it.
ReadBatch(r) ==
    /\ singles < MaxReadings /\ singles' = singles + 1
    /\ \E j \in Jobs, k \in Keys :
         /\ jobs[j].status # "absent"
         /\ Begin(r, [pc |-> "reading", job |-> j, key |-> k, read |-> jobs[j]])
    /\ UNCHANGED <<jobs, readings, aborted>>

increment_upload_job_valid_rows(read) ==
    [read EXCEPT !.total = @ + 1, !.valid = @ + 1]

create_sensor_reading(r) ==
    /\ request[r].pc = "reading"
    /\ LET q == request[r]
       IN /\ jobs' = [jobs EXCEPT ![q.job] =
                        Flush(@, q.read, increment_upload_job_valid_rows(q.read))]
          /\ readings' = readings \cup {ReadingRow(q.key, q.job)}
    /\ Done(r)
    /\ UNCHANGED <<singles, overlap, aborted>>

\* The process dies: a job that was started stays so.
Crash(r) ==
    /\ ~Free(r)
    /\ Done(r)
    /\ UNCHANGED <<jobs, readings, singles, overlap, aborted>>

Next ==
    \/ create_upload_job
    \/ \E r \in Requests :
         \/ ReadJob(r) \/ start_upload_job(r) \/ _process_chunk(r) \/ finalize_upload_job(r)
         \/ FailUpload(r) \/ ReadBatch(r) \/ create_sensor_reading(r) \/ Crash(r)

Spec == Init /\ [][Next]_vars

-----------------------------------------------------------------------------

TypeOK ==
    /\ \A j \in Jobs : jobs[j].status \in {"absent", "PENDING", "PROCESSING", "COMPLETED",
                                           "FAILED"}
    /\ \A row \in readings : row.key \in Keys /\ row.job \in Jobs
    /\ singles \in 0 .. MaxReadings /\ overlap \in BOOLEAN /\ aborted \subseteq Jobs

ReadingsOf(job) == {row \in readings : row.job = job}

\* A job does not count readings that are not stored, however uploads of the one job
\* and single readings interleave, unless an upload of it was aborted.
ReadingsBackTheCounts ==
    \A j \in Jobs \ aborted : jobs[j].valid <= Cardinality(ReadingsOf(j))

\* Uploads add no second reading of a sensor and time, in a file, a chunk or a job,
\* unless two requests overlapped: only a single reading repeats one.
UploadsDoNotRepeat ==
    ~overlap => Cardinality(readings) <= Cardinality(Stored) + singles

\* What the jobs count is stored, and stored once.
UploadsAreSound == TypeOK /\ ReadingsBackTheCounts /\ UploadsDoNotRepeat
=============================================================================
