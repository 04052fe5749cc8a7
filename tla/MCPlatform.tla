----------------------------- MODULE MCPlatform -----------------------------
(* Instances for TLC of the parts that everything else stands on, side by side: the
   schema and its migrations, accounts and sessions, the rate limit, the plant with
   guided imports, and sensor uploads.  In the model they share no row, so a behaviour
   is one of either.  Users, companies, requests at rest and jobs to come are
   interchangeable: they are used in order, which takes the place of symmetry sets. *)
EXTENDS SchemaMigrations, DeclaredSchema

CONSTANTS
    ann, c1, r1, Requests,
    Roles, MaxTokens, MaxResets, MaxChanges,
    Limit, Window, Second, MaxTime,
    f1, m1, s1, wide, Factories, Machines, Sensors, Limits, MaxWrites,
    Imports, Mappings, NotANumber, MaxStored,
    k1, k2, UploadKeys, UploadFiles, Bad, j1, Jobs, MaxReadings

ASSUME PlatformAssumption ==
    /\ IsFiniteSet(Users) /\ IsFiniteSet(Requests)
    /\ MaxTokens \in Nat /\ MaxChanges \in Nat /\ MaxWrites \in Nat

ASSUME PlantAssumption ==
    /\ f1 \in Factories /\ m1 \in Machines /\ None \notin Factories \cup Mappings
    /\ {1, 3} \subseteq Limits /\ Limits \subseteq Int

\* The bounds of the settings.
ASSUME LimitAssumption ==
    Limit \in Nat \ {0} /\ Window \in 1 .. 3600 /\ Second \in Nat \ {0} /\ MaxTime \in Nat

VARIABLES part,
          users, tokens, resets, request, changes, unrecorded, died,
          policy, now, bucket, passes, refused,
          factory, machine, sensor, writes, edit, imports, overlapped,
          jobs, readings, upload, singles, overlap, aborted

accountVars == <<users, tokens, resets, request, changes, unrecorded, died>>
limitVars == <<policy, now, bucket, passes, refused>>
importVars == <<factory, machine, sensor, writes, edit, imports, overlapped>>
uploadVars == <<jobs, readings, upload, singles, overlap, aborted>>

\* The plant starts with a machine and a sensor of it.
MCMachineRows ==
    [m \in Machines |-> IF m = m1 THEN [state |-> "live", factory |-> f1, name |-> "press"]
                        ELSE [state |-> "absent", factory |-> None, name |-> None]]

MCSensorRows ==
    [s \in Sensors |->
        IF s = s1 THEN [state |-> "live", machine |-> m1, name |-> "heat", low |-> 1, high |-> 3]
        ELSE [state |-> "absent", machine |-> None, name |-> None, low |-> 0, high |-> 0]]

\* Under one mapping the file has a row with the two ends of the range, under the other
\* two rows of which one has no time.
Measured(value) == [machine |-> "press", sensor |-> "heat", value |-> value]

MCFileRows ==
    [m \in Mappings |->
        IF m = wide THEN << [time |-> TRUE, cells |-> <<Measured(1), Measured(3)>>] >>
        ELSE << [time |-> TRUE, cells |-> <<Measured(2)>>],
                [time |-> FALSE, cells |-> <<Measured(1)>>] >>]

\* A file that repeats a reading in a chunk and in the next and has a bad row, and one
\* that does neither.
MCFiles == {<< <<k1, k1>>, <<k1, Bad>> >>, << <<k1>>, <<k2>> >>}

A == INSTANCE Accounts WITH Founder <- ann
R == INSTANCE RateLimit
G == INSTANCE GuidedImports WITH MachineNames <- {"press"}, SensorNames <- {"heat"},
        MachineRows <- MCMachineRows, SensorRows <- MCSensorRows, FileRows <- MCFileRows,
        request <- edit
U == INSTANCE SensorUploads WITH Keys <- UploadKeys, Files <- UploadFiles, request <- upload

ASSUME UploadAssumption == U!UploadConstants

\* Every part but one stays at an initial state of its own.
MCInit ==
    /\ part \in {"schema", "accounts", "limit", "imports", "uploads"}
    /\ Init /\ A!Init /\ R!Init /\ G!Init /\ U!Init
    /\ part # "accounts" => \A u \in Users \ {ann} : users[u] = A!NoUser
    /\ part # "limit" => policy = "auth"
    /\ part # "imports" => \A f \in Factories : factory[f] = "live"

SchemaInOrder ==
    /\ UserNames' # {} => ann \in UserNames'
    /\ Companies \cap ToSet(database'.companies) # {} => c1 \in ToSet(database'.companies)

\* One request more than a window takes, and than two take.
FewRequests == bucket'.count <= Limit + 2 /\ Cardinality(passes') <= 2 * Limit + 1

MCNext ==
    /\ \/ /\ part = "schema" /\ Next /\ SchemaInOrder
          /\ UNCHANGED <<accountVars, limitVars, importVars, uploadVars>>
       \/ /\ part = "accounts" /\ A!Next
          /\ \A r \in Requests \ {r1} :
               request[r].pc = "free" /\ request'[r] # request[r] => request[r1].pc # "free"
          /\ UNCHANGED <<vars, limitVars, importVars, uploadVars>>
       \/ /\ part = "limit" /\ R!Next /\ FewRequests
          /\ UNCHANGED <<vars, accountVars, importVars, uploadVars>>
       \/ /\ part = "imports" /\ G!Next
          /\ \A r \in Requests \ {r1} :
               edit[r].pc = "free" /\ edit'[r] # edit[r] => edit[r1].pc # "free"
          /\ UNCHANGED <<vars, accountVars, limitVars, uploadVars>>
       \/ /\ part = "uploads" /\ U!Next
          /\ \A r \in Requests \ {r1} :
               upload[r].pc = "free" /\ upload'[r] # upload[r] => upload[r1].pc # "free"
          /\ \A j \in Jobs \ {j1} : jobs'[j].status # "absent" => jobs[j1].status # "absent"
          /\ UNCHANGED <<vars, accountVars, limitVars, importVars>>
    /\ UNCHANGED part

MCSpec == MCInit /\ [][MCNext]_<<vars, accountVars, limitVars, importVars, uploadVars, part>>

-----------------------------------------------------------------------------

IsDeclared(db) == /\ db.tables = DeclaredTables
                  /\ db.refs = DeclaredRefs
                  /\ db.keys = DeclaredKeys

\* A computation too: all upgrades, on an empty database, end at what is declared.
ASSUME HeadAssumption == IsDeclared(Revised[Len(Upgrades)])

(* At the last revision the database has the tables, the references with
   their delete rules, and the unique constraints the ORM declares. *)
HeadIsDeclared == revision = Len(Upgrades) => IsDeclared(database)

\* Of the migrations: whatever the rows, an upgrade or downgrade never stops because of
\* the schema, and the schema is that of the revision, in the end the one declared.
SchemaIsSound == TypeOK /\ SchemaNeverStops /\ SchemaFollowsRevision /\ HeadIsDeclared

\* Of the accounts: a second session comes from one token only through a refresh that
\* read the token before the first rotation was committed, and every change has its
\* entry in the audit trail unless the process died in between.
SessionsAreSound == A!TypeOK /\ A!RotationIsLinear /\ A!TrailIsComplete

\* Of the accounts: a changed password and a deactivation end every session there is, and
\* the last administrator goes only through a request that did not see an active
\* administrator in its target.
AccountsAreGoverned == A!RevocationReaches /\ A!AdministratorRemains

\* Of the rate limit: no interval of a window's length admits more than two limits, and
\* who waits as long as told is admitted.
LimitIsSound == R!IntervalIsBounded /\ R!RetryAfterIsEnough

\* Of the plant and its imports, under overlapping requests: a step that breaks a rule
\* the services check is one that checked it before another request's commit.
EditsAreOrdered ==
    /\ G!OrphansComeLate /\ G!RangesAreOrdered
    /\ G!ValidationPredictsImport /\ G!FinishedStays

\* Of the imports: the rows of a file are stored once.
ImportsAreSound == G!TypeOK /\ G!ImportedOnce

\* Of the uploads: what the jobs count is stored, and stored once.
UploadsAreSound == U!UploadsAreSound

\* Bound: sessions, resets and changes, with those under way, are three together.  A fork
\* of a session takes three, a refresh that races a revocation and the last
\* administrator's loss too.
Writing == {r \in Requests : request[r].pc \notin {"free", "audit"}}

SessionsOrChanges == Len(tokens) + Len(resets) + changes + Cardinality(Writing) <= 3

UnderWay(pcs) == Cardinality({r \in Requests : edit[r].pc \in pcs})

\* Bound: two requests overlap on the plant while there is no import, or on an import
\* while the plant is as it began; otherwise one is under way.
Overlaps ==
    \/ \A i \in Imports : imports[i] = G!NoImport
    \/ UnderWay({"machine", "sensor", "import"}) <= 1 /\ overlapped = {}
    \/ writes = 0 /\ UnderWay({"machine", "sensor"}) = 0

Bounds == SessionsOrChanges /\ Overlaps
=============================================================================
