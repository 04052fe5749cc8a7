---------------------------- MODULE GuidedImports ----------------------------
(***************************************************************************)
(* The guided import of a CSV file (services/guided_data.py and its        *)
(* routes): the file is uploaded, its columns are mapped, the mapped rows  *)
(* are validated against the sensors of the plant, and what passed is      *)
(* stored as readings.  An import is a row that every request reads and    *)
(* writes back without a lock or a version.                                *)
(*                                                                         *)
(* A file is the rows its mappings make of it.  A row is a time, readable  *)
(* or not, and its cells: one in a long file, one for each feature in a    *)
(* wide one.                                                               *)
(***************************************************************************)
EXTENDS Plant, Sequences

CONSTANTS
    Imports,      \* idempotency keys
    Mappings,
    FileRows,       \* the rows of the file under a mapping
    NotANumber,   \* empty, a formula, a word or infinite
    MaxStored     \* bound: how often an import is stored

VARIABLES
    imports,      \* data_imports
    overlapped    \* imports two requests were under way on at once

vars == <<plantVars, request, imports, overlapped>>

NoReport == [mapping |-> None, blocking |-> FALSE, at |-> 0]

\* stored: the mappings whose readings were stored, one for each time.
NoImport == [status |-> "absent", mapping |-> None, report |-> NoReport, stored |-> <<>>]

Finished == {"completed", "partially_completed"}

-----------------------------------------------------------------------------
(* Rows and sensors. *)

\* Live sensors of live machines in live factories.
Reachable ==
    {s \in Sensors : /\ sensor[s].state = "live"
                     /\ machine[sensor[s].machine].state = "live"
                     /\ factory[machine[sensor[s].machine].factory] = "live"}

NameOf(s) == <<machine[sensor[s].machine].name, sensor[s].name>>

\* The sensors by name: of two that share theirs, either may be the one.
_sensor_lookup ==
    {lookup \in [{NameOf(s) : s \in Reachable} -> Reachable] :
        \A name \in DOMAIN lookup : NameOf(lookup[name]) = name}

Ambiguous == \E s, t \in Reachable : s # t /\ NameOf(s) = NameOf(t)

BelowTheLimit(cell, lookup) ==
    /\ <<cell.machine, cell.sensor>> \in DOMAIN lookup
    /\ cell.value # NotANumber
    /\ LET s == lookup[<<cell.machine, cell.sensor>>]
       IN sensor[s].low <= cell.value /\ cell.value < sensor[s].high

Accepted(cell, lookup) ==
    /\ <<cell.machine, cell.sensor>> \in DOMAIN lookup
    /\ cell.value # NotANumber
    /\ LET s == lookup[<<cell.machine, cell.sensor>>]
       IN sensor[s].low <= cell.value /\ cell.value <= sensor[s].high

\* at: the plant that was looked at.  Warnings (duplicates, outliers, gaps, a stale
\* or an unbalanced file) keep no row from being stored and are left out.
_quality(mapping, lookup) ==
    LET rows == FileRows[mapping]
    IN [mapping |-> mapping, at |-> writes,
        blocking |-> \E i \in DOMAIN rows :
            ~rows[i].time \/ \E j \in DOMAIN rows[i].cells : ~Accepted(rows[i].cells[j], lookup)]

StoredCell(cell, lookup) == Accepted(cell, lookup)

\* The rows that are rejected while the readings are built.  Cells before the one
\* that fails are stored all the same.
_records(mapping, lookup) ==
    LET rows == FileRows[mapping]
    IN {i \in DOMAIN rows :
          ~rows[i].time \/ \E j \in DOMAIN rows[i].cells : ~StoredCell(rows[i].cells[j], lookup)}

-----------------------------------------------------------------------------
(* Requests. *)

\* The upload; a second one with the key returns the import.
create ==
    /\ \E i \in Imports :
         /\ imports[i] = NoImport
         /\ imports' = [imports EXCEPT ![i].status = "queued"]
    /\ UNCHANGED <<plantVars, request, overlapped>>

\* A request reads the import and builds the columns it is going to write.
Accept(r, i, new) ==
    /\ Begin(r, Edit("import", i, imports[i], new))
    /\ overlapped' = IF Shared(i) THEN overlapped \cup {i} ELSE overlapped
    /\ UNCHANGED <<plantVars, imports>>

set_mapping(r) ==
    \E i \in Imports, m \in Mappings :
        /\ imports[i].status \in {"queued", "failed"}
        /\ Accept(r, i, [imports[i] EXCEPT !.mapping = m, !.report = NoReport,
                                           !.status = "queued"])

AnyStatus(i) == imports[i].status # "absent"

Open(i) == imports[i].status \notin Finished \cup {"absent"}

validate(r) ==
    \E i \in Imports, lookup \in _sensor_lookup :
        /\ Open(i) /\ imports[i].mapping # None
        /\ Accept(r, i, [imports[i] EXCEPT !.report = _quality(imports[i].mapping, lookup),
                                           !.status = "validated"])

\* Whoever confirms accepts the warnings.
confirm(r) ==
    \E i \in Imports, lookup \in _sensor_lookup :
        /\ Open(i) /\ imports[i].report # NoReport /\ ~imports[i].report.blocking
        /\ Len(imports[i].stored) < MaxStored
        /\ Accept(r, i, [imports[i] EXCEPT
             !.status = IF _records(imports[i].mapping, lookup) = {}
                        THEN "completed" ELSE "partially_completed"])

cancel(r) ==
    \E i \in Imports : Open(i) /\ Accept(r, i, [imports[i] EXCEPT !.status = "cancelled"])

Unqueued(row, read, new) ==
    [Flush(row, read, new) EXCEPT
       !.stored = IF new.status \in Finished THEN Append(row.stored, read.mapping)
                  ELSE row.stored]

\* The status passes through "validating" or "importing" inside the transaction,
\* so that "queued" is written whatever was read; readings come on top.
Written(row, read, new) ==
    LET flushed == Flush(row, read, new)
    IN [flushed EXCEPT
          !.status = IF @ = "validated" THEN "queued" ELSE @,
          !.stored = IF new.status \in Finished THEN Append(row.stored, read.mapping)
                     ELSE row.stored]

commit(r) ==
    /\ request[r].pc = "import"
    /\ imports' = [imports EXCEPT ![request[r].id] = Written(@, request[r].read, request[r].new)]
    /\ Done(r)
    /\ UNCHANGED <<plantVars, overlapped>>

\* The process dies, or the client gives up: the transaction is rolled back.
Abandon(r) ==
    /\ ~Free(r)
    /\ Done(r)
    /\ UNCHANGED <<plantVars, imports, overlapped>>

Init ==
    /\ PlantInit
    /\ request = [r \in Requests |-> NoRequest]
    /\ imports = [i \in Imports |-> NoImport]
    /\ overlapped = {}

Next ==
    \/ create
    \/ PlantNext /\ UNCHANGED <<imports, overlapped>>
    \/ \E r \in Requests :
         set_mapping(r) \/ validate(r) \/ confirm(r) \/ cancel(r) \/ commit(r) \/ Abandon(r)

Spec == Init /\ [][Next]_vars

-----------------------------------------------------------------------------

TypeOK ==
    /\ PlantTypeOK
    /\ \A i \in Imports :
         /\ imports[i].status \in {"absent", "queued", "cancelled"} \cup Finished
         /\ imports[i].mapping \in Mappings \cup {None}
         /\ imports[i].report.mapping \in Mappings \cup {None}
         /\ imports[i].stored \in Seq(Mappings)

\* An import that no two requests worked on at once stores its readings once, with
\* the mapping that was validated, and only if it ends as completed: whatever was
\* mapped, validated, cancelled, abandoned and tried again before.
ImportedOnce ==
    \A i \in Imports \ overlapped :
        imports[i].stored = IF imports[i].status \in Finished
                            THEN <<imports[i].report.mapping>> ELSE <<>>

\* A row that was validated is rejected only because the plant has changed since
\* ("Mapped data changed after validation."), because two sensors answer to one
\* name, or because another request wrote to the import meanwhile.
ValidationPredictsImport ==
    [][\A i \in Imports :
        /\ imports'[i].status = "partially_completed"
        /\ imports[i].status # "partially_completed"
        => imports[i].report.at < writes \/ Ambiguous \/ i \in overlapped]_vars

\* A finished import is not opened again, and a reading not stored twice, except by
\* a request that read the import before it was finished.
FinishedStays ==
    [][\A i \in Imports :
        imports[i].status \in Finished /\ imports'[i] # imports[i] =>
        \E r \in Requests :
            /\ request[r].pc = "import" /\ request[r].id = i /\ request'[r] = NoRequest
            /\ request[r].read.status \notin Finished]_vars
=============================================================================
