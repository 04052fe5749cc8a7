-------------------------- MODULE SchemaMigrations --------------------------
(* Alembic over the life of a database: upgrades and downgrades between
   revisions, the rows applications of every revision leave behind, and the
   one transaction alembic/env.py runs a command in. *)
EXTENDS MigrationChain

CONSTANTS Users, Companies, Names,  \* who and what rows are about
          Stops,    \* the revisions a command may name
          RowTables,   \* the tables rows are put into, beside users
          MaxRows      \* how many such rows

ASSUME StopsAssumption == Stops \subseteq 0..Len(Upgrades)

VARIABLES database,   \* see SchemaOps
          revision,   \* alembic_version: the number of the last revision
          command,    \* the command running: its target and where it began
          attempt     \* how the last command ended

vars == <<database, revision, command, attempt>>

NoCommand == [to |-> None]
Schema(db) == [tables |-> db.tables, columns |-> db.columns, refs |-> db.refs,
               keys |-> db.keys, checks |-> db.checks, required |-> db.required]

(* An empty database after the first k upgrades; a set of one database, because
   TLC then computes it before it runs the next script *)
Revised[k \in 0..Len(Upgrades)] ==
    IF k = 0 THEN EmptyDatabase
    ELSE CHOOSE db \in {RunScript(before, Upgrades[k]).db : before \in {Revised[k - 1]}} : TRUE

(* The schema of each revision *)
SchemaAt == [k \in 0..Len(Upgrades) |-> Schema(Revised[k])]

(* Run on a database without rows, the script ends with this schema *)
LeadsTo(db, script, schema) ==
    LET run == RunScript(db, script) IN run.stopped = "no" /\ Schema(run.db) = schema

IsScript(script) == /\ Len(script) \in Nat
                    /\ \A i \in 1..Len(script) : script[i].op \in Operations

(* A computation on the 22 scripts: on an empty database each upgrade runs, and
   the downgrade leads back to the schema before it. *)
ChainIsSound ==
    /\ Revised[0] = EmptyDatabase
    /\ \A k \in 1..Len(Upgrades) :
         \E before \in {Revised[k - 1]}, after \in {Revised[k]} :
            /\ IsDatabase(after) /\ after.rows = {}
            /\ IsScript(Upgrades[k]) /\ IsScript(Downgrades[k])
            /\ LeadsTo(before, Upgrades[k], Schema(after))
            /\ LeadsTo(after, Downgrades[k], Schema(before))

ASSUME ChainAssumption == ChainIsSound

Init == /\ database = EmptyDatabase
        /\ revision = 0
        /\ command = NoCommand
        /\ attempt = [to |-> 0, stopped |-> "no"]

(* alembic upgrade or downgrade begins the transaction of do_run_migrations;
   there is nothing to run when the database is at the target. *)
Begin(to) ==
    /\ command = NoCommand
    /\ to # revision
    /\ command' = [to |-> to, database |-> database, revision |-> revision]
    /\ UNCHANGED <<database, revision, attempt>>

(* One migration of the command.  A statement that fails rolls the whole
   command back; the last migration commits it.  RollBackRevision rolls back the
   number only. *)
RollBackRevision == database' = database /\ revision' = command.revision

RollBack == database' = command.database /\ revision' = command.revision

Migrate(script, next) ==
    LET run == RunScript(database, script) IN
    IF run.stopped # "no"
    THEN /\ RollBack
         /\ command' = NoCommand
         /\ attempt' = [to |-> command.to, stopped |-> run.stopped]
    ELSE /\ database' = run.db
         /\ revision' = next
         /\ command' = IF next = command.to THEN NoCommand ELSE command
         /\ attempt' = IF next = command.to THEN [to |-> next, stopped |-> "no"]
                                            ELSE attempt

Upgrade == /\ command # NoCommand /\ command.to > revision
           /\ Migrate(Upgrades[revision + 1], revision + 1)

Downgrade == /\ command # NoCommand /\ command.to < revision
             /\ Migrate(Downgrades[revision], revision - 1)

(* What applications write.  Cells for the columns the migrations are about *)
Cells(t) ==
    CASE t = "users" -> [id : Users]
      [] t \in {"datasets", "rag_knowledge_bases"} ->
           [owner_user_id : Users, normalized_name : Names]
      [] t = "automl_trials" ->
           [study_id : Users, plugin_id : Algorithms, parameter_fingerprint : Names]
      [] t = "prediction_events" -> [requested_by_user_id : Users, algorithm : Algorithms]
      [] t = "model_reference_profiles" ->
           [training_job_id : Users, registered_model_name : Names, model_version : {1},
            algorithm : Algorithms]
      [] t = "model_retraining_policies" ->
           [created_by_user_id : Users, registered_model_name : Names]

(* The columns that name a user; a study or a job stands for its requester *)
UserColumns == {"owner_user_id", "requested_by_user_id", "created_by_user_id",
                "study_id", "training_job_id"}
Owners(cells) == {cells[c] : c \in DOMAIN cells \intersect UserColumns}

(* A row with the company its owner belongs to, once the table has companies *)
Scoped(t, cells) ==
    IF <<t, "company_id">> \in database.columns
    THEN {Put([table |-> t, cells |-> cells], "company_id", c) :
              c \in IF Owners(cells) = {} THEN ToSet(database.companies)   \* a user
                    ELSE {CompanyOf(database, u) : u \in Owners(cells)}}
    ELSE {[table |-> t, cells |-> cells]}

(* The database accepts a set of rows *)
Accepts(rows) ==
    /\ \A k \in database.keys : KeyHolds(rows, k[1], k[2])
    /\ \A k \in database.checks : CheckHolds(rows, k[1], k[2], k[3])
    /\ \A k \in database.required : NotNullHolds(rows, k[1], k[2])

UserNames == {r.cells["id"] : r \in RowsOf(database, "users")}

CreateCompany(c) ==
    /\ command = NoCommand
    /\ "companies" \in database.tables
    /\ c \notin ToSet(database.companies)
    /\ database' = [database EXCEPT !.companies = Append(@, c)]
    /\ UNCHANGED <<revision, command, attempt>>

Insert(t) ==
    /\ command = NoCommand
    /\ t \in database.tables
    /\ t # "users" => Cardinality(database.rows \ RowsOf(database, "users")) < MaxRows
    /\ \E cells \in Cells(t) :
         /\ Owners(cells) \subseteq UserNames
         /\ t = "users" => cells["id"] \notin UserNames
         /\ \E row \in Scoped(t, cells) :
              /\ Accepts(database.rows \union {row})
              /\ database' = [database EXCEPT !.rows = @ \union {row}]
    /\ UNCHANGED <<revision, command, attempt>>

Next == \/ \E to \in Stops : Begin(to)
        \/ Upgrade
        \/ Downgrade
        \/ \E c \in Companies : CreateCompany(c)
        \/ \E t \in RowTables \union {"users"} : Insert(t)

Spec == Init /\ [][Next]_vars
-----------------------------------------------------------------------------
(* The state of a database between and during commands *)
TypeOK == /\ revision \in 0..Len(Upgrades)
          /\ attempt \in [to : 0..Len(Upgrades), stopped : {"no", "schema", "data"}]
          /\ command # NoCommand => command.to \in Stops \ {revision}
          /\ \A r \in database.rows : r.table \in database.tables

(* No command ever stops because of the schema: no table is dropped while
   another references it, nothing is created twice or dropped when missing,
   in whatever order upgrades and downgrades come. *)
SchemaNeverStops == attempt.stopped # "schema"

(* The schema depends on nothing but the revision: whatever upgrades and downgrades
   the database has been through, with whatever rows in it, and wherever a command
   that failed had come to.  In particular a downgrade undoes its upgrade exactly. *)
SchemaFollowsRevision == Schema(database) = SchemaAt[revision]

(* Two rows of one table that differ in one column and agree on others *)
Merged(t, same, differ) ==
    \E r \in database.rows, s \in database.rows :
        /\ r.table = t /\ s.table = t
        /\ \A c \in same : Cell(r, c) = Cell(s, c)
        /\ Cell(r, differ) # Cell(s, differ)

Crosses(r) == r \in (attempt.to + 1)..revision \/ r \in (revision + 1)..attempt.to

(* A command stops on data only in the known ways: 0015 up puts two owners'
   equal names into one company; 0015 down meets an algorithm or a model name
   the old constraints refuse; 0011 down meets two plugins' equal parameters. *)
DataStopsAreKnown ==
    command = NoCommand /\ attempt.stopped = "data" =>
        \/ /\ Crosses(15) /\ attempt.to > revision
           /\ \E t \in {"datasets", "rag_knowledge_bases"} :
                  Merged(t, {"normalized_name"}, "owner_user_id")
        \/ /\ Crosses(15) /\ attempt.to < revision
           /\ \/ \E r \in database.rows : "algorithm" \in DOMAIN r.cells
                                          /\ r.cells["algorithm"] \notin LegacyAlgorithms
              \/ \E t \in {"model_reference_profiles", "model_retraining_policies"} :
                     Merged(t, {"registered_model_name"}, "company_id")
        \/ /\ Crosses(11) /\ attempt.to < revision
           /\ Merged("automl_trials", {"study_id", "parameter_fingerprint"}, "plugin_id")
=============================================================================
