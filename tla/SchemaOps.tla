----------------------------- MODULE SchemaOps -----------------------------
(* The operations a migration is written in (alembic.op, as the scripts under
   alembic/versions use it) and what each does to a PostgreSQL database.

   A database is its tables, the columns later migrations add, the foreign
   keys, the unique and check constraints, the columns made NOT NULL, and its
   rows.  A constraint is identified by its table and columns instead of by
   its name; indexes, column types and the columns a table is created with
   are left out.  A row holds a cell for every modelled column it has. *)
EXTENDS Naturals, Sequences, TLC, SequencesExt

CONSTANTS None, Legacy   \* NULL; the company revision 0015 makes

Restricting(column, target) == <<column, target, "RESTRICT">>
Cascading(column, target) == <<column, target, "CASCADE">>
Nulling(column, target) == <<column, target, "SET NULL">>

(* The operations *)
CreateTable(t, refs, keys) == [op |-> "create", table |-> t, refs |-> refs, keys |-> keys]
DropTable(t) == [op |-> "drop", table |-> t]
AddColumn(t, c) == [op |-> "add column", table |-> t, column |-> c]
DropColumn(t, c) == [op |-> "drop column", table |-> t, column |-> c]
AddReference(t, ref) == [op |-> "add reference", table |-> t, ref |-> ref]
DropReference(t, c) == [op |-> "drop reference", table |-> t, column |-> c]
AddKey(t, columns) == [op |-> "add key", table |-> t, columns |-> columns]
DropKey(t, columns) == [op |-> "drop key", table |-> t, columns |-> columns]
AddCheck(t, c, values) == [op |-> "add check", table |-> t, column |-> c, values |-> values]
DropCheck(t, c) == [op |-> "drop check", table |-> t, column |-> c]
SetNotNull(t, c) == [op |-> "not null", table |-> t, column |-> c]
InsertLegacyCompany == [op |-> "insert company", table |-> "companies"]
FillFromUser(t, userColumn) == [op |-> "fill from user", table |-> t, column |-> userColumn]
FillCanonical(t) == [op |-> "fill canonical", table |-> t]

Operations == {"create", "drop", "add column", "drop column", "add reference",
               "drop reference", "add key", "drop key", "add check", "drop check",
               "not null", "insert company", "fill from user", "fill canonical"}

EmptyDatabase == [tables |-> {}, columns |-> {}, refs |-> {}, keys |-> {},
                  checks |-> {}, required |-> {}, companies |-> <<>>, rows |-> {}]
IsDatabase(db) == DOMAIN db = DOMAIN EmptyDatabase

Of(t, pairs) == {p \in pairs : p[1] = t}
On(t, column, refs) == {ref \in Of(t, refs) : ref[2][1] = column}
RowsOf(db, t) == {r \in db.rows : r.table = t}
Cell(r, c) == IF c \in DOMAIN r.cells THEN r.cells[c] ELSE r

(* Two rows violate a unique constraint when they agree on all its columns;
   NULLs never agree. *)
Collide(r, s, columns) ==
    /\ r # s /\ r.table = s.table
    /\ \A c \in columns : Cell(r, c) = Cell(s, c) /\ Cell(r, c) # None

KeyHolds(rows, t, columns) ==
    \A r \in rows, s \in rows : r.table = t => ~Collide(r, s, columns)
CheckHolds(rows, t, c, values) ==
    \A r \in rows : r.table = t /\ c \in DOMAIN r.cells => r.cells[c] \in values
NotNullHolds(rows, t, c) ==
    \A r \in rows : r.table = t /\ c \in DOMAIN r.cells => r.cells[c] # None

(* Whether the objects an operation names are there; DROP TABLE has no
   CASCADE, so another table that references this one stops it. *)
Applicable(db, o) ==
    CASE o.op = "create" -> /\ o.table \notin db.tables
                            /\ \A ref \in o.refs : ref[2] \in db.tables \union {o.table}
      [] o.op = "drop" -> /\ o.table \in db.tables
                          /\ \A ref \in db.refs : ref[2][2] = o.table => ref[1] = o.table
      [] o.op = "add column" -> o.table \in db.tables /\ <<o.table, o.column>> \notin db.columns
      [] o.op = "drop column" -> <<o.table, o.column>> \in db.columns
      [] o.op = "add reference" -> {o.table, o.ref[2]} \subseteq db.tables
      [] o.op = "drop reference" -> On(o.table, o.column, db.refs) # {}
      [] o.op = "drop key" -> <<o.table, o.columns>> \in db.keys
      [] o.op = "drop check" -> \E k \in Of(o.table, db.checks) : k[2] = o.column
      [] o.op = "add key" -> o.table \in db.tables /\ <<o.table, o.columns>> \notin db.keys
      [] o.op = "add check" -> o.table \in db.tables
      [] OTHER -> o.table \in db.tables

(* Whether the rows satisfy the constraint an operation adds *)
Satisfied(db, o) ==
    CASE o.op = "add key" -> KeyHolds(db.rows, o.table, o.columns)
      [] o.op = "add check" -> CheckHolds(db.rows, o.table, o.column, o.values)
      [] o.op = "not null" -> NotNullHolds(db.rows, o.table, o.column)
      [] OTHER -> TRUE

Put(r, c, v) == [r EXCEPT !.cells = (c :> v) @@ @]
Without(r, c) == [r EXCEPT !.cells = Restrict(r.cells, DOMAIN r.cells \ {c})]

(* The rows of table t changed by F, the others as they are *)
Updated(db, t, F(_)) == {IF r.table = t THEN F(r) ELSE r : r \in db.rows}
Unscoped(r) == r.cells["company_id"] = None

(* The company the users row named u belongs to *)
CompanyOf(db, u) ==
    (CHOOSE r \in RowsOf(db, "users") : r.cells["id"] = u).cells["company_id"]

(* _CANONICAL_COMPANY_SQL: the oldest company, NULL when there is none *)
Canonical(db) == IF db.companies = <<>> THEN None ELSE Head(db.companies)

Effect(db, o) ==
    LET t == o.table IN
    CASE o.op = "create" ->
           [db EXCEPT !.tables = @ \union {t},
                      !.refs = @ \union {<<t, ref>> : ref \in o.refs},
                      !.keys = @ \union {<<t, key>> : key \in o.keys}]
      [] o.op = "drop" ->
           [tables |-> db.tables \ {t}, columns |-> db.columns \ Of(t, db.columns),
            refs |-> db.refs \ Of(t, db.refs), keys |-> db.keys \ Of(t, db.keys),
            checks |-> db.checks \ Of(t, db.checks),
            required |-> db.required \ Of(t, db.required),
            companies |-> IF t = "companies" THEN <<>> ELSE db.companies,
            rows |-> db.rows \ RowsOf(db, t)]
      [] o.op = "add column" ->
           [db EXCEPT !.columns = @ \union {<<t, o.column>>},
                      !.rows = Updated(db, t, LAMBDA r : Put(r, o.column, None))]
      [] o.op = "drop column" ->
           [db EXCEPT !.columns = @ \ {<<t, o.column>>},
                      !.required = @ \ {<<t, o.column>>},
                      !.refs = @ \ On(t, o.column, db.refs),
                      !.rows = Updated(db, t, LAMBDA r : Without(r, o.column))]
      [] o.op = "add reference" -> [db EXCEPT !.refs = @ \union {<<t, o.ref>>}]
      [] o.op = "drop reference" ->
           [db EXCEPT !.refs = @ \ On(t, o.column, db.refs)]
      [] o.op = "add key" -> [db EXCEPT !.keys = @ \union {<<t, o.columns>>}]
      [] o.op = "drop key" -> [db EXCEPT !.keys = @ \ {<<t, o.columns>>}]
      [] o.op = "add check" -> [db EXCEPT !.checks = @ \union {<<t, o.column, o.values>>}]
      [] o.op = "drop check" ->
           [db EXCEPT !.checks = @ \ {k \in Of(t, @) : k[2] = o.column}]
      [] o.op = "not null" -> [db EXCEPT !.required = @ \union {<<t, o.column>>}]
      [] o.op = "insert company" ->
           IF RowsOf(db, "users") # {} /\ db.companies = <<>>
           THEN [db EXCEPT !.companies = <<Legacy>>] ELSE db
      [] o.op = "fill from user" ->
           [db EXCEPT !.rows = Updated(db, t, LAMBDA r :
               IF Unscoped(r) THEN Put(r, "company_id", CompanyOf(db, r.cells[o.column])) ELSE r)]
      [] o.op = "fill canonical" ->
           [db EXCEPT !.rows = Updated(db, t, LAMBDA r :
               IF Unscoped(r) THEN Put(r, "company_id", Canonical(db)) ELSE r)]

(* A migration in progress: the database, and why it stopped, if it did *)
Step(run, o) ==
    IF run.stopped # "no" THEN run
    ELSE IF ~Applicable(run.db, o) THEN [run EXCEPT !.stopped = "schema"]
    ELSE IF ~Satisfied(run.db, o) THEN [run EXCEPT !.stopped = "data"]
    ELSE [run EXCEPT !.db = Effect(run.db, o)]

(* A script: its operations in order *)
RunScript(db, ops) ==
    LET runs[i \in 0..Len(ops)] == IF i = 0 THEN {[db |-> db, stopped |-> "no"]}
                                    ELSE {Step(run, ops[i]) : run \in runs[i - 1]}
    IN CHOOSE run \in runs[Len(ops)] : TRUE
============================================================================
