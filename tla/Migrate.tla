------------------------------ MODULE Migrate ------------------------------
(***************************************************************************)
(* DuckDB.migrate (internal/store/duckdb.go): the schema chain applied when*)
(* a database file is opened.  The file may come from any earlier release, *)
(* that is, with any prefix of the chain applied, and the process may die  *)
(* or a statement fail at every step.                                      *)
(***************************************************************************)
EXTENDS Naturals, FiniteSets

CONSTANTS
    AddColumn,      \* numbers of the ALTER TABLE ... ADD COLUMN migrations
    Last,           \* number of the last migration
    VersionColumn,  \* the one that adds fingerprint_version DEFAULT 1
    MaxFaults       \* bound: crashes and failed statements

ASSUME MigrateAssumption ==
    /\ Last \in Nat
    /\ AddColumn \subseteq 1..Last
    /\ VersionColumn \in AddColumn
    /\ MaxFaults \in Nat

VARIABLES
    schema,         \* migrations whose statement has taken effect in the file
    versions,       \* rows of schema_migrations
    rows,           \* of table runs: the hash contract each was fingerprinted
                    \* under, and the fingerprint_version it reads back with
    proc,           \* pc and locals of the process that opens the file
    faults

schemaVars == <<schema, versions, rows, proc, faults>>

Legacy   == 1       \* lineage.FingerprintVersionLegacy
Current  == 2       \* lineage.CurrentFingerprintVersion
NoColumn == 0       \* the row's table has no such column yet

Down == [pc |-> "down", applied |-> {}, next |-> 0]

-----------------------------------------------------------------------------

\* NewDuckDB: schema_migrations is created if need be, and read.
Open ==
    /\ proc.pc = "down"
    /\ proc' = [pc |-> "loop", applied |-> versions, next |-> 0]
    /\ UNCHANGED <<schema, versions, rows, faults>>

\* if applied[v] { continue }
Skip ==
    /\ proc.pc = "loop"
    /\ proc.next \in 0..Last
    /\ proc.next \in proc.applied
    /\ proc' = [proc EXCEPT !.next = @ + 1]
    /\ UNCHANGED <<schema, versions, rows, faults>>

\* CREATE ... IF NOT EXISTS may run again; a column can be added only once.
Runnable(v) == v \in schema => v \notin AddColumn

\* Fault: the rows that are there get the version of the release that adds
\* the column.
BackfilledAsCurrent(v) ==
    IF v = VersionColumn THEN {[r EXCEPT !.version = Current] : r \in rows} ELSE rows

\* A column added with a default is filled in for the rows that are there.
Backfilled(v) ==
    IF v = VersionColumn THEN {[r EXCEPT !.version = Legacy] : r \in rows} ELSE rows

\* Fault: the statement is not part of the transaction.
ExecAutocommit ==
    /\ proc.pc = "loop"
    /\ proc.next \in 0..Last \ proc.applied
    /\ schema' = schema \union {proc.next}
    /\ proc' = IF Runnable(proc.next) THEN [proc EXCEPT !.pc = "commit"] ELSE Down
    /\ UNCHANGED <<versions, rows, faults>>

\* The statement runs inside a transaction; if it cannot, NewDuckDB returns an
\* error, and will whenever the file is opened.
Exec ==
    /\ proc.pc = "loop"
    /\ proc.next \in 0..Last \ proc.applied
    /\ proc' = IF Runnable(proc.next) THEN [proc EXCEPT !.pc = "commit"] ELSE Down
    /\ UNCHANGED <<schema, versions, rows, faults>>

\* The version row joins the transaction, and it commits.
CommitMigration ==
    /\ proc.pc = "commit"
    /\ schema' = schema \union {proc.next}
    /\ rows' = Backfilled(proc.next)
    /\ versions' = versions \union {proc.next}
    /\ proc' = [proc EXCEPT !.pc = "loop", !.next = @ + 1]
    /\ UNCHANGED faults

\* Fault: the loop runs past the last migration.
OpenedLate ==
    /\ proc.pc = "loop"
    /\ proc.next >= Last
    /\ proc' = IF proc.next > Last + 1 THEN [proc EXCEPT !.pc = "open"]
               ELSE [proc EXCEPT !.next = @ + 1]
    /\ UNCHANGED <<schema, versions, rows, faults>>

Opened ==
    /\ proc.pc = "loop"
    /\ proc.next = Last + 1
    /\ proc' = [proc EXCEPT !.pc = "open"]
    /\ UNCHANGED <<schema, versions, rows, faults>>

\* The open store records runs with an explicit version.
Record ==
    /\ proc.pc = "open"
    /\ rows' = rows \union {[contract |-> Current, version |-> Current]}
    /\ UNCHANGED <<schema, versions, proc, faults>>

\* The process dies, or a statement fails and NewDuckDB gives up; the file is
\* opened again.
OpenFails ==
    /\ proc.pc \in {"loop", "commit", "open"}
    /\ faults < MaxFaults
    /\ faults' = faults + 1
    /\ proc' = Down
    /\ UNCHANGED <<schema, versions, rows>>

\* A file of an earlier release, with and without runs in it.
SchemaInit ==
    /\ \E n \in 0..Last + 1 : schema = 0..n - 1 /\ versions = schema
    /\ rows \in SUBSET (IF VersionColumn \in schema
                        THEN {[contract |-> v, version |-> v] : v \in {Legacy, Current}}
                        ELSE IF 0 \in schema
                        THEN {[contract |-> Legacy, version |-> NoColumn]} ELSE {})
    /\ proc = Down
    /\ faults = 0

Migrating == Open \/ Skip \/ Exec \/ CommitMigration \/ Opened

SchemaNext == Migrating \/ Record \/ OpenFails

\* Fairness: whoever runs the server starts it again, and it goes on.
SchemaSpec == SchemaInit /\ [][SchemaNext]_schemaVars /\ WF_schemaVars(Migrating)

-----------------------------------------------------------------------------
(* Properties.                                                             *)

\* The chain, its version table, the rows and the locals have their types.
SchemaTypeOK ==
    /\ schema \subseteq 0..Last
    /\ versions \subseteq 0..Last
    /\ rows \subseteq [contract : {Legacy, Current}, version : {NoColumn, Legacy, Current}]
    /\ proc \in [pc : {"down", "loop", "commit", "open"},
                 applied : SUBSET (0..Last), next : 0..Last + 1]
    /\ faults \in 0..MaxFaults

(***************************************************************************)
(* A store that opened has the whole chain applied, and every run reads    *)
(* back with the version of the contract it was fingerprinted under,       *)
(* whatever release made the file and however often the migration was      *)
(* interrupted (ADR 0004, ADR 0013): nothing stored is reinterpreted.      *)
(***************************************************************************)
OpenedUpToDate ==
    proc.pc = "open" =>
        /\ schema = 0..Last
        /\ \A r \in rows : r.version = r.contract

(***************************************************************************)
(* No interruption leaves a file that cannot be opened: a migration whose  *)
(* statement took effect is never tried again (statement and version row   *)
(* share a transaction), so the store opens in the end.                    *)
(***************************************************************************)
Reopens == proc.pc # "open" ~> proc.pc = "open"

=============================================================================
