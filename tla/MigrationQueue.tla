--------------------------- MODULE MigrationQueue ---------------------------
(***************************************************************************)
(* The migration table that msgmvrcpt and msgmv share (DB_TABLE_NAME), and *)
(* the SQL statements class zn_migration_queue issues on it.  A table is a *)
(* function from login ids to rows: LOGIN_ID is the unique key that makes  *)
(* a second INSERT fail with ER_DUP_ENTRY.  Every statement is one atomic  *)
(* operator; the callers decide in which order they are issued.            *)
(***************************************************************************)
EXTENDS Naturals, FiniteSets

CONSTANTS
    Logins,     \* LOGIN_ID values
    Hosts,      \* EAS_HOST values
    NoRow       \* what a login without a row maps to

\* PROC_STATUS, the constants of zn_migration_queue.
NOT_PROCESS        == 0
EXPORTING          == 1
ANALYZING          == 2
MIGRATING          == 3
MIGRATION_BREAKOUT == 4
ProcStatus         == NOT_PROCESS .. MIGRATION_BREAKOUT

\* The columns a decision depends on.  ZIMBRA_ID, the IMAP columns and the
\* timestamps are written but nothing reads them back.
Row   == [eas_host : Hosts, proc_status : ProcStatus]
Table == [Logins -> Row \cup {NoRow}]

ASSUME LoginsFinite == IsFiniteSet(Logins)
ASSUME NoRowIsNoRow == NoRow \notin Row

EmptyTable == [l \in Logins |-> NoRow]

Present(q, l) == q[l] # NoRow

\* insert_migration_information, when the key is free.
InsertMigrationInformation(q, l, h) ==
    [q EXCEPT ![l] = [eas_host |-> h, proc_status |-> NOT_PROCESS]]

\* An UPDATE ... WHERE LOGIN_ID = l of a missing row changes nothing.
UpdateProcStatus(q, l, s) ==
    IF Present(q, l) THEN [q EXCEPT ![l].proc_status = s] ELSE q

DeleteData(q, l) == [q EXCEPT ![l] = NoRow]

\* The rows the three WHERE conditions of access_db select.  AND binds tighter
\* than OR, so the third one selects every NOT_PROCESS row, whatever its host.
AllRows(q) == {l \in Logins : Present(q, l)}

Unprocessed(q) == {l \in AllRows(q) : q[l].proc_status = NOT_PROCESS}

Exporting(q) == {l \in AllRows(q) : q[l].proc_status = EXPORTING}

ExportRows(q) == Unprocessed(q) \cup Exporting(q)

EasRows(q, h) == Unprocessed(q) \cup {l \in Exporting(q) : q[l].eas_host = h}

\* get_record_count.
RecordCount(rows) == Cardinality(rows)
=============================================================================
