----------------------------- MODULE DBManager ------------------------------
(***************************************************************************)
(* The SQLite table of class DBManager. A parameter stands for the columns *)
(* it is stored in (one, or one per status bit).                           *)
(***************************************************************************)
EXTENDS Integers

CONSTANTS
    Retention       \* 3600*24*days_of_storage, in seconds

ASSUME RetentionAssumption == Retention \in Nat

VARIABLES
    exists,         \* whether the table has been created
    columns,        \* the parameters it has columns for
    rows,           \* the rowids (times of insertion) it holds
    disk            \* "ok", or "full" when every write of SQLite fails

dbVars == <<exists, columns, rows, disk>>

DBInit ==
    /\ exists = FALSE
    /\ columns = {}
    /\ rows = {}
    /\ disk = "ok"

\* make_create_request, make_insert_request: a list of columns that ends in a
\* comma when no parameter is reported, a syntax error.
RequestWellFormed(params) == params # {}

\* make_delete_olds_request: rows older than this are deleted.
Threshold(t) == t - Retention

\* Mutant: "create table" without "if not exists".
CreateTable_New(params, ok) ==
    /\ ok = (RequestWellFormed(params) /\ disk = "ok" /\ ~exists)
    /\ exists' = (exists \/ ok)
    /\ columns' = IF ok THEN params ELSE columns
    /\ UNCHANGED <<rows, disk>>

\* "create table if not exists": a table that exists keeps its columns.
CreateTable(params, ok) ==
    /\ ok = (RequestWellFormed(params) /\ (exists \/ disk = "ok"))
    /\ exists' = (exists \/ ok)
    /\ columns' = IF ok /\ ~exists THEN params ELSE columns
    /\ UNCHANGED <<rows, disk>>

\* "insert into": an error when a parameter has no column.
InsertData(params, t, ok) ==
    /\ ok = (RequestWellFormed(params) /\ exists /\ params \subseteq columns /\ disk = "ok")
    /\ rows' = IF ok THEN rows \cup {t} ELSE rows
    /\ UNCHANGED <<exists, columns, disk>>

Expired(rs, t) == {r \in rs : r < Threshold(t)}

\* "delete from ... where rowid<then": it fails when it has rows to delete and
\* cannot write.
ClearOldRecords(t, ok) ==
    /\ ok = (exists /\ (disk = "ok" \/ Expired(rows, t) = {}))
    /\ rows' = IF ok THEN rows \ Expired(rows, t) ELSE rows
    /\ UNCHANGED <<exists, columns, disk>>

SetDisk(d) ==
    /\ disk # d
    /\ disk' = d
    /\ UNCHANGED <<exists, columns, rows>>
=============================================================================
