------------------------------ MODULE MetricsDb ------------------------------
(***************************************************************************)
(* The SQLite file of internal/metrics, and the statements the code runs   *)
(* on it.  Each statement is one transaction, so one operator is one       *)
(* atomic step; what Open does between its statements is in Process.       *)
(*                                                                         *)
(* A table is "none", "old" (of a version without cache_hit) or "current". *)
(***************************************************************************)
EXTENDS Naturals

Tables == {"none", "old", "current"}

\* The two indexes of the schema.
Indexes == {"session", "ts"}

\* Databases with rows from a given set.
Databases(Rows) == [table : Tables, indexes : SUBSET Indexes, rows : SUBSET Rows]

\* CREATE TABLE IF NOT EXISTS: the table of an older version exists and stays.
CreateTable(db) == [db EXCEPT !.table = IF @ = "none" THEN "current" ELSE @]

\* CREATE INDEX IF NOT EXISTS
CreateIndex(db, index) == [db EXCEPT !.indexes = @ \cup {index}]

\* Variant: any table is taken to have the column.
HasTable(db) == db.table # "none"

\* Variant: the column is never found.
HasNoColumn(db) == db.table = "none"

\* PRAGMA table_info: whether there is a column cache_hit.
HasCacheHit(db) == db.table = "current"

\* Variant: the table is created anew.
RecreateTable(db) == [db EXCEPT !.table = "current", !.rows = {}]

\* ALTER TABLE ADD COLUMN: the rows get the default.  It is refused when there is
\* such a column already.
CanAddCacheHit(db) == db.table = "old"

AddCacheHit(db) == [db EXCEPT !.table = "current"]

\* INSERT names cache_hit among its columns, so an older table refuses the row.
CanInsert(db) == db.table = "current"
Insert(db, row) == [db EXCEPT !.rows = @ \cup {row}]

==============================================================================
