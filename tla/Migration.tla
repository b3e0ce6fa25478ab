------------------------------ MODULE Migration ------------------------------
(***************************************************************************)
(* initDatabase: the statements that bring the database of any earlier     *)
(* version up to date, each a transaction of its own, with the process     *)
(* lost between any two of them, started again, or replaced for a while by *)
(* the earlier version, which added an access row at every exchange.       *)
(***************************************************************************)
EXTENDS Naturals, Sequences

CONSTANTS
    Ids,        \* credentials.id, numbers
    Parents,    \* the enrollments that access rows belong to
    Times,      \* created_at
    Fallible    \* an ALTER TABLE may fail for another reason than the column
                \* being there (a locked database)

ConstantsOK ==
    Ids \subseteq Nat /\ Times \subseteq Nat /\ Fallible \in BOOLEAN

None == "none"    \* NULL

\* The columns that were added to the first version, in the order of the code.
Columns == <<"parent_id", "backend_id", "allowed_backends", "last_credential_id",
             "last_seen_at">>

\* The rows of credentials, as far as the migration tells them apart.
Row == [type : {"access"}, parent : Parents \cup {None}, revoked : BOOLEAN, created : Times]
       \cup [type : {"other"}, parent : {None}, revoked : {FALSE}, created : {0}]

VARIABLES
    pc,        \* the next statement: "off", "tables", the name of a column,
               \* "collapse", "index"; or "ready"
    tables,    \* the tables exist
    columns,   \* the columns of Columns that exist
    rows,      \* credentials: a function from ids to Row
    index,     \* idx_credentials_access_per_parent exists
    before     \* history: the rows when the process started

vars == <<pc, tables, columns, rows, index, before>>

ColumnNames == {Columns[k] : k \in DOMAIN Columns}

MigrationTypeOK ==
    /\ pc \in {"off", "tables", "collapse", "index", "ready"} \cup ColumnNames
    /\ tables \in BOOLEAN /\ index \in BOOLEAN /\ columns \subseteq ColumnNames
    /\ \A table \in {rows, before} :
          DOMAIN table \subseteq Ids /\ \A i \in DOMAIN table : table[i] \in Row

Access(table) == {i \in DOMAIN table : table[i].type = "access" /\ table[i].parent # None}

Duplicates(table) ==
    \E i, j \in Access(table) : i # j /\ table[i].parent = table[j].parent

\* No file, the first version (no access row has a parent), or the version
\* before the index.
Init ==
    /\ pc = "off" /\ index = FALSE /\ tables \in BOOLEAN
    /\ columns \in {{}, {"parent_id"}} /\ (columns # {} => tables)
    /\ rows \in UNION {[D -> Row] : D \in SUBSET Ids}
    /\ ~tables => DOMAIN rows = {}
    /\ columns = {} => Access(rows) = {}
    /\ before = rows

-----------------------------------------------------------------------------
Start ==
    /\ pc = "off" /\ pc' = "tables" /\ before' = rows
    /\ UNCHANGED <<tables, columns, rows, index>>

\* CREATE TABLE IF NOT EXISTS.
CreateTables ==
    /\ pc = "tables" /\ pc' = Columns[1] /\ tables' = TRUE
    /\ UNCHANGED <<columns, rows, index, before>>

\* addColumnIfMissing: whatever the failure, it goes on.
AddColumn ==
    /\ \E k \in DOMAIN Columns :
          pc = Columns[k] /\ pc' = IF k < Len(Columns) THEN Columns[k + 1] ELSE "collapse"
    /\ columns' = columns \cup {pc} \/ (Fallible /\ UNCHANGED columns)
    /\ UNCHANGED <<tables, rows, index, before>>

\* Mutant: the newest row, revoked or not.
PrecedesByAge(i, j) ==
    \/ rows[i].created > rows[j].created
    \/ rows[i].created = rows[j].created /\ i < j

\* Mutant: two rows of the same moment both come first.
PrecedesLoosely(i, j) ==
    \/ ~rows[i].revoked /\ rows[j].revoked
    \/ rows[i].revoked = rows[j].revoked /\ rows[i].created > rows[j].created

\* The order of ROW_NUMBER() within a parent: unrevoked, newest, first id.
Precedes(i, j) ==
    \/ ~rows[i].revoked /\ rows[j].revoked
    \/ /\ rows[i].revoked = rows[j].revoked
       /\ \/ rows[i].created > rows[j].created
          \/ rows[i].created = rows[j].created /\ i < j

Kept == {i \in Access(rows) :
            ~ \E j \in Access(rows) : rows[j].parent = rows[i].parent /\ Precedes(j, i)}

Without(dropped) == [i \in DOMAIN rows \ dropped |-> rows[i]]

\* The statement fails, and with it the start, if it names a missing column.
Collapse ==
    /\ pc = "collapse"
    /\ IF "parent_id" \in columns
       THEN pc' = "index" /\ rows' = Without(Access(rows) \ Kept)
       ELSE pc' = "off" /\ UNCHANGED rows
    /\ UNCHANGED <<tables, columns, index, before>>

\* CREATE UNIQUE INDEX IF NOT EXISTS: fails if two rows have the same parent.
CreateIndex ==
    /\ pc = "index"
    /\ IF index \/ ~Duplicates(rows)
       THEN pc' = "ready" /\ index' = TRUE
       ELSE pc' = "off" /\ UNCHANGED index
    /\ UNCHANGED <<tables, columns, rows, before>>

\* The process is lost, or stopped.
Stop ==
    /\ pc # "off" /\ pc' = "off"
    /\ UNCHANGED <<tables, columns, rows, index, before>>

\* The earlier version runs: a row for every exchange, unless the index refuses.
OldExchange ==
    /\ pc = "off" /\ "parent_id" \in columns
    /\ \E i \in Ids \ DOMAIN rows, p \in Parents, t \in Times :
          LET new == [type |-> "access", parent |-> p, revoked |-> FALSE, created |-> t]
              table == [j \in DOMAIN rows \cup {i} |-> IF j = i THEN new ELSE rows[j]] IN
          /\ index => ~Duplicates(table)
          /\ rows' = table
    /\ UNCHANGED <<pc, tables, columns, index, before>>

-----------------------------------------------------------------------------
Migrate == CreateTables \/ AddColumn \/ Collapse \/ CreateIndex

Next == Start \/ Migrate \/ Stop \/ OldExchange

Spec == Init /\ [][Next]_vars

-----------------------------------------------------------------------------
(* Properties.                                                             *)

\* From whatever state earlier starts and versions left, the start leaves one
\* access row of every enrollment that had any, unrevoked if one was, with no
\* newer row like it; and every other row as it was.
OnePerParent ==
    pc \in {"index", "ready"} =>
        /\ ~Duplicates(rows)
        /\ {before[i].parent : i \in Access(before)} = {rows[i].parent : i \in Access(rows)}
        /\ \A i \in Access(rows), j \in Access(before) :
              (before[j].parent = rows[i].parent) =>
                  /\ rows[i].revoked => before[j].revoked
                  /\ (rows[i].revoked = before[j].revoked)
                         => rows[i].created >= before[j].created
        /\ \A i \in DOMAIN before \ Access(before) : i \in DOMAIN rows /\ rows[i] = before[i]

\* Whatever crashed or ran in between, the rows fit the index once there is one.
IndexFits == index => ~Duplicates(rows)

\* No start fails by itself (the index is never refused, no statement names a
\* missing column), and none after the first that finished drops a row.
StartsSucceed == [][Migrate => pc' # "off" /\ (index => rows' = rows)]_vars

\* A gateway that is up has every column its statements name.  A failure that
\* is not "Column already exists." (storage.ts:150) breaks it.
ReadyIsMigrated == pc = "ready" => columns = ColumnNames

\* What holds between two statements, if an ALTER TABLE fails only for a column
\* that is there.
MigrationInv ==
    /\ MigrationTypeOK /\ OnePerParent /\ IndexFits
    /\ ~Fallible => ReadyIsMigrated

=============================================================================
