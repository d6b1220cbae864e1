---------------------------- MODULE ForeachTable ----------------------------
(* The Hive and Impala programs that do something for every table of every *)
(* database: list the databases, list the tables of each, and send a few   *)
(* statements for each table.                                              *)
(*                                                                         *)
(* Every statement is answered by a warehouse that others keep changing:   *)
(* what was listed may be dropped, or be another table, when it is queried, *)
(* and the server may close the connection.                                *)
EXTENDS Naturals, Sequences, FiniteSets, SequencesExt

CONSTANTS
    Runs,           \* how a program may be started, see RunsAssumption
    Warehouse,      \* database -> table -> [columns, rows, parts, fields, error]
    Others,         \* the tables somebody else may put in the place of one
    MaxForeign      \* bound: what somebody else does meanwhile

(* A row is the set of its columns that are NULL, and its partition.  A    *)
(* table that is not partitioned has parts = <<"none">>.  error: the       *)
(* statements that fail ("none", "select", or "describe" for all of them). *)
TableType ==
    [columns : SUBSET STRING, rows : Seq([nulls : SUBSET STRING, part : STRING]),
     parts : Seq(STRING), fields : Seq([name : STRING, value : STRING]),
     error : {"none", "select", "describe"}]
Database(d) == {d} \X DOMAIN Warehouse[d]

-----------------------------------------------------------------------------
(* The programs.  steps are the statements for one table; connects: a      *)
(* connection for each database; denied: a database one is not authorized  *)
(* for is passed over; ignores: the exceptions --ignore-errors is about.   *)
Exceptions == {"HiveServer2Error", "OperationalError", "other"}
HiveForEachTable ==
    [steps |-> <<"query">>, connects |-> TRUE, denied |-> TRUE, ignores |-> Exceptions]
ForEach(steps) == [HiveForEachTable EXCEPT !.steps = steps]

HiveTablesList == ForEach(<<"print">>)
HiveTablesColumnCounts == ForEach(<<"use", "describe">>)
HiveTablesRowColumnCounts == ForEach(<<"use", "describe", "query">>)
HiveTablesNullRows == ForEach(<<"use", "describe", "where">>)
HiveTablesRowsWithNulls == HiveTablesNullRows
HiveTablesNullColumns == ForEach(<<"use", "describe", "where">>)
HiveTablesMetadata == ForEach(<<"use", "describe">>)
HiveTablesLocations == HiveTablesMetadata
HiveTablesRowCounts ==
    [HiveForEachTable EXCEPT !.steps = <<"use", "partitions", "query">>, !.connects = FALSE]
HiveSchemasCSV ==
    [steps |-> <<"use", "describe">>, connects |-> FALSE, denied |-> FALSE,
     ignores |-> {"HiveServer2Error"}]
ComputeTableStats ==
    [steps |-> <<"use", "partitions", "query">>, connects |-> FALSE, denied |-> FALSE,
     ignores |-> {}]

(* The Impala programs have the statements of their Hive classes; only the *)
(* name and the defaults to connect with are their own.                    *)
ImpalaForEachTable == HiveForEachTable
ImpalaTablesList == HiveTablesList
ImpalaTablesColumnCounts == HiveTablesColumnCounts
ImpalaTablesRowColumnCounts == HiveTablesRowColumnCounts
ImpalaTablesNullRows == HiveTablesNullRows
ImpalaTablesRowsWithNulls == HiveTablesRowsWithNulls
ImpalaTablesNullColumns == HiveTablesNullColumns
ImpalaTablesMetadata == HiveTablesMetadata
ImpalaTablesLocations == HiveTablesLocations
ImpalaTablesRowCounts == HiveTablesRowCounts
ImpalaSchemasCSV == HiveSchemasCSV
ImpalaComputeTableStats == ComputeTableStats

HivePrograms ==
    [foreach_table |-> HiveForEachTable, tables_list |-> HiveTablesList,
     tables_column_counts |-> HiveTablesColumnCounts,
     tables_row_column_counts |-> HiveTablesRowColumnCounts,
     tables_null_rows |-> HiveTablesNullRows,
     tables_row_counts_any_nulls |-> HiveTablesRowsWithNulls,
     tables_null_columns |-> HiveTablesNullColumns,
     tables_metadata |-> HiveTablesMetadata, tables_locations |-> HiveTablesLocations,
     tables_row_counts |-> HiveTablesRowCounts, schemas_csv |-> HiveSchemasCSV,
     compute_table_stats |-> ComputeTableStats]
ImpalaPrograms ==
    [foreach_table |-> ImpalaForEachTable, tables_list |-> ImpalaTablesList,
     tables_column_counts |-> ImpalaTablesColumnCounts,
     tables_row_column_counts |-> ImpalaTablesRowColumnCounts,
     tables_null_rows |-> ImpalaTablesNullRows,
     tables_row_counts_any_nulls |-> ImpalaTablesRowsWithNulls,
     tables_null_columns |-> ImpalaTablesNullColumns,
     tables_metadata |-> ImpalaTablesMetadata, tables_locations |-> ImpalaTablesLocations,
     tables_row_counts |-> ImpalaTablesRowCounts, schemas_csv |-> ImpalaSchemasCSV,
     compute_table_stats |-> ImpalaComputeTableStats]
Programs == [hive |-> HivePrograms, impala |-> ImpalaPrograms]

(* databases, tables, parts, field: what the regexes match.  query: what   *)
(* the program was given to work with; "key" names something else than     *)
(* {db} and {table}.                                                       *)
ASSUME RunsAssumption ==
    \A r \in Runs :
        /\ r.tool \in DOMAIN HivePrograms /\ r.server \in DOMAIN Programs
        /\ r.query \in {"given", "missing"} \union (IF r.tool = "foreach_table" THEN {"key"} ELSE {})
        /\ r.ignore => HivePrograms[r.tool].ignores # {}
        /\ r.tool = "schemas_csv" =>
             \A d \in DOMAIN Warehouse : d \in r.databases /\ DOMAIN Warehouse[d] \subseteq r.tables
ASSUME WarehouseAssumption ==
    /\ \A d \in DOMAIN Warehouse : \A t \in DOMAIN Warehouse[d] : Warehouse[d][t] \in TableType
    /\ \A d \in DOMAIN Warehouse : \A t \in DOMAIN Warehouse[d] :
         \A k \in DOMAIN Warehouse[d][t].rows :
            Warehouse[d][t].rows[k].part \in Range(Warehouse[d][t].parts)
    /\ "None" \notin DOMAIN Warehouse
    /\ Others \subseteq TableType
ASSUME BoundAssumption == MaxForeign \in Nat

VARIABLES
    run,                    \* how the program was started
    warehouse, connected,   \* the warehouse, and whether the session is alive
    held,                   \* history: the tables nobody has touched so far
    pc,                     \* "options", "connect", "databases", "tables",
                            \* "execute", "partition", "done"
    databases, database,    \* the databases still to come, and the current one
    tables, table,          \* the tables still to come, and the current one
    at,                     \* which of its statements comes next
    columns, cursor,        \* what describe and show partitions returned
    output,                 \* the lines printed: <<database, table, value>>
    handled, skipped,       \* the tables done (table_count), and passed over
    exit,                   \* the exit code
    foreign                 \* history: what somebody else did

env == <<warehouse, connected, held, foreign>>
names == <<databases, database, tables, table>>
statement == <<at, columns, cursor>>
result == <<output, handled, skipped>>
vars == <<run, env, pc, names, statement, result, exit>>

Prog == Programs[run.server][run.tool]

Init ==
    /\ run \in Runs
    /\ warehouse = Warehouse /\ connected = TRUE
    /\ held = UNION {Database(d) : d \in DOMAIN Warehouse}
    /\ pc = "options"
    /\ databases = {} /\ database = "None" /\ tables = {} /\ table = "None"
    /\ at = 1 /\ columns = {} /\ cursor = <<>>
    /\ output = <<>> /\ handled = {} /\ skipped = {}
    /\ exit = "running"
    /\ foreign = <<>>

Goto(label) == pc' = label /\ UNCHANGED exit
End(code) == pc' = "done" /\ exit' = code

-----------------------------------------------------------------------------
(* process_options, and the regexes main compiles: usage() exits with 3.   *)
ProcessOptions ==
    /\ pc = "options"
    /\ IF run.query = "missing" THEN End("3") ELSE Goto("connect")
    /\ UNCHANGED <<run, env, names, statement, result>>

(* The server does not take the connection.                                *)
Refused ==
    /\ pc = "connect" \/ (pc = "databases" /\ databases # {} /\ Prog.connects)
    /\ foreign' = Append(foreign, "refuse")
    /\ End("1")
    /\ UNCHANGED <<run, warehouse, connected, held, names, statement, result>>

ShowDatabases ==
    /\ pc = "connect"
    /\ connected' = TRUE
    /\ databases' = DOMAIN warehouse \intersect run.databases
    /\ Goto("databases")
    /\ UNCHANGED <<run, warehouse, held, foreign, database, tables, table, statement, result>>

(* The head of process_database: use and show tables.                      *)
ProcessDatabase(d) ==
    /\ pc = "databases"
    /\ databases' = databases \ {d}
    /\ database' = d
    /\ connected' = (connected \/ Prog.connects)
    /\ IF ~connected' \/ d \notin DOMAIN warehouse THEN End("1") /\ UNCHANGED tables
       ELSE IF d \in run.denied
       THEN (IF Prog.denied THEN Goto("databases") ELSE End("1")) /\ UNCHANGED tables
       ELSE tables' = DOMAIN warehouse[d] \intersect run.tables /\ Goto("tables")
    /\ UNCHANGED <<run, warehouse, held, foreign, table, statement, result>>

(* compute_table_stats still reads the list from the server.               *)
NextDatabase ==
    /\ pc = "tables"
    /\ tables = {}
    /\ IF run.tool = "compute_table_stats" /\ ~connected THEN End("1") ELSE Goto("databases")
    /\ UNCHANGED <<run, env, names, statement, result>>

Finish ==
    /\ pc = "databases"
    /\ databases = {}
    /\ End(IF run.tool = "compute_table_stats" /\ ~connected THEN "1" ELSE "0")
    /\ UNCHANGED <<run, env, names, statement, result>>

(* Mutant: a table is counted before its statements are sent.              *)
ProcessTableCounts(t) ==
    /\ pc = "tables"
    /\ tables' = tables \ {t}
    /\ table' = t
    /\ at' = 1 /\ columns' = {} /\ cursor' = <<>>
    /\ handled' = handled \union {<<database, t>>}
    /\ IF run.query = "key" THEN End("1") ELSE Goto("execute")
    /\ UNCHANGED <<run, env, databases, database, output, skipped>>

(* A query that cannot be formatted is an error outside the inner try.     *)
ProcessTable(t) ==
    /\ pc = "tables"
    /\ tables' = tables \ {t}
    /\ table' = t
    /\ at' = 1 /\ columns' = {} /\ cursor' = <<>>
    /\ IF run.query = "key" THEN End("1") ELSE Goto("execute")
    /\ UNCHANGED <<run, env, databases, database, result>>

-----------------------------------------------------------------------------
(* The statements for a table.                                             *)
Exists(t) == database \in DOMAIN warehouse /\ t \in DOMAIN warehouse[database]
Here == warehouse[database][table]

(* Mutant: an error ends the loop over the tables.                         *)
FailBreaks(exception) ==
    /\ IF run.ignore /\ exception \in Prog.ignores
       THEN Goto("databases") /\ skipped' = skipped \union {<<database, table>>}
       ELSE End("1") /\ UNCHANGED skipped
    /\ UNCHANGED <<at, columns, cursor, output, handled>>

(* The except clause around the statements of one table.                   *)
Fail(exception) ==
    /\ IF run.ignore /\ exception \in Prog.ignores
       THEN Goto("tables") /\ skipped' = skipped \union {<<database, table>>}
       ELSE End("1") /\ UNCHANGED skipped
    /\ UNCHANGED <<at, columns, cursor, output, handled>>

Done(lines) ==
    /\ output' = output \o lines
    /\ handled' = handled \union {<<database, table>>}
    /\ Goto("tables")
    /\ UNCHANGED <<at, columns, cursor, skipped>>

(* What becomes of a statement about table t that needs more than that the *)
(* session is alive and the table is there.                                *)
Raises(t, broken) ==
    IF ~connected THEN "other"
    ELSE IF ~Exists(t) \/ warehouse[database][t].error = "describe" THEN "HiveServer2Error"
    ELSE IF warehouse[database][t].error \in broken THEN "OperationalError" ELSE "no"

Statement(s) == pc = "execute" /\ Prog.steps[at] = s

PrintTable ==
    /\ Statement("print")
    /\ Done(<<<<database, table, "listed">>>>)
    /\ UNCHANGED <<run, env, names>>

Use ==
    /\ Statement("use")
    /\ IF ~connected THEN Fail("other")
       ELSE IF database \notin DOMAIN warehouse THEN Fail("HiveServer2Error")
       ELSE at' = at + 1 /\ UNCHANGED <<pc, exit, columns, cursor, result>>
    /\ UNCHANGED <<run, env, names>>

(* hive_tables_metadata: the first row of describe formatted that matches. *)
Field(tbl) ==
    LET rows == SelectSeq(tbl.fields, LAMBDA f : f.name \in run.field) IN
    IF rows = <<>> THEN "N/A" ELSE rows[1].value

Described ==
    CASE run.tool = "schemas_csv" -> Here.columns
      [] run.tool = "tables_column_counts" -> Cardinality(Here.columns)
      [] OTHER -> Field(Here)

Describe ==
    /\ Statement("describe")
    /\ LET e == Raises(table, {}) IN
       IF e # "no" THEN Fail(e)
       ELSE IF at = Len(Prog.steps) THEN Done(<<<<database, table, Described>>>>)
       ELSE /\ columns' = Here.columns
            /\ at' = at + 1
            /\ UNCHANGED <<pc, exit, cursor, result>>
    /\ UNCHANGED <<run, env, names>>

(* The query of foreach_table may return nothing at all; that is no error. *)
Queried ==
    CASE run.tool = "tables_row_column_counts" -> <<Len(Here.rows), Cardinality(columns)>>
      [] run.tool = "tables_row_counts" -> <<"none", Len(Here.rows)>>
      [] OTHER -> "done"

Query ==
    /\ Statement("query")
    /\ LET e == Raises(table, {"select"}) IN
       IF e # "no" THEN Fail(e) ELSE Done(<<<<database, table, Queried>>>>)
    /\ UNCHANGED <<run, env, names>>

(* Mutant: AND and OR swapped.                                             *)
CountNullsSwapped(rows, any) ==
    Cardinality({k \in DOMAIN rows :
        IF ~any THEN \E c \in columns : c \in rows[k].nulls ELSE columns \subseteq rows[k].nulls})

(* generate_sql of hive_tables_null_rows and of its subclass.              *)
CountNulls(rows, any) ==
    Cardinality({k \in DOMAIN rows :
        IF any THEN \E c \in columns : c \in rows[k].nulls ELSE columns \subseteq rows[k].nulls})

(* The query of hive_tables_null_columns: of the rows with a NULL in them, *)
(* the columns that are NULL in all; of no rows, SUM is NULL and not 0.    *)
OnlyNulls(rows) ==
    LET some == {k \in DOMAIN rows : \E c \in columns : c \in rows[k].nulls} IN
    {c \in columns : some # {} /\ \A k \in some : c \in rows[k].nulls}

NullsFound ==
    IF run.tool = "tables_null_columns" THEN OnlyNulls(Here.rows)
    ELSE CountNulls(Here.rows, run.tool = "tables_row_counts_any_nulls")

(* The query names the columns that were described.                        *)
Where ==
    /\ Statement("where")
    /\ LET e == Raises(table, {"select"}) IN
       IF e # "no" THEN Fail(e)
       ELSE IF ~(columns \subseteq Here.columns) THEN Fail("HiveServer2Error")
       ELSE Done(<<<<database, table, NullsFound>>>>)
    /\ UNCHANGED <<run, env, names>>

-----------------------------------------------------------------------------
(* Partitions.  compute_table_stats asks for those of the table that has   *)
(* the name of the database, and does not catch the error that it has none; *)
(* hive_tables_row_counts goes on with the whole table then.               *)
Partitions ==
    /\ Statement("partitions")
    /\ LET stats == run.tool = "compute_table_stats"
           t == IF stats THEN database ELSE table
           e == Raises(t, {})
           parts == warehouse[database][t].parts
       IN  IF e # "no" THEN Fail(e)
           ELSE IF parts = <<"none">> /\ stats THEN Fail("HiveServer2Error")
           ELSE IF parts = <<"none">> \/ (parts = <<>> /\ stats)
           THEN at' = at + 1 /\ UNCHANGED <<pc, exit, columns, cursor, result>>
           ELSE /\ cursor' = parts
                /\ Goto("partition")
                /\ UNCHANGED <<at, columns, result>>
    /\ UNCHANGED <<run, env, names>>

SkipPartition ==
    /\ pc = "partition"
    /\ cursor # <<>>
    /\ Head(cursor) \notin run.parts
    /\ cursor' = Tail(cursor)
    /\ UNCHANGED <<run, env, pc, names, at, columns, result, exit>>

PartitionsDone ==
    /\ pc = "partition"
    /\ cursor = <<>>
    /\ Done(<<>>)
    /\ UNCHANGED <<run, env, names>>

Count(rows, p) == <<p, Cardinality({k \in DOMAIN rows : rows[k].part = p})>>

(* The statement for a partition is executed on the cursor that is being   *)
(* iterated over, whose rows are lost: its own rows have been read when    *)
(* the loop goes on.  A statement without rows is an error there.          *)
CountPartition ==
    /\ pc = "partition"
    /\ cursor # <<>>
    /\ Head(cursor) \in run.parts
    /\ LET e == Raises(table, {"select"}) IN
       IF e # "no" THEN Fail(e)
       ELSE IF run.tool = "compute_table_stats" THEN Fail("other")
       ELSE /\ output' = Append(output, <<database, table, Count(Here.rows, Head(cursor))>>)
            /\ cursor' = <<>>
            /\ UNCHANGED <<pc, exit, at, columns, handled, skipped>>
    /\ UNCHANGED <<run, env, names>>

-----------------------------------------------------------------------------
(* Somebody else, and the server.                                          *)
Happenings == {"refuse", "disconnect", "drop database", "drop table", "replace table"}
Foreign(what) ==
    /\ pc \notin {"options", "connect", "done"}
    /\ Len(foreign) < MaxForeign
    /\ foreign' = Append(foreign, what)
    /\ UNCHANGED <<run, pc, names, statement, result, exit>>

Disconnect ==
    /\ connected
    /\ Foreign("disconnect")
    /\ connected' = FALSE
    /\ UNCHANGED <<warehouse, held>>

DropDatabase(d) ==
    /\ Foreign("drop database")
    /\ warehouse' = [x \in DOMAIN warehouse \ {d} |-> warehouse[x]]
    /\ held' = {h \in held : h[1] # d}
    /\ UNCHANGED connected

DropTable(d, t) ==
    /\ Foreign("drop table")
    /\ warehouse' = [warehouse EXCEPT ![d] = [x \in DOMAIN warehouse[d] \ {t} |-> warehouse[d][x]]]
    /\ held' = held \ {<<d, t>>}
    /\ UNCHANGED connected

ReplaceTable(d, t) ==
    /\ Foreign("replace table")
    /\ \E o \in Others :
         warehouse' = [warehouse EXCEPT ![d] = [warehouse[d] EXCEPT ![t] = o]]
    /\ held' = held \ {<<d, t>>}
    /\ UNCHANGED connected

Next ==
    \/ ProcessOptions \/ Refused \/ ShowDatabases
    \/ \E d \in databases : ProcessDatabase(d)
    \/ NextDatabase \/ Finish
    \/ \E t \in tables : ProcessTable(t)
    \/ PrintTable \/ Use \/ Describe \/ Query \/ Where
    \/ Partitions \/ SkipPartition \/ PartitionsDone \/ CountPartition
    \/ Disconnect
    \/ \E d \in DOMAIN warehouse :
         \/ DropDatabase(d)
         \/ \E t \in DOMAIN warehouse[d] : DropTable(d, t) \/ ReplaceTable(d, t)

Spec == Init /\ [][Next]_vars

-----------------------------------------------------------------------------
Selected(h) == h[1] \in run.databases /\ h[2] \in run.tables

(* The type invariant; the tables a run is at are of the current database, *)
(* and none is both done and passed over.                                  *)
TypeOK ==
    /\ run \in Runs
    /\ DOMAIN warehouse \subseteq DOMAIN Warehouse
    /\ \A d \in DOMAIN warehouse : \A t \in DOMAIN warehouse[d] :
         t \in DOMAIN Warehouse[d] /\ warehouse[d][t] \in TableType
    /\ connected \in BOOLEAN /\ foreign \in Seq(Happenings)
    /\ held \subseteq UNION {Database(d) : d \in DOMAIN Warehouse}
    /\ \A h \in held : /\ h[1] \in DOMAIN warehouse /\ h[2] \in DOMAIN warehouse[h[1]]
                       /\ warehouse[h[1]][h[2]] = Warehouse[h[1]][h[2]]
    /\ pc \in {"options", "connect", "databases", "tables", "execute", "partition", "done"}
    /\ databases \subseteq run.databases \ {database}
    /\ tables \subseteq run.tables
    /\ columns \subseteq STRING /\ cursor \in Seq(STRING)
    /\ pc = "execute" => at \in DOMAIN Prog.steps /\ table \notin tables
    /\ output \in Seq(Range(output)) /\ \A l \in DOMAIN output : Len(output[l]) = 3
    /\ \A h \in handled \union skipped : Selected(h) /\ h[1] \notin databases
    /\ handled \intersect skipped = {}
    /\ exit \in {"running", "0", "1", "3"}
    /\ (exit = "running") = (pc # "done")

(* Exit code 0 means that every table nobody touched meanwhile, of all the *)
(* databases one is authorized for, was done; if it was passed over, then  *)
(* because --ignore-errors was given and a statement for it failed.  One   *)
(* table's error, and what others do to other tables, hides none.  (the    *)
(* loops of run and process_database)                                      *)
ZeroMeansAll ==
    exit = "0" =>
        \A h \in held :
            (Selected(h) /\ h[1] \notin run.denied) =>
                \/ h \in handled
                \/ /\ h \in skipped
                   /\ run.ignore
                   /\ Warehouse[h[1]][h[2]].error # "none" \/ Contains(foreign, "disconnect")

(* What a line says of a table that stayed as it was.  A column that        *)
(* hive_tables_null_columns lists is NULL wherever any column is, and all   *)
(* that are only NULLs are listed; that those listed are only NULLs, as the *)
(* line printed has it, is not so: the query passes over the rows without a *)
(* NULL in them, which such a column may have.                              *)
True(t, v) ==
    LET all == DOMAIN t.rows
        NullIn(c) == {k \in all : c \in t.rows[k].nulls}
        Has(k) == t.columns \intersect t.rows[k].nulls
    IN  CASE run.tool = "tables_column_counts" -> v = Cardinality(t.columns)
          [] run.tool = "tables_row_column_counts" -> v = <<Len(t.rows), Cardinality(t.columns)>>
          [] run.tool = "tables_null_rows" -> v = Cardinality({k \in all : Has(k) = t.columns})
          [] run.tool = "tables_row_counts_any_nulls" -> v = Cardinality({k \in all : Has(k) # {}})
          [] run.tool = "tables_null_columns" ->
               /\ \A c \in v, b \in t.columns : NullIn(c) # {} /\ NullIn(b) \subseteq NullIn(c)
               /\ \A c \in t.columns : (all # {} /\ NullIn(c) = all) => c \in v
          [] run.tool = "tables_row_counts" ->
               v[2] = Cardinality({k \in all : t.rows[k].part = v[1]})
          [] run.tool = "schemas_csv" -> v = t.columns
          [] OTHER -> TRUE

(* The statements for a table are sent one after the other, some built     *)
(* from the answer to an earlier one: for a table that stayed as it was    *)
(* the numbers printed are its own all the same, each partition with its   *)
(* own rows; no column that is only NULLs is left out, and none is listed  *)
(* that has a value in a row where another has none.  (the execute methods) *)
LinesAreTrue ==
    \A l \in DOMAIN output :
        <<output[l][1], output[l][2]>> \in held =>
            True(Warehouse[output[l][1]][output[l][2]], output[l][3])

(* "get rows counts for all tables in all databases, or only those         *)
(* matching given db / table / partition value regexes": of a table that   *)
(* was done, every partition that matches has its line.                    *)
EveryPartitionCounted ==
    (exit = "0" /\ run.tool = "tables_row_counts") =>
        \A h \in held \intersect handled :
            \A k \in DOMAIN Warehouse[h[1]][h[2]].parts :
                LET p == Warehouse[h[1]][h[2]].parts[k] IN
                p \in run.parts => \E l \in DOMAIN output : output[l][2] = h[2] /\ output[l][3][1] = p

-----------------------------------------------------------------------------
(* What the invariants rest on.  A table is looked at once, and what is     *)
(* listed is of the current database.                                       *)
Phases ==
    /\ pc \in {"options", "connect"} =>
         /\ databases = {} /\ database = "None" /\ tables = {}
         /\ handled = {} /\ skipped = {}
    /\ pc = "databases" => tables = {}
    /\ pc \in {"tables", "execute", "partition"} =>
         /\ database \in run.databases
         /\ \A t \in tables : <<database, t>> \notin handled \union skipped
    /\ pc \in {"execute", "partition"} =>
         /\ table \in run.tables \ tables
         /\ <<database, table>> \notin handled \union skipped
    /\ pc = "partition" => run.tool \in {"tables_row_counts", "compute_table_stats"}
    /\ ~connected => Contains(foreign, "disconnect")

(* Every table asked for that stayed as it was is still to come, or is      *)
(* being worked on, or was done or passed over for a reason.                *)
Reason(h) == run.ignore /\ (Warehouse[h[1]][h[2]].error # "none" \/ Contains(foreign, "disconnect"))
Coming(h) ==
    \/ h[1] \in databases
    \/ h[1] = database /\ pc \in {"tables", "execute", "partition"} /\ h[2] \in tables
    \/ h[1] = database /\ pc \in {"execute", "partition"} /\ h[2] = table
Accounted ==
    pc \notin {"options", "connect", "done"} =>
        \A h \in held :
            Selected(h) /\ h[1] \notin run.denied =>
                Coming(h) \/ h \in handled \/ (h \in skipped /\ Reason(h))

(* What an earlier statement said of a table that stayed as it was.         *)
Describers ==
    {"tables_row_column_counts", "tables_null_rows", "tables_row_counts_any_nulls", "tables_null_columns"}
Remembered ==
    pc = "execute" /\ at = 3 /\ <<database, table>> \in held =>
        /\ run.tool \in Describers => columns = Warehouse[database][table].columns
        /\ run.tool = "tables_row_counts" => Warehouse[database][table].parts = <<"none">>

IInv ==
    /\ TypeOK /\ Phases /\ Accounted /\ Remembered
    /\ ZeroMeansAll /\ LinesAreTrue
=============================================================================
