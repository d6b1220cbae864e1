-------------------------- MODULE ForeachTableProofs --------------------------
(* Proofs about ForeachTable: a program that ends with 0 has been at every  *)
(* table it was asked for, and what it prints of a table is true of it, for *)
(* any warehouse, options and changes by others.                            *)
EXTENDS ForeachTable, FiniteSetTheorems, SequenceTheorems, TLAPS

(* The statements of each program.                                          *)
Steps(tool) ==
    CASE tool = "foreach_table" -> <<"query">>
      [] tool = "tables_list" -> <<"print">>
      [] tool \in {"tables_column_counts", "tables_metadata", "tables_locations", "schemas_csv"} ->
           <<"use", "describe">>
      [] tool = "tables_row_column_counts" -> <<"use", "describe", "query">>
      [] tool \in {"tables_null_rows", "tables_row_counts_any_nulls", "tables_null_columns"} ->
           <<"use", "describe", "where">>
      [] OTHER -> <<"use", "partitions", "query">>

LEMMA ProgramFacts ==
    ASSUME TypeOK
    PROVE  /\ run.tool \in {"foreach_table", "tables_list", "tables_column_counts",
                "tables_row_column_counts", "tables_null_rows", "tables_row_counts_any_nulls",
                "tables_null_columns", "tables_metadata", "tables_locations", "tables_row_counts",
                "schemas_csv", "compute_table_stats"}
           /\ Prog.steps = Steps(run.tool)
           /\ run.tool = "compute_table_stats" => Prog.ignores = {}
<1> DEFINE Tools == {"foreach_table", "tables_list", "tables_column_counts",
                "tables_row_column_counts", "tables_null_rows", "tables_row_counts_any_nulls",
                "tables_null_columns", "tables_metadata", "tables_locations", "tables_row_counts",
                "schemas_csv", "compute_table_stats"}
<1>1. run.tool \in Tools /\ run.server \in {"hive", "impala"}
  BY RunsAssumption DEF TypeOK, HivePrograms, Programs
<1>2. Prog = HivePrograms[run.tool]
  <2>1. ImpalaPrograms = HivePrograms
    BY DEF ImpalaPrograms, HivePrograms, ImpalaForEachTable, ImpalaTablesList,
           ImpalaTablesColumnCounts, ImpalaTablesRowColumnCounts, ImpalaTablesNullRows,
           ImpalaTablesRowsWithNulls, ImpalaTablesNullColumns, ImpalaTablesMetadata,
           ImpalaTablesLocations, ImpalaTablesRowCounts, ImpalaSchemasCSV, ImpalaComputeTableStats
  <2>2. Programs[run.server] = HivePrograms
    BY <1>1, <2>1 DEF Programs
  <2>3. QED
    BY <2>2 DEF Prog
<1>3. /\ HivePrograms[run.tool].steps = Steps(run.tool)
      /\ run.tool = "compute_table_stats" => HivePrograms[run.tool].ignores = {}
  <2>0. \A s : ForEach(s).steps = s
    BY DEF ForEach, HiveForEachTable
  <2> USE DEF HivePrograms, Steps
  <2>1. CASE run.tool \in {"foreach_table", "tables_list", "tables_column_counts"}
    BY <2>0, <2>1 DEF HiveForEachTable, HiveTablesList, HiveTablesColumnCounts
  <2>2. CASE run.tool \in {"tables_row_column_counts", "tables_null_rows", "tables_row_counts_any_nulls"}
    BY <2>0, <2>2 DEF HiveTablesRowColumnCounts, HiveTablesNullRows, HiveTablesRowsWithNulls
  <2>3. CASE run.tool \in {"tables_null_columns", "tables_metadata", "tables_locations"}
    BY <2>0, <2>3 DEF HiveTablesNullColumns, HiveTablesMetadata, HiveTablesLocations
  <2>4. CASE run.tool = "tables_row_counts"
    <3>1. HiveTablesRowCounts.steps = <<"use", "partitions", "query">>
      BY DEF HiveTablesRowCounts
    <3>2. QED
      BY <2>4, <3>1
  <2>5. CASE run.tool = "schemas_csv"
    BY <2>5 DEF HiveSchemasCSV
  <2>6. CASE run.tool = "compute_table_stats"
    BY <2>6 DEF ComputeTableStats
  <2>7. QED
    BY <1>1, <2>1, <2>2, <2>3, <2>4, <2>5, <2>6
<1>4. QED
  BY <1>1, <1>2, <1>3

(* Which statements there may be, and after which others.                   *)
LEMMA StepsFacts ==
    ASSUME TypeOK, NEW k \in DOMAIN Prog.steps
    PROVE  /\ k \in 1..3 /\ 1 \in DOMAIN Prog.steps
           /\ Prog.steps[k] \in {"use", "partitions"} => k + 1 \in DOMAIN Prog.steps
           /\ Prog.steps[k] = "use" => k = 1
           /\ Prog.steps[k] = "partitions" =>
                k = 2 /\ run.tool \in {"tables_row_counts", "compute_table_stats"}
           /\ Prog.steps[k] = "describe" =>
                k = 2 /\ (k = Len(Prog.steps) \/ k + 1 \in DOMAIN Prog.steps)
           /\ Prog.steps[k] = "describe" /\ k = Len(Prog.steps) =>
                run.tool \in {"tables_column_counts", "tables_metadata", "tables_locations", "schemas_csv"}
           /\ Prog.steps[k] = "print" => run.tool = "tables_list"
           /\ Prog.steps[k] = "where" =>
                k = 3 /\ run.tool \in {"tables_null_rows", "tables_row_counts_any_nulls", "tables_null_columns"}
           /\ Prog.steps[k] = "query" =>
                \/ run.tool \in {"foreach_table", "compute_table_stats"}
                \/ k = 3 /\ run.tool \in {"tables_row_column_counts", "tables_row_counts"}
<1> USE DEF Steps
<1>1. CASE run.tool \in {"foreach_table", "tables_list"}
  BY <1>1, ProgramFacts
<1>2. CASE run.tool \in {"tables_column_counts", "tables_metadata", "tables_locations", "schemas_csv"}
  <2>1. Prog.steps = <<"use", "describe">>
    BY <1>2, ProgramFacts
  <2>2. k \in {1, 2} /\ Len(Prog.steps) = 2 /\ DOMAIN Prog.steps = {1, 2}
    BY <2>1
  <2>3. CASE k = 1
    BY <1>2, <2>1, <2>2, <2>3
  <2>4. CASE k = 2
    BY <1>2, <2>1, <2>2, <2>4
  <2>5. QED
    BY <2>2, <2>3, <2>4
<1>3. CASE run.tool = "tables_row_column_counts"
  BY <1>3, ProgramFacts
<1>4. CASE run.tool \in {"tables_null_rows", "tables_row_counts_any_nulls", "tables_null_columns"}
  BY <1>4, ProgramFacts
<1>5. CASE run.tool \in {"tables_row_counts", "compute_table_stats"}
  BY <1>5, ProgramFacts
<1>6. QED
  BY <1>1, <1>2, <1>3, <1>4, <1>5, ProgramFacts

(* The statements of every program: 1 is one.                               *)
LEMMA FirstStep == ASSUME TypeOK PROVE 1 \in DOMAIN Prog.steps
BY ProgramFacts DEF Steps

-----------------------------------------------------------------------------
LEMMA ContainsAppend ==
    ASSUME NEW S, NEW s \in Seq(S), NEW e \in S
    PROVE  /\ Append(s, e) \in Seq(S) /\ Contains(Append(s, e), e)
           /\ \A x : Contains(s, x) => Contains(Append(s, e), x)
<1>1. /\ Append(s, e) \in Seq(S) /\ Len(Append(s, e)) = Len(s) + 1 /\ Len(s) \in Nat
      /\ Append(s, e)[Len(s) + 1] = e /\ \A k \in 1..Len(s) : Append(s, e)[k] = s[k]
  OBVIOUS
<1>2. Len(s) + 1 \in 1..Len(Append(s, e)) /\ \A k \in 1..Len(s) : k \in 1..Len(Append(s, e))
  BY <1>1
<1>3. QED
  BY <1>1, <1>2 DEF Contains

(* Others, and the server.  What nobody touched is what it was.             *)
Meanwhile ==
    \/ Disconnect
    \/ \E d \in DOMAIN warehouse :
         \/ DropDatabase(d)
         \/ \E t \in DOMAIN warehouse[d] : DropTable(d, t) \/ ReplaceTable(d, t)

LEMMA MeanwhileFacts ==
    ASSUME TypeOK, Meanwhile
    PROVE  /\ UNCHANGED <<run, pc, names, statement, result, exit>>
           /\ pc \notin {"options", "connect", "done"}
           /\ held' \subseteq held
           /\ foreign' \in Seq(Happenings)
           /\ \A x : Contains(foreign, x) => Contains(foreign', x)
           /\ connected' \in BOOLEAN
           /\ ~connected' => ~connected \/ Contains(foreign', "disconnect")
<1>1. ASSUME NEW what \in Happenings, Foreign(what)
      PROVE  /\ UNCHANGED <<run, pc, names, statement, result, exit>>
             /\ pc \notin {"options", "connect", "done"}
             /\ foreign' \in Seq(Happenings) /\ Contains(foreign', what)
             /\ \A x : Contains(foreign, x) => Contains(foreign', x)
  <2>1. foreign \in Seq(Happenings) /\ foreign' = Append(foreign, what)
    BY <1>1 DEF Foreign, TypeOK
  <2>2. QED
    BY <1>1, <2>1, ContainsAppend DEF Foreign
<1>2. CASE Disconnect
  <2>1. Foreign("disconnect") /\ connected' = FALSE /\ held' = held
    BY <1>2 DEF Disconnect
  <2>2. "disconnect" \in Happenings
    BY DEF Happenings
  <2>3. QED
    BY <1>1, <2>1, <2>2
<1>3. CASE ~Disconnect
  <2>1. connected' = connected /\ held' \subseteq held
    BY <1>3 DEF Meanwhile, DropDatabase, DropTable, ReplaceTable
  <2>2. Foreign("drop database") \/ Foreign("drop table") \/ Foreign("replace table")
    BY <1>3 DEF Meanwhile, DropDatabase, DropTable, ReplaceTable
  <2>3. connected' \in BOOLEAN /\ (~connected' => ~connected)
    BY <2>1 DEF TypeOK
  <2>4. PICK what \in Happenings : Foreign(what)
    BY <2>2 DEF Happenings
  <2>5. QED
    BY <1>1, <2>1, <2>3, <2>4
<1>4. QED
  BY <1>2, <1>3

Untouched(w, hs) ==
    /\ DOMAIN w \subseteq DOMAIN Warehouse
    /\ \A d \in DOMAIN w : \A t \in DOMAIN w[d] : t \in DOMAIN Warehouse[d] /\ w[d][t] \in TableType
    /\ hs \subseteq UNION {Database(d) : d \in DOMAIN Warehouse}
    /\ \A h \in hs : /\ h[1] \in DOMAIN w /\ h[2] \in DOMAIN w[h[1]]
                     /\ w[h[1]][h[2]] = Warehouse[h[1]][h[2]]

LEMMA Pairs ==
    ASSUME NEW h \in UNION {Database(d) : d \in DOMAIN Warehouse}
    PROVE  h = <<h[1], h[2]>> /\ h[1] \in DOMAIN Warehouse /\ h[2] \in DOMAIN Warehouse[h[1]]
BY DEF Database

LEMMA MeanwhileTouches ==
    ASSUME TypeOK, Meanwhile
    PROVE  Untouched(warehouse', held')
<1>1. Untouched(warehouse, held)
  BY DEF TypeOK, Untouched
<1>2. CASE Disconnect
  BY <1>1, <1>2 DEF Disconnect
<1>3. ASSUME NEW d \in DOMAIN warehouse, DropDatabase(d)
      PROVE  Untouched(warehouse', held')
  BY <1>1, <1>3 DEF DropDatabase, Untouched
<1>4. ASSUME NEW d \in DOMAIN warehouse, NEW t \in DOMAIN warehouse[d], NEW new,
             warehouse' = [warehouse EXCEPT ![d] = new], held' = held \ {<<d, t>>},
             \A x \in DOMAIN new : x \in DOMAIN warehouse[d] /\ new[x] \in TableType,
             \A x \in DOMAIN warehouse[d] \ {t} : x \in DOMAIN new /\ new[x] = warehouse[d][x]
      PROVE  Untouched(warehouse', held')
  <2>1. DOMAIN warehouse' = DOMAIN warehouse /\ warehouse'[d] = new
        /\ \A e \in DOMAIN warehouse \ {d} : warehouse'[e] = warehouse[e]
    BY <1>4
  <2>2. \A e \in DOMAIN warehouse' : \A x \in DOMAIN warehouse'[e] :
          x \in DOMAIN Warehouse[e] /\ warehouse'[e][x] \in TableType
    <3>1. ASSUME NEW e \in DOMAIN warehouse, NEW x \in DOMAIN warehouse'[e]
          PROVE  x \in DOMAIN Warehouse[e] /\ warehouse'[e][x] \in TableType
      <4>1. CASE e = d
        BY <1>1, <1>4, <2>1, <3>1, <4>1 DEF Untouched
      <4>2. CASE e # d
        BY <1>1, <2>1, <3>1, <4>2 DEF Untouched
      <4>3. QED
        BY <4>1, <4>2
    <3>2. QED
      BY <2>1, <3>1
  <2>3. ASSUME NEW h \in held'
        PROVE  /\ h[1] \in DOMAIN warehouse' /\ h[2] \in DOMAIN warehouse'[h[1]]
               /\ warehouse'[h[1]][h[2]] = Warehouse[h[1]][h[2]]
    <3>1. h \in held /\ h # <<d, t>> /\ h = <<h[1], h[2]>>
      BY <1>1, <1>4, Pairs DEF Untouched
    <3>2. CASE h[1] = d
      <4>1. h[2] # t
        BY <3>1, <3>2
      <4>2. QED
        BY <1>1, <1>4, <2>1, <3>1, <3>2, <4>1 DEF Untouched
    <3>3. CASE h[1] # d
      BY <1>1, <2>1, <3>1, <3>3 DEF Untouched
    <3>4. QED
      BY <3>2, <3>3
  <2>4. QED
    BY <1>1, <1>4, <2>1, <2>2, <2>3 DEF Untouched
<1>5. ASSUME NEW d \in DOMAIN warehouse, NEW t \in DOMAIN warehouse[d], DropTable(d, t)
      PROVE  Untouched(warehouse', held')
  <2> DEFINE new == [x \in DOMAIN warehouse[d] \ {t} |-> warehouse[d][x]]
  <2>1. \A x \in DOMAIN new : x \in DOMAIN warehouse[d] /\ new[x] \in TableType
    BY <1>1 DEF Untouched
  <2>2. \A x \in DOMAIN warehouse[d] \ {t} : x \in DOMAIN new /\ new[x] = warehouse[d][x]
    OBVIOUS
  <2>3. warehouse' = [warehouse EXCEPT ![d] = new] /\ held' = held \ {<<d, t>>}
    BY <1>5 DEF DropTable
  <2> HIDE DEF new
  <2>4. QED
    BY <1>4, <2>1, <2>2, <2>3
<1>6. ASSUME NEW d \in DOMAIN warehouse, NEW t \in DOMAIN warehouse[d], ReplaceTable(d, t)
      PROVE  Untouched(warehouse', held')
  <2>1. PICK o \in Others : warehouse' = [warehouse EXCEPT ![d] = [warehouse[d] EXCEPT ![t] = o]]
    BY <1>6 DEF ReplaceTable
  <2> DEFINE new == [warehouse[d] EXCEPT ![t] = o]
  <2>2. DOMAIN new = DOMAIN warehouse[d] /\ new[t] = o
        /\ \A x \in DOMAIN warehouse[d] \ {t} : new[x] = warehouse[d][x]
    OBVIOUS
  <2>3. o \in TableType
    BY WarehouseAssumption
  <2>4. warehouse' = [warehouse EXCEPT ![d] = new] /\ held' = held \ {<<d, t>>}
    BY <1>6, <2>1 DEF ReplaceTable
  <2> HIDE DEF new
  <2>5. \A x \in DOMAIN new : x \in DOMAIN warehouse[d] /\ new[x] \in TableType
    BY <1>1, <2>2, <2>3 DEF Untouched
  <2>6. \A x \in DOMAIN warehouse[d] \ {t} : x \in DOMAIN new /\ new[x] = warehouse[d][x]
    BY <2>2
  <2>7. QED
    BY <1>4, <2>4, <2>5, <2>6
<1>7. QED
  BY <1>2, <1>3, <1>5, <1>6 DEF Meanwhile

-----------------------------------------------------------------------------
(* The table at hand, when nobody touched it.                               *)
Mine == <<database, table>> \in held

LEMMA MineFacts ==
    ASSUME TypeOK, Mine
    PROVE  /\ Exists(table) /\ Here = Warehouse[database][table] /\ Here \in TableType
           /\ database \in DOMAIN warehouse
           /\ \A k \in DOMAIN Here.rows : Here.rows[k].part \in Range(Here.parts)
<1>1. /\ database \in DOMAIN warehouse /\ table \in DOMAIN warehouse[database]
      /\ warehouse[database][table] = Warehouse[database][table]
      /\ database \in DOMAIN Warehouse /\ table \in DOMAIN Warehouse[database]
  BY DEF TypeOK, Mine
<1>2. QED
  BY <1>1, WarehouseAssumption DEF Exists, Here

(* A statement about it fails because the table is one that fails, or the   *)
(* session is lost.                                                         *)
LEMMA RaisesReason ==
    ASSUME TypeOK, Phases, Mine, pc \in {"execute", "partition"}, run.ignore,
           NEW broken \in SUBSET {"select"}, Raises(table, broken) # "no"
    PROVE  Reason(<<database, table>>)
<1>1. Warehouse[database][table].error \in {"none", "select", "describe"}
  BY MineFacts DEF TableType
<1>2. ~connected => Contains(foreign, "disconnect")
  BY DEF Phases
<1>3. QED
  BY <1>1, <1>2, MineFacts DEF Raises, Reason, Here

(* How a statement may end: the table is passed over, or done with a line   *)
(* that is true of it, or there is another statement, or its partitions are *)
(* listed, or the next of them is read.                                     *)
Told(v) == Mine => True(Warehouse[database][table], v)
Passes ==
    \E e : /\ Fail(e)
           /\ Mine /\ run.ignore /\ e \in Prog.ignores => Reason(<<database, table>>)
Finishes == Done(<<>>) \/ \E v : Told(v) /\ Done(<<<<database, table, v>>>>)
GoesOn ==
    /\ pc = "execute" /\ at' = at + 1 /\ at + 1 \in DOMAIN Prog.steps /\ columns' \subseteq STRING
    /\ UNCHANGED <<pc, exit, cursor, result>>
    /\ Remembered'
Lists ==
    /\ pc = "execute" /\ run.tool \in {"tables_row_counts", "compute_table_stats"}
    /\ pc' = "partition" /\ cursor' \in Seq(STRING)
    /\ UNCHANGED <<exit, at, columns, result>>
Reads ==
    /\ pc = "partition" /\ cursor' \in Seq(STRING)
    /\ UNCHANGED <<pc, exit, at, columns, handled, skipped>>
    /\ \/ output' = output
       \/ \E v : Told(v) /\ output' = Append(output, <<database, table, v>>)
Outcome == Passes \/ Finishes \/ GoesOn \/ Lists \/ Reads

LEMMA PrintTableOutcome ==
    ASSUME TypeOK, Phases, Remembered, PrintTable
    PROVE  Outcome
<1>1. Told("listed")
  BY StepsFacts DEF PrintTable, Statement, TypeOK, Told, True
<1>2. Finishes
  BY <1>1 DEF PrintTable, Finishes
<1>3. QED
  BY <1>2 DEF Outcome

LEMMA UseOutcome ==
    ASSUME TypeOK, Phases, Remembered, Use
    PROVE  Outcome
<1>1. pc = "execute" /\ at \in DOMAIN Prog.steps /\ Prog.steps[at] = "use"
  BY DEF Use, Statement, TypeOK
<1>2. at + 1 \in DOMAIN Prog.steps /\ at = 1
  BY <1>1, StepsFacts
<1>3. CASE ~connected \/ database \notin DOMAIN warehouse
  <2>1. PICK e : Fail(e)
    BY <1>3 DEF Use
  <2>2. Mine /\ run.ignore => Reason(<<database, table>>)
    BY <1>1, <1>3, MineFacts DEF Phases, Reason
  <2>3. QED
    BY <2>1, <2>2 DEF Outcome, Passes
<1>4. CASE connected /\ database \in DOMAIN warehouse
  <2>1. at' = at + 1 /\ UNCHANGED <<pc, exit, columns, cursor, result>>
    BY <1>4 DEF Use
  <2>2. at' # 3
    BY <1>2, <2>1
  <2>3. QED
    BY <1>1, <1>2, <2>1, <2>2 DEF Outcome, GoesOn, Remembered, TypeOK
<1>5. QED
  BY <1>3, <1>4

LEMMA DescribeOutcome ==
    ASSUME TypeOK, Phases, Remembered, Describe
    PROVE  Outcome
<1>1. pc = "execute" /\ at \in DOMAIN Prog.steps /\ Prog.steps[at] = "describe"
      /\ UNCHANGED <<run, env, names>>
  BY DEF Describe, Statement, TypeOK
<1>2. at = 2 /\ (at = Len(Prog.steps) \/ at + 1 \in DOMAIN Prog.steps)
  BY <1>1, StepsFacts
<1>3. CASE Raises(table, {}) # "no"
  <2>1. Fail(Raises(table, {}))
    BY <1>3 DEF Describe
  <2>2. Mine /\ run.ignore => Reason(<<database, table>>)
    BY <1>1, <1>3, RaisesReason
  <2>3. QED
    BY <2>1, <2>2 DEF Outcome, Passes
<1>4. CASE Raises(table, {}) = "no" /\ at = Len(Prog.steps)
  <2>1. Done(<<<<database, table, Described>>>>)
    BY <1>4 DEF Describe
  <2>2. run.tool \in {"tables_column_counts", "tables_metadata", "tables_locations", "schemas_csv"}
    BY <1>1, <1>4, StepsFacts
  <2>3. Told(Described)
    BY <2>2, MineFacts DEF Told, True, Described
  <2>4. QED
    BY <2>1, <2>3 DEF Outcome, Finishes
<1>5. CASE Raises(table, {}) = "no" /\ at # Len(Prog.steps)
  <2>1. columns' = Here.columns /\ at' = at + 1 /\ UNCHANGED <<pc, exit, cursor, result>>
    BY <1>5 DEF Describe
  <2>2. Exists(table)
    BY <1>5 DEF Raises
  <2>3. Here \in TableType
    BY <2>2 DEF Exists, Here, TypeOK
  <2>4. columns' \subseteq STRING
    BY <2>1, <2>3 DEF TableType
  <2>5. run.tool # "tables_row_counts"
    BY <1>1, ProgramFacts DEF Steps
  <2>6. UNCHANGED <<run, held, database, table>>
    BY <1>1 DEF env, names
  <2>7. Mine => columns' = Warehouse[database][table].columns
    BY <2>1, MineFacts
  <2>8. Remembered'
    BY <2>5, <2>6, <2>7 DEF Remembered, Mine
  <2>9. QED
    BY <1>1, <1>2, <1>5, <2>1, <2>4, <2>8 DEF Outcome, GoesOn
<1>6. QED
  BY <1>3, <1>4, <1>5

LEMMA QueryOutcome ==
    ASSUME TypeOK, Phases, Remembered, Query
    PROVE  Outcome
<1>1. pc = "execute" /\ at \in DOMAIN Prog.steps /\ Prog.steps[at] = "query"
  BY DEF Query, Statement, TypeOK
<1>2. CASE Raises(table, {"select"}) # "no"
  <2>1. Fail(Raises(table, {"select"}))
    BY <1>2 DEF Query
  <2>2. Mine /\ run.ignore => Reason(<<database, table>>)
    BY <1>1, <1>2, RaisesReason
  <2>3. QED
    BY <2>1, <2>2 DEF Outcome, Passes
<1>3. CASE Raises(table, {"select"}) = "no"
  <2>1. Done(<<<<database, table, Queried>>>>)
    BY <1>3 DEF Query
  <2>2. ASSUME Mine PROVE True(Warehouse[database][table], Queried)
    <3>1. Here = Warehouse[database][table] /\ Here \in TableType
          /\ \A k \in DOMAIN Here.rows : Here.rows[k].part \in Range(Here.parts)
      BY <2>2, MineFacts
    <3>2. CASE run.tool \in {"foreach_table", "compute_table_stats"}
      BY <3>2 DEF True
    <3>3. CASE at = 3 /\ run.tool = "tables_row_column_counts"
      <4>1. columns = Warehouse[database][table].columns
        BY <1>1, <2>2, <3>3 DEF Remembered, Describers, Mine
      <4>2. QED
        BY <3>1, <3>3, <4>1 DEF True, Queried
    <3>4. CASE at = 3 /\ run.tool = "tables_row_counts"
      <4>1. Here.parts = <<"none">>
        BY <1>1, <2>2, <3>1, <3>4 DEF Remembered, Mine
      <4>2. Range(Here.parts) = {"none"}
        BY <4>1 DEF Range
      <4> DEFINE n == Len(Here.rows)
      <4>3. n \in Nat /\ DOMAIN Here.rows = 1..n
        BY <3>1 DEF TableType
      <4>4. {k \in DOMAIN Here.rows : Here.rows[k].part = "none"} = 1..n
        BY <3>1, <4>2, <4>3
      <4>5. Cardinality(1..n) = n
        <5> HIDE DEF n
        <5>1. n \in Int /\ 1 \in Int
          BY <4>3
        <5>2. QED
          BY <4>3, <5>1, FS_Interval
      <4>6. Queried = <<"none", n>>
        BY <3>4 DEF Queried
      <4>7. QED
        BY <3>1, <3>4, <4>4, <4>5, <4>6 DEF True
    <3>5. QED
      BY <1>1, <3>2, <3>3, <3>4, StepsFacts
  <2>3. QED
    BY <2>1, <2>2 DEF Outcome, Finishes, Told
<1>4. QED
  BY <1>2, <1>3

LEMMA WhereOutcome ==
    ASSUME TypeOK, Phases, Remembered, Where
    PROVE  Outcome
<1>1. pc = "execute" /\ at \in DOMAIN Prog.steps /\ Prog.steps[at] = "where"
  BY DEF Where, Statement, TypeOK
<1>2. at = 3 /\ run.tool \in {"tables_null_rows", "tables_row_counts_any_nulls", "tables_null_columns"}
  BY <1>1, StepsFacts
<1>3. Mine => columns = Here.columns
  BY <1>1, <1>2, MineFacts DEF Remembered, Describers, Mine
<1>4. CASE Raises(table, {"select"}) # "no"
  <2>1. Fail(Raises(table, {"select"}))
    BY <1>4 DEF Where
  <2>2. Mine /\ run.ignore => Reason(<<database, table>>)
    BY <1>1, <1>4, RaisesReason
  <2>3. QED
    BY <2>1, <2>2 DEF Outcome, Passes
<1>5. CASE Raises(table, {"select"}) = "no" /\ ~(columns \subseteq Here.columns)
  <2>1. Fail("HiveServer2Error") /\ ~Mine
    BY <1>3, <1>5 DEF Where
  <2>2. QED
    BY <2>1 DEF Outcome, Passes
<1>6. CASE Raises(table, {"select"}) = "no" /\ columns \subseteq Here.columns
  <2>1. Done(<<<<database, table, NullsFound>>>>)
    BY <1>6 DEF Where
  <2>2. ASSUME Mine PROVE True(Here, NullsFound)
    <3> DEFINE t == Here
    <3>1. columns = t.columns
      BY <1>3, <2>2
    <3>2. CASE run.tool = "tables_null_rows"
      <4>1. {k \in DOMAIN t.rows : columns \subseteq t.rows[k].nulls}
              = {k \in DOMAIN t.rows : t.columns \intersect t.rows[k].nulls = t.columns}
        BY <3>1
      <4>2. QED
        BY <3>2, <4>1 DEF True, NullsFound, CountNulls
    <3>3. CASE run.tool = "tables_row_counts_any_nulls"
      <4>1. {k \in DOMAIN t.rows : \E c \in columns : c \in t.rows[k].nulls}
              = {k \in DOMAIN t.rows : t.columns \intersect t.rows[k].nulls # {}}
        BY <3>1
      <4>2. QED
        BY <3>3, <4>1 DEF True, NullsFound, CountNulls
    <3>4. CASE run.tool = "tables_null_columns"
      <4>1. NullsFound = OnlyNulls(t.rows)
        BY <3>4 DEF NullsFound
      <4>2. ASSUME NEW c \in OnlyNulls(t.rows), NEW b \in t.columns
            PROVE  /\ {k \in DOMAIN t.rows : c \in t.rows[k].nulls} # {}
                   /\ {k \in DOMAIN t.rows : b \in t.rows[k].nulls}
                        \subseteq {k \in DOMAIN t.rows : c \in t.rows[k].nulls}
        BY <3>1 DEF OnlyNulls
      <4>3. \A c \in t.columns :
              (DOMAIN t.rows # {} /\ {k \in DOMAIN t.rows : c \in t.rows[k].nulls} = DOMAIN t.rows)
                => c \in OnlyNulls(t.rows)
        BY <3>1 DEF OnlyNulls
      <4>4. QED
        BY <3>4, <4>1, <4>2, <4>3 DEF True
    <3>5. QED
      BY <1>2, <3>2, <3>3, <3>4
  <2>3. QED
    BY <2>1, <2>2, MineFacts DEF Outcome, Finishes, Told
<1>7. QED
  BY <1>4, <1>5, <1>6

LEMMA PartitionsOutcome ==
    ASSUME TypeOK, Phases, Remembered, Partitions
    PROVE  Outcome
<1>1. pc = "execute" /\ at \in DOMAIN Prog.steps /\ Prog.steps[at] = "partitions"
      /\ UNCHANGED <<run, env, names>>
  BY DEF Partitions, Statement, TypeOK
<1>2. at = 2 /\ at + 1 \in DOMAIN Prog.steps /\ run.tool \in {"tables_row_counts", "compute_table_stats"}
  BY <1>1, StepsFacts
<1> DEFINE stats == run.tool = "compute_table_stats"
           t == IF stats THEN database ELSE table
           parts == warehouse[database][t].parts
<1>3. CASE Raises(t, {}) # "no" \/ (parts = <<"none">> /\ stats)
  <2>1. PICK e : Fail(e) /\ (~stats => e = Raises(table, {}))
    BY <1>3 DEF Partitions
  <2>2. Mine /\ run.ignore /\ ~stats => Reason(<<database, table>>)
    BY <1>1, <1>3, RaisesReason
  <2>3. stats => Prog.ignores = {}
    BY ProgramFacts
  <2>4. QED
    BY <2>1, <2>2, <2>3 DEF Outcome, Passes
<1>4. CASE Raises(t, {}) = "no" /\ ~(parts = <<"none">> /\ stats)
  <2>1. t \in DOMAIN warehouse[database] /\ database \in DOMAIN warehouse
    BY <1>4 DEF Raises, Exists
  <2>2. warehouse[database][t] \in TableType
    BY <2>1 DEF TypeOK
  <2>3. CASE parts = <<"none">> \/ (parts = <<>> /\ stats)
    <3>1. at' = at + 1 /\ UNCHANGED <<pc, exit, columns, cursor, result>>
      BY <1>4, <2>3 DEF Partitions
    <3>2. UNCHANGED <<run, held, database, table>>
      BY <1>1 DEF env, names
    <3>3. Mine /\ ~stats => Warehouse[database][table].parts = <<"none">>
      BY <1>4, <2>3, MineFacts DEF Here
    <3>4. Remembered'
      BY <1>2, <3>2, <3>3 DEF Remembered, Mine, Describers
    <3>5. QED
      BY <1>1, <1>2, <3>1, <3>4 DEF Outcome, GoesOn, TypeOK
  <2>4. CASE ~(parts = <<"none">> \/ (parts = <<>> /\ stats))
    <3>1. cursor' = parts /\ Goto("partition") /\ UNCHANGED <<at, columns, result>>
      BY <1>4, <2>4 DEF Partitions
    <3>2. cursor' \in Seq(STRING)
      BY <2>2, <3>1 DEF TableType
    <3>3. QED
      BY <1>1, <1>2, <3>1, <3>2 DEF Outcome, Lists, Goto
  <2>5. QED
    BY <2>3, <2>4
<1>5. QED
  BY <1>3, <1>4

LEMMA PartitionOutcome ==
    ASSUME TypeOK, Phases, Remembered, SkipPartition \/ PartitionsDone \/ CountPartition
    PROVE  Outcome
<1>1. pc = "partition" /\ run.tool \in {"tables_row_counts", "compute_table_stats"}
  BY DEF SkipPartition, PartitionsDone, CountPartition, Phases
<1>2. CASE SkipPartition
  <2>1. cursor' \in Seq(STRING) /\ output' = output
    <3>1. cursor \in Seq(STRING) /\ cursor # <<>> /\ cursor' = Tail(cursor) /\ UNCHANGED result
      BY <1>2 DEF SkipPartition, TypeOK
    <3>2. QED
      BY <3>1 DEF result
  <2>2. UNCHANGED <<pc, exit, at, columns, handled, skipped>>
    BY <1>2 DEF SkipPartition, result
  <2>3. QED
    BY <1>1, <2>1, <2>2 DEF Outcome, Reads
<1>3. CASE PartitionsDone
  BY <1>3 DEF PartitionsDone, Outcome, Finishes
<1>4. CASE CountPartition /\ Raises(table, {"select"}) # "no"
  <2>1. Fail(Raises(table, {"select"}))
    BY <1>4 DEF CountPartition
  <2>2. Mine /\ run.ignore => Reason(<<database, table>>)
    BY <1>1, <1>4, RaisesReason
  <2>3. QED
    BY <2>1, <2>2 DEF Outcome, Passes
<1>5. CASE CountPartition /\ Raises(table, {"select"}) = "no" /\ run.tool = "compute_table_stats"
  <2>1. Fail("other") /\ Prog.ignores = {}
    BY <1>5, ProgramFacts DEF CountPartition
  <2>2. QED
    BY <2>1 DEF Outcome, Passes
<1>6. CASE CountPartition /\ Raises(table, {"select"}) = "no" /\ run.tool # "compute_table_stats"
  <2> DEFINE v == Count(Here.rows, Head(cursor))
  <2>1. /\ output' = Append(output, <<database, table, v>>) /\ cursor' = <<>>
        /\ UNCHANGED <<pc, exit, at, columns, handled, skipped>>
    BY <1>6 DEF CountPartition
  <2>2. Told(v)
    BY <1>1, <1>6, MineFacts DEF Told, True, Count
  <2>3. cursor' \in Seq(STRING)
    BY <2>1
  <2> HIDE DEF v
  <2>4. QED
    BY <1>1, <2>1, <2>2, <2>3 DEF Outcome, Reads
<1>7. QED
  BY <1>2, <1>3, <1>4, <1>5, <1>6

Statements ==
    \/ PrintTable \/ Use \/ Describe \/ Query \/ Where
    \/ Partitions \/ SkipPartition \/ PartitionsDone \/ CountPartition

LEMMA StatementFacts ==
    ASSUME TypeOK, Phases, Remembered, Statements
    PROVE  /\ Outcome /\ pc \in {"execute", "partition"}
           /\ UNCHANGED <<run, warehouse, connected, held, foreign, databases, database, tables, table>>
<1>1. Outcome
  BY PrintTableOutcome, UseOutcome, DescribeOutcome, QueryOutcome, WhereOutcome, PartitionsOutcome,
     PartitionOutcome DEF Statements
<1>2. CASE PrintTable \/ Use \/ Describe \/ Query \/ Where \/ Partitions
  <2>1. pc = "execute" /\ UNCHANGED <<run, env, names>>
    BY <1>2 DEF PrintTable, Use, Describe, Query, Where, Partitions, Statement
  <2>2. QED
    BY <1>1, <2>1 DEF env, names
<1>3. CASE SkipPartition \/ PartitionsDone \/ CountPartition
  <2>1. pc = "partition" /\ UNCHANGED <<run, env, names>>
    BY <1>3 DEF SkipPartition, PartitionsDone, CountPartition
  <2>2. QED
    BY <1>1, <2>1 DEF env, names
<1>4. QED
  BY <1>2, <1>3 DEF Statements

-----------------------------------------------------------------------------
(* A line is printed after those that were.                                 *)
LEMMA OneLine ==
    ASSUME NEW s, s \in Seq(Range(s)), NEW x
    PROVE  /\ s \o <<x>> = Append(s, x) /\ s \o <<>> = s
           /\ Append(s, x) \in Seq(Range(Append(s, x)))
           /\ \A l \in DOMAIN Append(s, x) :
                (l \in DOMAIN s /\ Append(s, x)[l] = s[l]) \/ Append(s, x)[l] = x
<1> DEFINE new == Append(s, x)
           S == Range(s) \union {x}
<1>1. s \in Seq(S) /\ x \in S
  <2>1. Range(s) \subseteq S /\ x \in S
    OBVIOUS
  <2> HIDE DEF S
  <2>2. QED
    BY <2>1
<1> HIDE DEF S
<1>2. /\ new \in Seq(S) /\ Len(new) = Len(s) + 1 /\ Len(s) \in Nat /\ new[Len(s) + 1] = x
      /\ \A l \in 1..Len(s) : new[l] = s[l]
      /\ DOMAIN s = 1..Len(s) /\ DOMAIN new = 1..(Len(s) + 1)
  BY <1>1
<1>3. s \o <<x>> = new /\ s \o <<>> = s
  BY <1>1
<1>4. new \in [1..Len(new) -> Range(new)]
  <2>1. new = [l \in 1..Len(new) |-> new[l]]
    <3> HIDE DEF new
    <3>1. PICK n \in Nat : new \in [1..n -> S]
      BY <1>2, SeqDef
    <3>2. DOMAIN new = 1..n /\ DOMAIN new = 1..Len(new)
      BY <1>2, <3>1
    <3>3. QED
      BY <3>1, <3>2
  <2> HIDE DEF new
  <2>2. \A l \in 1..Len(new) : new[l] \in Range(new)
    BY <1>2 DEF Range
  <2>3. QED
    BY <2>1, <2>2
<1>5. new \in Seq(Range(new))
  <2> HIDE DEF new
  <2>1. Len(new) \in Nat
    BY <1>2
  <2>2. QED
    BY <1>4, <2>1, SeqDef
<1>6. QED
  BY <1>2, <1>3, <1>5

(* What a statement does to what is printed and done.                       *)
LEMMA OutcomeFacts ==
    ASSUME TypeOK, Outcome, pc \in {"execute", "partition"}
    PROVE  /\ \/ UNCHANGED output
              \/ \E v : Told(v) /\ output' = Append(output, <<database, table, v>>)
           /\ \/ UNCHANGED <<handled, skipped>> /\ pc' \in {"execute", "partition"}
              \/ UNCHANGED <<handled, skipped>> /\ pc' = "done"
              \/ handled' = handled \union {<<database, table>>} /\ UNCHANGED skipped /\ pc' = "tables"
              \/ /\ skipped' = skipped \union {<<database, table>>} /\ UNCHANGED handled /\ pc' = "tables"
                 /\ Mine => Reason(<<database, table>>)
           /\ pc' = "execute" => pc = "execute" /\ at' \in DOMAIN Prog.steps
           /\ pc' = "partition" => run.tool \in {"tables_row_counts", "compute_table_stats"} \/ pc = "partition"
           /\ columns' \subseteq STRING /\ cursor' \in Seq(STRING)
           /\ pc' = "done" => exit' = "1"
           /\ pc' # "done" => exit' = exit
<1>1. columns \subseteq STRING /\ cursor \in Seq(STRING) /\ output \in Seq(Range(output))
  BY DEF TypeOK
<1>2. CASE Passes
  <2>1. PICK e : /\ Fail(e)
                 /\ Mine /\ run.ignore /\ e \in Prog.ignores => Reason(<<database, table>>)
    BY <1>2 DEF Passes
  <2>2. QED
    BY <1>1, <2>1 DEF Fail, Goto, End
<1>3. CASE Finishes
  <2>1. PICK lines : Done(lines) /\ (lines = <<>> \/ \E v : Told(v) /\ lines = <<<<database, table, v>>>>)
    BY <1>3 DEF Finishes
  <2>2. \/ UNCHANGED output
        \/ \E v : Told(v) /\ output' = Append(output, <<database, table, v>>)
    <3>1. CASE lines = <<>>
      BY <1>1, <2>1, <3>1, OneLine DEF Done
    <3>2. ASSUME NEW v, Told(v), lines = <<<<database, table, v>>>>
          PROVE  output' = Append(output, <<database, table, v>>)
      <4> DEFINE x == <<database, table, v>>
      <4>1. output' = output \o <<x>>
        BY <2>1, <3>2 DEF Done
      <4> HIDE DEF x
      <4>2. output' = Append(output, x)
        BY <1>1, <4>1, OneLine
      <4>3. QED
        BY <4>2 DEF x
    <3>3. QED
      BY <2>1, <3>1, <3>2
  <2>3. QED
    BY <1>1, <2>1, <2>2 DEF Done, Goto
<1>4. CASE GoesOn
  BY <1>1, <1>4 DEF GoesOn, result
<1>5. CASE Lists
  BY <1>1, <1>5 DEF Lists, result
<1>6. CASE Reads
  BY <1>1, <1>6 DEF Reads
<1>7. QED
  BY <1>2, <1>3, <1>4, <1>5, <1>6 DEF Outcome

-----------------------------------------------------------------------------
(* The steps between the statements leave what was printed and done alone.  *)
LEMMA NextCases ==
    ASSUME [Next]_vars
    PROVE  \/ ProcessOptions \/ Refused \/ ShowDatabases
           \/ \E d \in databases : ProcessDatabase(d)
           \/ NextDatabase \/ Finish
           \/ \E t \in tables : ProcessTable(t)
           \/ Statements \/ Meanwhile \/ UNCHANGED vars
BY DEF Next, Statements, Meanwhile

LEMMA TypeStep == TypeOK /\ Phases /\ Remembered /\ [Next]_vars => TypeOK'
<1> SUFFICES ASSUME TypeOK, Phases, Remembered, [Next]_vars PROVE TypeOK'
  OBVIOUS
<1> USE DEF Goto, End
<1>1. CASE ProcessOptions
  BY <1>1 DEF ProcessOptions, TypeOK, env, names, statement, result, Prog, Selected
<1>2. CASE Refused
  <2>1. foreign' \in Seq(Happenings)
    BY <1>2, ContainsAppend DEF Refused, Happenings, TypeOK
  <2>2. QED
    BY <1>2, <2>1 DEF Refused, TypeOK, names, statement, result, Prog, Selected
<1>3. CASE ShowDatabases
  <2>1. /\ UNCHANGED <<run, warehouse, held, foreign, database, tables, table, statement, result>>
        /\ connected' = TRUE /\ databases' \subseteq DOMAIN Warehouse /\ databases' \subseteq run.databases
        /\ pc' = "databases" /\ UNCHANGED exit /\ pc = "connect"
    BY <1>3 DEF ShowDatabases, TypeOK
  <2>2. database = "None" /\ handled = {} /\ skipped = {}
    BY <2>1 DEF Phases
  <2>3. databases' \subseteq run'.databases \ {database'}
    BY <2>1, <2>2, WarehouseAssumption
  <2>4. QED
    BY <2>1, <2>2, <2>3 DEF TypeOK, statement, result, Prog, Selected
<1>4. ASSUME NEW d \in databases, ProcessDatabase(d) PROVE TypeOK'
  <2>1. /\ UNCHANGED <<run, warehouse, held, foreign, table, statement, result>>
        /\ databases' = databases \ {d} /\ database' = d /\ pc = "databases"
        /\ connected' = (connected \/ Prog.connects)
    BY <1>4 DEF ProcessDatabase
  <2>2. connected' \in BOOLEAN
    BY <2>1
  <2>3. tables' \subseteq run.tables
    BY <1>4 DEF ProcessDatabase, TypeOK
  <2>4. \/ pc' = "done" /\ exit' = "1"
        \/ pc' \in {"databases", "tables"} /\ exit' = exit
    BY <1>4 DEF ProcessDatabase
  <2>5. QED
    BY <2>1, <2>2, <2>3, <2>4 DEF TypeOK, statement, result, Selected
<1>5. CASE NextDatabase
  BY <1>5 DEF NextDatabase, TypeOK, env, names, statement, result, Prog, Selected
<1>6. CASE Finish
  BY <1>6 DEF Finish, TypeOK, env, names, statement, result, Prog, Selected
<1>7. ASSUME NEW t \in tables, ProcessTable(t) PROVE TypeOK'
  <2>1. /\ UNCHANGED <<run, env, databases, database, result>>
        /\ tables' = tables \ {t} /\ table' = t /\ at' = 1 /\ columns' = {} /\ cursor' = <<>>
        /\ pc = "tables"
    BY <1>7 DEF ProcessTable
  <2>2. \/ pc' = "done" /\ exit' = "1"
        \/ pc' = "execute" /\ exit' = exit
    BY <1>7 DEF ProcessTable
  <2>3. 1 \in DOMAIN Prog'.steps
    BY <2>1, FirstStep DEF Prog
  <2>4. cursor' \in Seq(STRING)
    BY <2>1
  <2>5. QED
    BY <2>1, <2>2, <2>3, <2>4 DEF TypeOK, env, result, Selected
<1>8. CASE Statements
  <2>1. /\ UNCHANGED <<run, warehouse, connected, held, foreign, databases, database, tables, table>>
        /\ pc \in {"execute", "partition"} /\ Outcome
    BY <1>8, StatementFacts
  <2>2. output' \in Seq(Range(output')) /\ \A l \in DOMAIN output' : Len(output'[l]) = 3
    <3>1. CASE UNCHANGED output
      BY <3>1 DEF TypeOK
    <3>2. ASSUME NEW v, output' = Append(output, <<database, table, v>>)
          PROVE  output' \in Seq(Range(output')) /\ \A l \in DOMAIN output' : Len(output'[l]) = 3
      BY <3>2, OneLine DEF TypeOK
    <3>3. QED
      BY <2>1, <3>1, <3>2, OutcomeFacts
  <2>3. Selected(<<database, table>>) /\ database \notin databases /\ table \notin tables
        /\ <<database, table>> \notin handled \union skipped
    BY <2>1 DEF Phases, Selected, TypeOK
  <2>4. /\ \A h \in handled' \union skipped' : Selected(h) /\ h[1] \notin databases
        /\ handled' \intersect skipped' = {}
    <3>1. /\ \A h \in handled \union skipped : Selected(h) /\ h[1] \notin databases
          /\ handled \intersect skipped = {}
      BY DEF TypeOK
    <3>2. CASE UNCHANGED <<handled, skipped>>
      BY <3>1, <3>2
    <3>3. CASE handled' = handled \union {<<database, table>>} /\ UNCHANGED skipped
      BY <2>3, <3>1, <3>3
    <3>4. CASE skipped' = skipped \union {<<database, table>>} /\ UNCHANGED handled
      BY <2>3, <3>1, <3>4
    <3>5. QED
      BY <2>1, <3>2, <3>3, <3>4, OutcomeFacts
  <2>5. /\ columns' \subseteq STRING /\ cursor' \in Seq(STRING)
        /\ pc' = "execute" => at' \in DOMAIN Prog.steps
        /\ pc' \in {"tables", "execute", "partition", "done"}
        /\ exit' \in {"running", "0", "1", "3"} /\ (exit' = "running") = (pc' # "done")
    BY <2>1, OutcomeFacts DEF TypeOK
  <2>6. Prog' = Prog /\ \A h : Selected(h)' <=> Selected(h)
    BY <2>1 DEF Prog, Selected
  <2>7. QED
    BY <2>1, <2>2, <2>3, <2>4, <2>5, <2>6 DEF TypeOK
<1>9. CASE Meanwhile
  <2>1. /\ UNCHANGED <<run, pc, databases, database, tables, table, at, columns, cursor, output, handled,
                       skipped, exit>>
        /\ foreign' \in Seq(Happenings) /\ connected' \in BOOLEAN
    BY <1>9, MeanwhileFacts DEF names, statement, result
  <2>2. Untouched(warehouse', held')
    BY <1>9, MeanwhileTouches
  <2>3. QED
    BY <2>1, <2>2 DEF TypeOK, Untouched, Prog, Selected
<1>10. CASE UNCHANGED vars
  BY <1>10 DEF vars, TypeOK, env, names, statement, result, Prog, Selected
<1>11. QED
  BY <1>1, <1>2, <1>3, <1>4, <1>5, <1>6, <1>7, <1>8, <1>9, <1>10, NextCases

-----------------------------------------------------------------------------
LEMMA PhasesStep == TypeOK /\ Phases /\ Remembered /\ [Next]_vars => Phases'
<1> SUFFICES ASSUME TypeOK, Phases, Remembered, [Next]_vars PROVE Phases'
  OBVIOUS
<1> USE DEF Goto, End, env, names, result
<1>1. CASE ProcessOptions \/ NextDatabase \/ Finish \/ UNCHANGED vars
  BY <1>1 DEF ProcessOptions, NextDatabase, Finish, vars, Phases
<1>2. CASE Refused
  <2>1. foreign \in Seq(Happenings) /\ "refuse" \in Happenings
    BY DEF TypeOK, Happenings
  <2>2. foreign' = Append(foreign, "refuse")
    BY <1>2 DEF Refused
  <2>3. \A x : Contains(foreign, x) => Contains(foreign', x)
    BY <2>1, <2>2, ContainsAppend
  <2>4. QED
    BY <1>2, <2>3 DEF Refused, Phases
<1>3. CASE ShowDatabases
  BY <1>3 DEF ShowDatabases, Phases
<1>4. ASSUME NEW d \in databases, ProcessDatabase(d) PROVE Phases'
  <2>1. /\ UNCHANGED <<run, foreign, handled, skipped>> /\ database' = d /\ pc = "databases" /\ tables = {}
        /\ ~connected' => ~connected
        /\ d \in run.databases
    BY <1>4 DEF ProcessDatabase, Phases, TypeOK
  <2>2. \/ pc' = "done"
        \/ pc' = "databases" /\ tables' = {}
        \/ pc' = "tables"
    BY <1>4, <2>1 DEF ProcessDatabase
  <2>3. \A t : <<d, t>> \notin handled \union skipped
    BY DEF TypeOK
  <2>4. QED
    BY <2>1, <2>2, <2>3 DEF Phases
<1>5. ASSUME NEW t \in tables, ProcessTable(t) PROVE Phases'
  <2>1. /\ UNCHANGED <<run, connected, foreign, database, handled, skipped>>
        /\ tables' = tables \ {t} /\ table' = t /\ pc = "tables" /\ pc' \in {"execute", "done"}
    BY <1>5 DEF ProcessTable
  <2>2. t \in run.tables
    BY DEF TypeOK
  <2>3. QED
    BY <2>1, <2>2 DEF Phases
<1>6. CASE Statements
  <2>1. /\ UNCHANGED <<run, connected, foreign, database, tables, table>>
        /\ pc \in {"execute", "partition"} /\ Outcome
    BY <1>6, StatementFacts
  <2>2. handled' \union skipped' \subseteq handled \union skipped \union {<<database, table>>}
        /\ pc' \in {"tables", "execute", "partition", "done"}
        /\ (pc' \in {"execute", "partition"} => UNCHANGED <<handled, skipped>>)
        /\ (pc' = "partition" => run.tool \in {"tables_row_counts", "compute_table_stats"})
    BY <2>1, OutcomeFacts DEF Phases
  <2>3. table \notin tables
    BY <2>1 DEF Phases
  <2>4. \A t \in tables : <<database, t>> \notin handled' \union skipped'
    BY <2>1, <2>2, <2>3 DEF Phases
  <2>5. QED
    BY <2>1, <2>2, <2>4 DEF Phases
<1>7. CASE Meanwhile
  BY <1>7, MeanwhileFacts DEF Phases
<1>8. QED
  BY <1>1, <1>2, <1>3, <1>4, <1>5, <1>6, <1>7, NextCases

(* No table is lost between the databases, the tables and the statements.   *)
LEMMA AccountedStep == TypeOK /\ Phases /\ Remembered /\ Accounted /\ [Next]_vars => Accounted'
<1> DEFINE Known(h) == Coming(h) \/ h \in handled \/ (h \in skipped /\ Reason(h))
<1> SUFFICES ASSUME TypeOK, Phases, Remembered, Accounted, [Next]_vars,
                    pc' \notin {"options", "connect", "done"},
                    NEW h \in held', Selected(h)', h[1] \notin run'.denied
             PROVE  Known(h)'
  BY DEF Accounted
<1> USE DEF Goto, End, env, names, result
<1>1. CASE ProcessOptions \/ Refused \/ Finish
  BY <1>1 DEF ProcessOptions, Refused, Finish
<1>2. CASE ShowDatabases
  <2>1. h[1] \in DOMAIN warehouse /\ h[1] \in run.databases /\ databases' = DOMAIN warehouse \intersect run.databases
    BY <1>2 DEF ShowDatabases, TypeOK, Selected
  <2>2. QED
    BY <2>1 DEF Coming
<1>3. ASSUME NEW d \in databases, ProcessDatabase(d) PROVE Known(h)'
  <2>1. /\ UNCHANGED <<run, warehouse, held, foreign, handled, skipped>>
        /\ databases' = databases \ {d} /\ database' = d /\ pc = "databases"
    BY <1>3 DEF ProcessDatabase
  <2>2. Known(h)
    BY <2>1 DEF Accounted, Selected
  <2>3. CASE h[1] \in databases
    <3>1. CASE h[1] = d
      <4>1. d \notin run.denied /\ h[2] \in DOMAIN warehouse[d] /\ h[2] \in run.tables
        BY <2>1, <3>1 DEF TypeOK, Selected
      <4>2. pc' = "tables" /\ tables' = DOMAIN warehouse[d] \intersect run.tables
        BY <1>3, <4>1 DEF ProcessDatabase
      <4>3. QED
        BY <2>1, <3>1, <4>1, <4>2 DEF Coming
    <3>2. CASE h[1] # d
      BY <2>1, <2>3, <3>2 DEF Coming
    <3>3. QED
      BY <3>1, <3>2
  <2>4. CASE h[1] \notin databases
    BY <2>1, <2>2, <2>4 DEF Coming, Reason
  <2>5. QED
    BY <2>3, <2>4
<1>4. CASE NextDatabase
  <2>1. UNCHANGED <<run, env, names, result>> /\ pc = "tables" /\ tables = {}
    BY <1>4 DEF NextDatabase
  <2>2. Known(h)
    BY <2>1 DEF Accounted, Selected
  <2>3. QED
    BY <2>1, <2>2 DEF Coming, Reason
<1>5. ASSUME NEW t \in tables, ProcessTable(t) PROVE Known(h)'
  <2>1. /\ UNCHANGED <<run, env, databases, database, result>>
        /\ tables' = tables \ {t} /\ table' = t /\ pc = "tables" /\ pc' = "execute"
    BY <1>5 DEF ProcessTable
  <2>2. Known(h)
    BY <2>1 DEF Accounted, Selected
  <2>3. QED
    BY <2>1, <2>2 DEF Coming, Reason
<1>6. CASE Statements
  <2>1. /\ UNCHANGED <<run, held, foreign, databases, database, tables, table>>
        /\ pc \in {"execute", "partition"} /\ Outcome
    BY <1>6, StatementFacts
  <2>2. Known(h) /\ h \in held /\ h = <<h[1], h[2]>>
    BY <2>1, Pairs DEF Accounted, Selected, TypeOK
  <2>3. handled \subseteq handled' /\ skipped \subseteq skipped' /\ pc' \in {"tables", "execute", "partition"}
    BY <2>1, OutcomeFacts
  <2>4. \A x : Reason(x)' <=> Reason(x)
    BY <2>1 DEF Reason
  <2>5. CASE h = <<database, table>>
    <3>1. CASE pc' \in {"execute", "partition"}
      BY <2>1, <2>5, <3>1 DEF Coming
    <3>2. CASE handled' = handled \union {<<database, table>>}
      BY <2>5, <3>2
    <3>3. CASE skipped' = skipped \union {<<database, table>>} /\ (Mine => Reason(<<database, table>>))
      BY <2>2, <2>4, <2>5, <3>3 DEF Mine
    <3>4. QED
      BY <2>1, <2>3, <3>1, <3>2, <3>3, OutcomeFacts
  <2>6. CASE h # <<database, table>>
    <3>1. Coming(h) => Coming(h)'
      BY <2>1, <2>2, <2>3, <2>6 DEF Coming
    <3>2. QED
      BY <2>2, <2>3, <2>4, <3>1
  <2>7. QED
    BY <2>5, <2>6
<1>7. CASE Meanwhile
  <2>1. /\ UNCHANGED <<run, pc, databases, database, tables, table, handled, skipped>> /\ h \in held
        /\ Contains(foreign, "disconnect") => Contains(foreign', "disconnect")
    BY <1>7, MeanwhileFacts
  <2>2. Known(h)
    BY <2>1 DEF Accounted, Selected
  <2>3. QED
    BY <2>1, <2>2 DEF Coming, Reason
<1>8. CASE UNCHANGED vars
  <2>1. UNCHANGED <<run, pc, held, foreign, databases, database, tables, table, handled, skipped>>
    BY <1>8 DEF vars
  <2>2. Known(h)
    BY <2>1 DEF Accounted, Selected
  <2>3. QED
    BY <2>1, <2>2 DEF Coming, Reason
<1>9. QED
  BY <1>1, <1>2, <1>3, <1>4, <1>5, <1>6, <1>7, <1>8, NextCases

LEMMA RememberedStep == TypeOK /\ Phases /\ Remembered /\ [Next]_vars => Remembered'
<1> SUFFICES ASSUME TypeOK, Phases, Remembered, [Next]_vars PROVE Remembered'
  OBVIOUS
<1> USE DEF Goto, End
<1>1. CASE ProcessOptions \/ Refused \/ ShowDatabases \/ NextDatabase \/ Finish
  <2>1. pc' # "execute"
    BY <1>1 DEF ProcessOptions, Refused, ShowDatabases, NextDatabase, Finish
  <2>2. QED
    BY <2>1 DEF Remembered
<1>2. ASSUME NEW d \in databases, ProcessDatabase(d) PROVE Remembered'
  <2>1. pc' # "execute"
    BY <1>2 DEF ProcessDatabase
  <2>2. QED
    BY <2>1 DEF Remembered
<1>3. ASSUME NEW t \in tables, ProcessTable(t) PROVE Remembered'
  <2>1. at' = 1
    BY <1>3 DEF ProcessTable
  <2>2. QED
    BY <2>1 DEF Remembered
<1>4. CASE Statements
  <2>1. Outcome /\ pc \in {"execute", "partition"}
    BY <1>4, StatementFacts
  <2>2. CASE GoesOn
    BY <2>2 DEF GoesOn
  <2>3. CASE Passes \/ Finishes \/ Lists \/ Reads
    <3>1. pc' # "execute"
      BY <2>3 DEF Passes, Fail, Finishes, Done, Lists, Reads
    <3>2. QED
      BY <3>1 DEF Remembered
  <2>4. QED
    BY <2>1, <2>2, <2>3 DEF Outcome
<1>5. CASE Meanwhile
  BY <1>5, MeanwhileFacts DEF names, statement, Remembered
<1>6. CASE UNCHANGED vars
  BY <1>6 DEF vars, env, names, statement, Remembered
<1>7. QED
  BY <1>1, <1>2, <1>3, <1>4, <1>5, <1>6, NextCases

(* A run ends with 0 when no database is left, and there is nothing after.  *)
LEMMA DoneStays ==
    ASSUME [Next]_vars, pc = "done"
    PROVE  UNCHANGED vars
<1>1. ~(Statements \/ Meanwhile)
  BY DEF Statements, Statement, PrintTable, Use, Describe, Query, Where, Partitions, SkipPartition,
         PartitionsDone, CountPartition, Meanwhile, Disconnect, DropDatabase, DropTable, ReplaceTable, Foreign
<1>2. QED
  BY <1>1, NextCases DEF ProcessOptions, Refused, ShowDatabases, ProcessDatabase, NextDatabase, Finish,
     ProcessTable

LEMMA OnlyFinishSucceeds ==
    ASSUME TypeOK, Phases, Remembered, [Next]_vars, pc # "done", exit' = "0"
    PROVE  Finish
<1>1. exit # "0"
  BY DEF TypeOK
<1> USE DEF Goto, End
<1>2. CASE ProcessOptions \/ Refused \/ ShowDatabases \/ NextDatabase
  BY <1>1, <1>2 DEF ProcessOptions, Refused, ShowDatabases, NextDatabase
<1>3. ASSUME NEW d \in databases, ProcessDatabase(d) PROVE FALSE
  BY <1>1, <1>3 DEF ProcessDatabase
<1>4. ASSUME NEW t \in tables, ProcessTable(t) PROVE FALSE
  BY <1>1, <1>4 DEF ProcessTable
<1>5. CASE Statements
  BY <1>1, <1>5, StatementFacts, OutcomeFacts
<1>6. CASE Meanwhile \/ UNCHANGED vars
  BY <1>1, <1>6, MeanwhileFacts DEF vars
<1>7. QED
  BY <1>2, <1>3, <1>4, <1>5, <1>6, NextCases

LEMMA ZeroMeansAllStep ==
    TypeOK /\ Phases /\ Remembered /\ Accounted /\ ZeroMeansAll /\ [Next]_vars => ZeroMeansAll'
<1> SUFFICES ASSUME TypeOK, Phases, Remembered, Accounted, ZeroMeansAll, [Next]_vars, exit' = "0"
             PROVE  ZeroMeansAll'
  BY DEF ZeroMeansAll
<1>1. CASE pc = "done"
  <2>1. UNCHANGED <<run, held, foreign, handled, skipped, exit>>
    BY <1>1, DoneStays DEF vars, env, result
  <2>2. QED
    BY <2>1 DEF ZeroMeansAll, Selected
<1>2. CASE Finish
  <2>1. /\ UNCHANGED <<run, held, foreign, handled, skipped>>
        /\ pc = "databases" /\ databases = {}
    BY <1>2 DEF Finish, env, result
  <2>2. \A h \in held : Selected(h) /\ h[1] \notin run.denied => h \in handled \/ (h \in skipped /\ Reason(h))
    BY <2>1 DEF Accounted, Coming
  <2>3. QED
    BY <2>1, <2>2 DEF ZeroMeansAll, Selected, Reason
<1>3. QED
  BY <1>1, <1>2, OnlyFinishSucceeds

LEMMA LinesAreTrueStep ==
    TypeOK /\ Phases /\ Remembered /\ LinesAreTrue /\ [Next]_vars => LinesAreTrue'
<1> SUFFICES ASSUME TypeOK, Phases, Remembered, LinesAreTrue, [Next]_vars PROVE LinesAreTrue'
  OBVIOUS
<1>1. CASE Statements
  <2>1. UNCHANGED <<run, held>> /\ Outcome /\ pc \in {"execute", "partition"}
    BY <1>1, StatementFacts
  <2>2. \A t, v : True(t, v)' <=> True(t, v)
    BY <2>1 DEF True
  <2>3. CASE UNCHANGED output
    BY <2>1, <2>2, <2>3 DEF LinesAreTrue
  <2>4. ASSUME NEW v, Told(v), output' = Append(output, <<database, table, v>>) PROVE LinesAreTrue'
    <3> DEFINE x == <<database, table, v>>
    <3>1. x[1] = database /\ x[2] = table /\ x[3] = v
      OBVIOUS
    <3>2. \A l \in DOMAIN output' : (l \in DOMAIN output /\ output'[l] = output[l]) \/ output'[l] = x
      BY <2>4, OneLine DEF TypeOK
    <3>3. ASSUME NEW l \in DOMAIN output', <<output'[l][1], output'[l][2]>> \in held
          PROVE  True(Warehouse[output'[l][1]][output'[l][2]], output'[l][3])
      <4>1. CASE output'[l] = x
        BY <2>4, <3>1, <3>3, <4>1 DEF Told, Mine
      <4>2. CASE l \in DOMAIN output /\ output'[l] = output[l]
        BY <3>3, <4>2 DEF LinesAreTrue
      <4>3. QED
        BY <3>2, <4>1, <4>2
    <3>4. QED
      BY <2>1, <2>2, <3>3 DEF LinesAreTrue
  <2>5. QED
    BY <2>1, <2>3, <2>4, OutcomeFacts
<1>2. CASE ~Statements
  <2>1. UNCHANGED <<run, output>> /\ held' \subseteq held
    <3> USE DEF env, names, result
    <3>1. CASE ProcessOptions \/ Refused \/ ShowDatabases \/ NextDatabase \/ Finish
      BY <3>1 DEF ProcessOptions, Refused, ShowDatabases, NextDatabase, Finish
    <3>2. CASE \E d \in databases : ProcessDatabase(d)
      BY <3>2 DEF ProcessDatabase
    <3>3. CASE \E t \in tables : ProcessTable(t)
      BY <3>3 DEF ProcessTable
    <3>4. CASE Meanwhile \/ UNCHANGED vars
      BY <3>4, MeanwhileFacts DEF vars
    <3>5. QED
      BY <1>2, <3>1, <3>2, <3>3, <3>4, NextCases
  <2>2. \A t, v : True(t, v)' <=> True(t, v)
    BY <2>1 DEF True
  <2>3. QED
    BY <2>1, <2>2 DEF LinesAreTrue
<1>3. QED
  BY <1>1, <1>2

-----------------------------------------------------------------------------
LEMMA InitEstablishes == Init => IInv
<1> SUFFICES ASSUME Init PROVE IInv
  OBVIOUS
<1> USE DEF Init
<1>1. TypeOK
  <2>1. \A d \in DOMAIN warehouse : \A t \in DOMAIN warehouse[d] :
          t \in DOMAIN Warehouse[d] /\ warehouse[d][t] \in TableType
    BY WarehouseAssumption
  <2>2. \A h \in held : /\ h[1] \in DOMAIN warehouse /\ h[2] \in DOMAIN warehouse[h[1]]
                        /\ warehouse[h[1]][h[2]] = Warehouse[h[1]][h[2]]
    BY Pairs
  <2>3. output \in Seq(Range(output)) /\ DOMAIN output = {} /\ cursor \in Seq(STRING) /\ foreign \in Seq(Happenings)
    OBVIOUS
  <2>4. QED
    BY <2>1, <2>2, <2>3 DEF TypeOK
<1>2. Phases /\ Accounted /\ Remembered /\ ZeroMeansAll /\ LinesAreTrue
  BY DEF Phases, Accounted, Remembered, ZeroMeansAll, LinesAreTrue
<1>3. QED
  BY <1>1, <1>2 DEF IInv

LEMMA NextPreserves == IInv /\ [Next]_vars => IInv'
BY TypeStep, PhasesStep, AccountedStep, RememberedStep, ZeroMeansAllStep, LinesAreTrueStep DEF IInv

(* The inductive invariant.                                                 *)
THEOREM Invariance == Spec => []IInv
BY InitEstablishes, NextPreserves, PTL DEF Spec

(* Every variable stays in its range, and no table is both done and passed  *)
(* over.                                                                    *)
THEOREM TypeCorrect == Spec => []TypeOK
<1>1. IInv => TypeOK
  BY DEF IInv
<1>2. QED
  BY <1>1, Invariance, PTL

(* Exit code 0: every table asked for that nobody touched was done, or had  *)
(* a reason not to be.                                                      *)
THEOREM ZeroTheorem == Spec => []ZeroMeansAll
<1>1. IInv => ZeroMeansAll
  BY DEF IInv
<1>2. QED
  BY <1>1, Invariance, PTL

(* Every line printed is true of its table, if that stayed as it was: the   *)
(* counts are its own; the columns listed for their NULLs are NULL wherever *)
(* any column is, with all of those that are only NULLs among them.         *)
THEOREM LinesTheorem == Spec => []LinesAreTrue
<1>1. IInv => LinesAreTrue
  BY DEF IInv
<1>2. QED
  BY <1>1, Invariance, PTL
=============================================================================
