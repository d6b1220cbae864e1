--------------------------- MODULE MCForeachTable ---------------------------
(* Model checking of ForeachTable: a warehouse of two databases, one with  *)
(* a table of its own name; tables with partitions, without rows, with     *)
(* NULLs everywhere, and one whose queries fail.                           *)
EXTENDS ForeachTable

Row(nulls, part) == [nulls |-> nulls, part |-> part]
Tbl(cols, rows, parts, fields, error) ==
    [columns |-> cols, rows |-> rows, parts |-> parts, fields |-> fields, error |-> error]
Location == <<[name |-> "Owner", value |-> "hive"], [name |-> "Location", value |-> "hdfs"]>>

Days == Tbl({"a", "b"}, <<Row({"a"}, "d1"), Row({"a", "b"}, "d2"), Row({"a"}, "d2")>>,
            <<"d1", "d2">>, Location, "none")
Plain == Tbl({"a", "b"}, <<Row({"a"}, "none"), Row({}, "none")>>, <<"none">>, <<>>, "none")
Broken == Tbl({"a"}, <<>>, <<"none">>, <<>>, "select")
Unreadable == Tbl({"a"}, <<>>, <<"none">>, <<>>, "describe")
Empty == Tbl({"a"}, <<>>, <<>>, Location, "none")

MCWarehouse ==
    [sales |-> [sales |-> Days, orders |-> Plain, staging |-> Broken],
     logs |-> [web |-> Unreadable, logs |-> Empty]]
MCOthers == {Days, Tbl({"b"}, <<Row({"b"}, "none")>>, <<"none">>, <<>>, "none")}

All == {"sales", "logs"}
AllTables == {"sales", "orders", "staging", "web", "logs"}
R(tool, dbs, ts, parts, q, ignore, denied) ==
    [tool |-> tool, server |-> IF denied = {} THEN "hive" ELSE "impala", databases |-> dbs, tables |-> ts,
     parts |-> parts, field |-> {"Location"}, query |-> q, ignore |-> ignore, denied |-> denied]

MCRuns ==
    {R(tool, All, ts, parts, "given", ignore, denied) :
        tool \in DOMAIN HivePrograms \ {"compute_table_stats", "schemas_csv"},
        ts \in {AllTables, {"orders", "logs", "sales"}},
        parts \in {{"d1", "d2"}, {"d2"}}, ignore \in BOOLEAN, denied \in {{}, {"logs"}}}
    \union {R("schemas_csv", All, AllTables, {}, "given", ignore, denied) :
              ignore \in BOOLEAN, denied \in {{}, {"logs"}}}
    \union {R("compute_table_stats", dbs, AllTables, parts, "given", FALSE, denied) :
              dbs \in {All, {"logs"}}, parts \in {{}, {"d1"}}, denied \in {{}, {"sales"}}}
    \union {R("foreach_table", All, AllTables, {}, q, TRUE, {}) : q \in {"key", "missing"}}

PartitionRuns ==
    {R("tables_row_counts", All, {"orders", "sales"}, {"d1", "d2"}, "given", FALSE, {})}
=============================================================================
