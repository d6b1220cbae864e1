----------------------------- MODULE HBaseTables -----------------------------
(* The HBase programs that work on tables: hbase_generate_data.py,          *)
(* hbase_compact_tables.py, hbase_flush_tables.py,                          *)
(* hbase_show_table_region_ranges.py, hbase_table_region_row_distribution.py *)
(* and hbase_table_row_key_distribution.py.  Each lists the tables first and *)
(* acts on the answer while others create, drop, disable and split tables   *)
(* and change their rows.  Column widths, percentages, quartiles and the    *)
(* order of the lines printed are left out.                                 *)
EXTENDS Naturals, Sequences, FiniteSets, SequencesExt, FiniteSetsExt

CONSTANTS
    Runs,           \* how a program may be started, see RunsAssumption
    Tables,         \* the tables there are: name -> Table
    DefaultTable,   \* default_table_name
    Prefix,         \* row key -> the prefix it is counted under
    Encoded,        \* row key -> where the text that stands for it sorts
    MaxChanges      \* bound: what others do meanwhile

(* Row keys are positive; 0 is the empty key that begins the first region   *)
(* and ends the last.                                                       *)
Keys == DOMAIN Prefix

(* splits: where regions but the first begin.  mine: created by this run.   *)
Table == [exists : BOOLEAN, enabled : BOOLEAN, mine : BOOLEAN,
          splits : Seq(Keys), rows : SUBSET Keys]

ASSUME TablesAssumption ==
    /\ Keys \subseteq Nat \ {0} /\ IsFiniteSet(Keys)
    /\ Tables \in [DOMAIN Tables -> Table]
    /\ \A t \in DOMAIN Tables : ~Tables[t].mine
    /\ DefaultTable \in DOMAIN Tables
    /\ DOMAIN Encoded = Keys \union {0} /\ Encoded[0] = 0
    /\ MaxChanges \in Nat

Scanners == {"region_rows", "key_rows"}
RegionTools == {"show_regions", "region_rows"}

(* matches: the tables --regex matches, all of them without.  num, skew,    *)
(* skew_pc, drop, existing: options of hbase_generate_data.py.  sort: FALSE *)
(* if the argument of --sort is none of valid_sorts.                        *)
ASSUME RunsAssumption ==
    \A r \in Runs :
        /\ r.tool \in {"generate", "compact", "flush"} \union Scanners \union RegionTools
        /\ r.table \in {"none"} \union DOMAIN Tables
        /\ r.tool = "generate" => r.table # "none"
        /\ r.matches \subseteq DOMAIN Tables
        /\ r.num \in Nat /\ r.skew_pc \in 0..100
        /\ {r.list, r.drop, r.existing, r.skew, r.sort} \subseteq BOOLEAN

VARIABLES
    run,            \* how the program was started
    tables,         \* HBase
    changes,        \* how often others changed it
    pc,             \* "options", "tables", "delete", "create", "families",
                    \* "populate", "put", "work", "regions", "enabled", "scan",
                    \* "print", "done"
    listing,        \* the tables that were listed
    todo,           \* the tables still to be flushed or compacted
    handled,        \* history: those flushed or compacted, or that gave an error
    dropped,        \* history: the tables the run dropped
    lost,           \* history: whether others dropped a table this run created
    sent,           \* history: of each row put, whether its key was skewed
    astray,         \* history: whether one was put into a table of others
    ranges,         \* _regions, or the whole table: [start, stop]
    at, last,       \* the range being scanned, and the last key of it read
    counted,        \* range -> the keys counted
    steady, ever,   \* history: the rows there throughout the scan, or ever
    output,         \* the counts printed: of each region, of each prefix
    exit            \* the exit code

work == <<listing, todo, handled>>
data == <<dropped, lost, sent, astray>>
scan == <<ranges, at, last, counted, steady, ever>>
vars == <<run, tables, changes, pc, work, data, scan, output, exit>>

Init ==
    /\ run \in Runs
    /\ tables = Tables /\ changes = 0
    /\ pc = "options"
    /\ listing = {} /\ todo = {} /\ handled = {}
    /\ dropped = {} /\ lost = FALSE /\ sent = <<>> /\ astray = FALSE
    /\ ranges = <<>> /\ at = 1 /\ last = 0 /\ counted = <<>>
    /\ steady = {} /\ ever = {}
    /\ output = <<>> /\ exit = "running"

Goto(label) == pc' = label /\ UNCHANGED exit
End(code) == pc' = "done" /\ exit' = code

table == tables[run.table]
Usable == table.exists /\ table.enabled

Fresh(mine) == [exists |-> TRUE, enabled |-> TRUE, mine |-> mine, splits |-> <<>>, rows |-> {}]
Becomes(new) == tables' = [tables EXCEPT ![run.table] = new]

-----------------------------------------------------------------------------
DropRefused == run.tool = "generate" /\ run.drop /\ run.table # DefaultTable

(* validate_chars(self.table, ..) unless --list-tables.                     *)
TableMissing ==
    run.tool \in {"key_rows"} \union RegionTools /\ ~run.list /\ run.table = "none"

ProcessArgs ==
    /\ pc = "options"
    /\ IF DropRefused THEN End("2") ELSE IF TableMissing THEN End("3") ELSE Goto("tables")
    /\ UNCHANGED <<run, tables, changes, work, data, scan, output>>

(* What the run() of each program makes of the list of tables.              *)
GenerateRun ==
    IF run.table \in listing' /\ run.drop THEN Goto("delete")
    ELSE IF run.existing THEN Goto("families")
    ELSE IF run.table \in listing' THEN End("2") ELSE Goto("create")

CompactRun == IF run.list THEN End("3") ELSE Goto("work")

FlushRun ==
    IF listing' = {} THEN End("2") ELSE IF run.list THEN End("3") ELSE Goto("work")

RegionsRun ==
    IF run.list THEN End("3") ELSE IF run.table \notin listing' THEN End("2") ELSE Goto("regions")

KeysRun ==
    IF run.list THEN End("3") ELSE IF run.table \notin listing' THEN End("2") ELSE Goto("enabled")

(* conn.tables(), or what the HBase shell says to list.                     *)
Listed == {t \in DOMAIN tables : tables[t].exists}

GetTables ==
    /\ pc = "tables"
    /\ listing' = Listed
    /\ todo' = listing' \intersect run.matches
    /\ CASE run.tool = "generate" -> GenerateRun
         [] run.tool = "compact"  -> CompactRun
         [] run.tool = "flush"    -> FlushRun
         [] run.tool = "key_rows" -> KeysRun
         [] OTHER                 -> RegionsRun
    /\ UNCHANGED <<run, tables, changes, handled, data, scan, output>>

(* A request that fails, or whose answer is lost; one that changes HBase    *)
(* may have done so, or half of it.  Under Python 3 bytes(str) is an        *)
(* exception nothing catches.                                               *)
RequestFails ==
    /\ pc \in {"tables", "delete", "create", "families", "put", "work", "regions", "enabled", "scan"}
    /\ End("2") \/ (pc = "put" /\ End("1"))
    /\ \/ UNCHANGED tables
       \/ pc = "delete" /\ Becomes([table EXCEPT !.enabled = FALSE])
       \/ pc = "create" /\ ~table.exists /\ Becomes(Fresh(TRUE))
    /\ UNCHANGED <<run, changes, work, data, scan, output>>

-----------------------------------------------------------------------------
(* hbase_generate_data.py.  With --use-existing-table a table that was      *)
(* dropped is not created again.                                            *)
DeleteTable ==
    /\ pc = "delete"
    /\ IF table.exists
       THEN /\ Becomes([table EXCEPT !.exists = FALSE])
            /\ dropped' = dropped \union {run.table}
            /\ Goto(IF run.existing THEN "families" ELSE "create")
       ELSE UNCHANGED <<tables, dropped>> /\ End("2")
    /\ UNCHANGED <<run, changes, work, lost, sent, astray, scan, output>>

(* Mutant: a table that was created meanwhile is taken as its own.          *)
CreateTableAnyway ==
    /\ pc = "create"
    /\ IF table.exists THEN UNCHANGED tables ELSE Becomes(Fresh(TRUE))
    /\ Goto("populate")
    /\ UNCHANGED <<run, changes, work, data, scan, output>>

CreateTable ==
    /\ pc = "create"
    /\ IF table.exists THEN End("2") /\ UNCHANGED tables
       ELSE Becomes(Fresh(TRUE)) /\ Goto("populate")
    /\ UNCHANGED <<run, changes, work, data, scan, output>>

Families ==
    /\ pc = "families"
    /\ IF table.exists THEN Goto("populate") ELSE End("2")
    /\ UNCHANGED <<run, tables, changes, work, data, scan, output>>

(* skew_mod is computed with or without --skew: 0 percent is a division by  *)
(* zero that nothing catches.                                               *)
SkewMod ==
    /\ pc = "populate"
    /\ IF run.skew_pc = 0 THEN End("1") ELSE Goto("put")
    /\ UNCHANGED <<run, tables, changes, work, data, scan, output>>

(* int(n % (100.0 / skew_pc)) == 0.  Rounding may put a row that is an exact *)
(* multiple of 100.0 / skew_pc just below it: then the next one is skewed.  *)
Exact(n) == (n * run.skew_pc) % 100 < run.skew_pc
Skewed(n, s) ==
    IF n > 0 /\ (n * run.skew_pc) % 100 = 0 /\ 100 % run.skew_pc # 0 THEN s \in BOOLEAN
    ELSE IF n > 0 /\ Exact(n - 1) /\ ~sent[n] THEN s = TRUE
    ELSE s = Exact(n)

(* Mutant: one row too many is sent.                                        *)
PutOneMore ==
    /\ pc = "put"
    /\ IF Len(sent) > run.num THEN End("0") /\ UNCHANGED <<sent, astray>>
       ELSE IF ~Usable THEN End("2") /\ UNCHANGED <<sent, astray>>
       ELSE /\ \E s \in BOOLEAN :
                 /\ run.skew => Skewed(Len(sent), s)
                 /\ ~run.skew => ~s
                 /\ sent' = Append(sent, s)
            /\ astray' = (astray \/ ~table.mine)
            /\ UNCHANGED <<pc, exit>>
    /\ UNCHANGED <<run, tables, changes, work, dropped, lost, scan, output>>

(* The next row of populate_table.                                          *)
Put ==
    /\ pc = "put"
    /\ IF Len(sent) = run.num THEN End("0") /\ UNCHANGED <<sent, astray>>
       ELSE IF ~Usable THEN End("2") /\ UNCHANGED <<sent, astray>>
       ELSE /\ \E s \in BOOLEAN :
                 /\ run.skew => Skewed(Len(sent), s)
                 /\ ~run.skew => ~s
                 /\ sent' = Append(sent, s)
            /\ astray' = (astray \/ ~table.mine)
            /\ UNCHANGED <<pc, exit>>
    /\ UNCHANGED <<run, tables, changes, work, dropped, lost, scan, output>>

-----------------------------------------------------------------------------
(* Mutant: a table that cannot be compacted ends the run as if all were.    *)
CompactTableStops(t) ==
    IF tables[t].exists THEN todo' = todo \ {t} /\ handled' = handled \union {t} /\ UNCHANGED <<pc, exit>>
    ELSE End("0") /\ UNCHANGED <<todo, handled>>

(* compact_table: an error is the end, the other tables stay as they are.   *)
CompactTable(t) ==
    IF tables[t].exists THEN todo' = todo \ {t} /\ handled' = handled \union {t} /\ UNCHANGED <<pc, exit>>
    ELSE End("2") /\ UNCHANGED <<todo, handled>>

(* The shell prints the error of a command that fails and goes on; its exit *)
(* code is 0 all the same.                                                  *)
FlushTable(t) == todo' = todo \ {t} /\ handled' = handled \union {t} /\ UNCHANGED <<pc, exit>>

(* The next table, or the end.                                              *)
Work ==
    /\ pc = "work"
    /\ \/ todo = {} /\ End("0") /\ UNCHANGED <<todo, handled>>
       \/ \E t \in todo : IF run.tool = "compact" THEN CompactTable(t) ELSE FlushTable(t)
    /\ UNCHANGED <<run, tables, changes, listing, data, scan, output>>

-----------------------------------------------------------------------------
Extent == [start : Keys \union {0}, stop : Keys \union {0}]

(* table_conn.regions(): nothing for a table that is gone.                  *)
Regions(t) ==
    IF ~t.exists THEN <<>>
    ELSE LET edges == <<0>> \o t.splits \o <<0>> IN
         [k \in 1..(Len(t.splits) + 1) |-> [start |-> edges[k], stop |-> edges[k + 1]]]

(* local_main of hbase_table_region_row_distribution.py.                    *)
CountRegions ==
    IF ~run.sort THEN End("3") ELSE IF ranges' = <<>> THEN End("2") ELSE Goto("enabled")

(* The regions are listed once, and there is no other look at them.         *)
GetRegions ==
    /\ pc = "regions"
    /\ ranges' = Regions(table)
    /\ IF run.tool = "show_regions" THEN Goto("print") ELSE CountRegions
    /\ UNCHANGED <<run, tables, changes, work, data, at, last, counted, steady, ever, output>>

(* scan() without a range: hbase_table_row_key_distribution.py.             *)
WholeTable == <<[start |-> 0, stop |-> 0]>>

IsTableEnabled ==
    /\ pc = "enabled"
    /\ IF Usable THEN Goto("scan") ELSE End("2")
    /\ ranges' = IF run.tool = "key_rows" THEN WholeTable ELSE ranges
    /\ counted' = [k \in DOMAIN ranges' |-> {}]
    /\ steady' = table.rows /\ ever' = table.rows
    /\ UNCHANGED <<run, tables, changes, work, data, at, last, output>>

InRange(key, r) == r.start <= key /\ (r.stop = 0 \/ key < r.stop)

(* bytes_to_str: unprintable characters become \x and two digits.           *)
Text(key) == Encoded[key]

(* populate_region_metadata keeps the texts of a region's keys.             *)
RegionMeta(k) == [start |-> Text(ranges[k].start), stop |-> Text(ranges[k].stop)]

(* Mutant: row_stop is taken as inclusive.                                  *)
RowsInclusive(k) ==
    {key \in table.rows : InRange(key, RegionMeta(k)) \/ key = RegionMeta(k).stop}

(* The rows scan_count is given.                                            *)
Rows(k) == {key \in table.rows : InRange(key, RegionMeta(k))}

(* The next row of the range, or the next range.                            *)
Scan ==
    /\ pc = "scan"
    /\ LET next == {key \in Rows(at) : key > last} IN
       IF ~Usable THEN End("2") /\ UNCHANGED <<at, last, counted>>
       ELSE IF next # {}
       THEN /\ last' = Min(next)
            /\ counted' = [counted EXCEPT ![at] = @ \union {last'}]
            /\ UNCHANGED <<at, pc, exit>>
       ELSE IF at < Len(ranges)
       THEN at' = at + 1 /\ last' = 0 /\ UNCHANGED <<counted, pc, exit>>
       ELSE Goto("print") /\ UNCHANGED <<at, last, counted>>
    /\ UNCHANGED <<run, tables, changes, work, data, ranges, steady, ever, output>>

(* self.rows: prefix -> row_count.                                          *)
PrefixCounts ==
    [p \in {Prefix[key] : key \in counted[1]} |-> Cardinality({key \in counted[1] : Prefix[key] = p})]

(* calculate_row_percentages: there is no percentage of no rows.            *)
NoRows == \A k \in DOMAIN counted : counted[k] = {}

PrintRegions == End("0") /\ UNCHANGED output

PrintRegionCounts ==
    IF NoRows THEN End("2") /\ UNCHANGED output
    ELSE End("0") /\ output' = [k \in DOMAIN counted |-> Cardinality(counted[k])]

PrintPrefixCounts ==
    IF NoRows THEN End("2") /\ UNCHANGED output ELSE End("0") /\ output' = PrefixCounts

PrintCounts ==
    /\ pc = "print"
    /\ CASE run.tool = "show_regions" -> PrintRegions
         [] run.tool = "region_rows"  -> PrintRegionCounts
         [] run.tool = "key_rows"     -> PrintPrefixCounts
    /\ UNCHANGED <<run, tables, changes, work, data, scan>>

(* The alarm set when the program started.                                  *)
Alarm ==
    /\ pc # "done"
    /\ End("3")
    /\ UNCHANGED <<run, tables, changes, work, data, scan, output>>

-----------------------------------------------------------------------------
(* Others.                                                                  *)
CreateOrDrop(t) ==
    /\ tables' = [tables EXCEPT ![t] = [Fresh(FALSE) EXCEPT !.exists = ~tables[t].exists]]
    /\ steady' = IF t = run.table THEN {} ELSE steady
    /\ lost' = (lost \/ (t = run.table /\ tables[t].mine))
    /\ UNCHANGED ever

EnableOrDisable(t) ==
    /\ tables[t].exists
    /\ tables' = [tables EXCEPT ![t] = [tables[t] EXCEPT !.enabled = ~tables[t].enabled]]
    /\ UNCHANGED <<lost, steady, ever>>

(* A region of the table the run is about is split in two.                 *)
Split(key) ==
    /\ table.exists
    /\ \E i \in 1..(Len(table.splits) + 1) :
         /\ \A k \in DOMAIN table.splits :
              IF k < i THEN table.splits[k] < key ELSE table.splits[k] > key
         /\ Becomes([table EXCEPT !.splits =
                      SubSeq(table.splits, 1, i - 1) \o <<key>>
                        \o SubSeq(table.splits, i, Len(table.splits))])
    /\ UNCHANGED <<lost, steady, ever>>

AddRow(key) ==
    /\ Usable /\ key \notin table.rows
    /\ Becomes([table EXCEPT !.rows = table.rows \union {key}])
    /\ ever' = ever \union {key}
    /\ UNCHANGED <<lost, steady>>

DeleteRow(key) ==
    /\ Usable /\ key \in table.rows
    /\ Becomes([table EXCEPT !.rows = table.rows \ {key}])
    /\ steady' = steady \ {key}
    /\ UNCHANGED <<lost, ever>>

Others ==
    /\ pc # "done" /\ changes < MaxChanges
    /\ changes' = changes + 1
    /\ \/ \E t \in DOMAIN tables : CreateOrDrop(t) \/ EnableOrDisable(t)
       \/ /\ run.tool \in Scanners \union RegionTools /\ run.table # "none"
          /\ \E key \in Keys : Split(key) \/ AddRow(key) \/ DeleteRow(key)
    /\ UNCHANGED <<run, pc, work, dropped, sent, astray, ranges, at, last, counted, output, exit>>

Next ==
    \/ ProcessArgs \/ GetTables \/ RequestFails
    \/ DeleteTable \/ CreateTable \/ Families \/ SkewMod \/ Put
    \/ Work
    \/ GetRegions \/ IsTableEnabled \/ Scan \/ PrintCounts
    \/ Alarm \/ Others

Spec == Init /\ [][Next]_vars

-----------------------------------------------------------------------------
TypeOK ==
    /\ run \in Runs
    /\ tables \in [DOMAIN Tables -> Table]
    /\ changes \in 0..MaxChanges
    /\ pc \in {"options", "tables", "delete", "create", "families", "populate", "put", "work",
               "regions", "enabled", "scan", "print", "done"}
    /\ listing \subseteq DOMAIN Tables
    /\ todo \subseteq listing \intersect run.matches
    /\ handled \subseteq listing \intersect run.matches
    /\ dropped \subseteq DOMAIN Tables /\ {lost, astray} \subseteq BOOLEAN
    /\ sent \in Seq(BOOLEAN) /\ Len(sent) <= run.num
    /\ ranges \in Seq(Extent)
    /\ at \in Nat /\ (pc \in {"scan", "print"} /\ run.tool \in Scanners => at \in DOMAIN ranges)
    /\ last \in Keys \union {0}
    /\ counted = <<>> \/ counted \in [DOMAIN ranges -> SUBSET ever]
    /\ steady \subseteq ever /\ ever \subseteq Keys
    /\ exit \in {"running", "0", "1", "2", "3"}
    /\ (exit = "running") = (pc # "done")

(* What hbase_generate_data.py does to tables others made, however these    *)
(* change between its look at the list and what it does then ("a minor race *)
(* condition here", lines 174-176).  It drops a table when asked to, and    *)
(* when it was listed, but of the default name only, whoever made it.  And  *)
(* without --use-existing-table it sends no row to a table of others,       *)
(* unless they dropped the one it had just created and made theirs in its   *)
(* place.  ("Will refuse to send data to any already existing table for     *)
(* safety reasons")                                                         *)
OnlyOwnTables ==
    /\ dropped # {} => run.drop /\ dropped = {DefaultTable} /\ dropped \subseteq listing
    /\ astray /\ ~run.existing => lost

Skews == {k \in DOMAIN sent : sent[k]}

(* A run that ends with 0 did all it was asked to: of the tables listed all *)
(* those that match were compacted, or flushed as far as the shell could,   *)
(* and no other; all rows were sent, and of them the share asked for, to    *)
(* within one row, has a skewed key.                                        *)
ZeroMeansAll ==
    exit = "0" =>
        /\ run.tool \in {"compact", "flush"} => handled = listing \intersect run.matches
        /\ run.tool = "generate" =>
             /\ Len(sent) = run.num
             /\ run.skew => /\ 100 * Cardinality(Skews) < run.skew_pc * run.num + 100
                            /\ run.skew_pc * run.num < 100 * Cardinality(Skews) + 100

(* What the group of a count really is: the rows of a region, those with a  *)
(* prefix.                                                                  *)
InGroup(key, g) == IF run.tool = "key_rows" THEN Prefix[key] = g ELSE InRange(key, ranges[g])

(* The counts printed are those of the groups they are printed for: a row   *)
(* that is there throughout is counted once and in its own group, and none  *)
(* is counted that never was, while regions split and rows come and go.     *)
(* (This is not so in region_rows when a region begins with an unprintable  *)
(* key.)                                                                    *)
CountsAreOfTheirGroup ==
    output # <<>> =>
        /\ \A key \in steady : \E g \in DOMAIN output : InGroup(key, g)
        /\ \A g \in DOMAIN output :
             /\ Cardinality({key \in steady : InGroup(key, g)}) <= output[g]
             /\ output[g] <= Cardinality({key \in ever : InGroup(key, g)})

(* The counts printed are right where the keys the regions begin with are   *)
(* printable: region_rows scans between the texts of those keys, line 132.  *)
Printable == \A k \in DOMAIN ranges : Encoded[ranges[k].start] = ranges[k].start
PrintableCountsAreOfTheirGroup ==
    Printable => CountsAreOfTheirGroup

-----------------------------------------------------------------------------
(* What the invariants rest on.  The options have been validated, and what  *)
(* the tables listed ask for decides where the run goes.                    *)
Phases ==
    /\ pc \notin {"options", "done"} => ~DropRefused
    /\ pc = "delete" => run.tool = "generate" /\ run.drop
    /\ pc \in {"create", "families", "populate", "put"} => run.tool = "generate"
    /\ pc = "families" => run.existing
    /\ pc \in {"options", "tables"} => dropped = {}
    /\ pc = "delete" => run.table \in listing
    /\ pc \in {"populate", "put"} /\ ~run.existing => table.mine \/ lost
    /\ pc = "put" => run.skew_pc # 0
    /\ pc \notin {"put", "done"} => sent = <<>>
    /\ pc = "work" => run.tool \in {"compact", "flush"}
    /\ pc \in {"regions", "enabled", "scan", "print"} =>
         run.tool \in Scanners \union RegionTools /\ run.table \in DOMAIN Tables
    /\ pc \in {"enabled", "scan"} => run.tool \in Scanners
    /\ pc = "enabled" /\ run.tool = "region_rows" => ranges # <<>>
    /\ pc \notin {"scan", "print", "done"} => at = 1 /\ last = 0 /\ counted = <<>>
    /\ pc # "done" => output = <<>>

(* The tables that are still to be compacted or flushed.                    *)
Remaining ==
    /\ pc \in {"options", "tables"} => handled = {}
    /\ pc = "work" => handled \union todo = listing \intersect run.matches

(* Skewed rows come evenly: with the one that is late, if one is, there are *)
(* as many as multiples of 100 / skew_pc up to the last row.                *)
Late == sent # <<>> /\ Exact(Len(sent) - 1) /\ ~sent[Len(sent)]
EvenlySkewed ==
    sent # <<>> /\ run.skew =>
        LET upto == (Len(sent) - 1) * run.skew_pc
            due == Cardinality(Skews) + (IF Late THEN 1 ELSE 0)
        IN  /\ run.skew_pc # 0
            /\ 100 * (due - 1) <= upto /\ upto < 100 * due
            /\ Late => upto % 100 = 0 /\ run.skew_pc # 100

(* One region begins where another ends.                                    *)
Adjacent ==
    ranges # <<>> =>
        /\ ranges[1].start = 0 /\ ranges[Len(ranges)].stop = 0
        /\ \A k \in 1..(Len(ranges) - 1) : ranges[k].stop = ranges[k + 1].start

(* What is there throughout is still there, and counted once passed; what   *)
(* is there now is known to have been.                                      *)
Passed(key, k) == k < at \/ (k = at /\ (key <= last \/ pc = "print"))
CountedSoFar ==
    (pc \in {"scan", "print"} /\ run.tool \in Scanners) =>
        /\ DOMAIN counted = DOMAIN ranges
        /\ pc = "scan" => steady \subseteq table.rows /\ table.rows \subseteq ever
        /\ pc = "print" => at = Len(ranges)
        /\ run.tool = "key_rows" => ranges = WholeTable
        /\ Printable =>
             \A k \in DOMAIN ranges :
                /\ \A key \in counted[k] : InRange(key, ranges[k])
                /\ \A key \in steady : InRange(key, ranges[k]) /\ Passed(key, k) => key \in counted[k]

IInv ==
    /\ TypeOK /\ Phases /\ OnlyOwnTables
    /\ Remaining /\ EvenlySkewed /\ ZeroMeansAll
    /\ Adjacent /\ CountedSoFar /\ PrintableCountsAreOfTheirGroup
=============================================================================
