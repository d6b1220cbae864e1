------------------------- MODULE HBaseTablesProofs ---------------------------
(* Proofs about HBaseTables: hbase_generate_data.py spares what others made *)
(* as far as it can, the programs did all they were asked to when they end  *)
(* with 0, and print the counts of the groups they name, for any tables,    *)
(* rows, options and changes by others.                                     *)
EXTENDS HBaseTables, FiniteSetTheorems, SequenceTheorems, TLAPS

(* A set of numbers has a least one.                                        *)
LEMMA LeastNumber ==
    ASSUME NEW T \in SUBSET Nat, T # {}
    PROVE  \E n \in T : \A m \in T : n <= m
<1> DEFINE Upto == {0..n : n \in T}
           Less == StrictSubsetOrdering(Nat)
<1>1. Upto \subseteq FiniteSubsetsOf(Nat)
  <2>1. ASSUME NEW n \in T PROVE 0..n \subseteq Nat /\ IsFiniteSet(0..n)
    BY FS_Interval
  <2>2. QED
    BY <2>1 DEF FiniteSubsetsOf
<1>2. IsWellFoundedOn(Less, FiniteSubsetsOf(Nat))
  BY FS_StrictSubsetOrderingWellFounded
<1>3. PICK D \in Upto : \A E \in Upto : <<E, D>> \notin Less
  <2>1. Upto # {}
    OBVIOUS
  <2> HIDE DEF Upto, Less
  <2>2. QED
    BY <1>1, <1>2, <2>1, WFMin
<1>4. PICK n \in T : D = 0..n
  BY <1>3
<1>5. ASSUME NEW m \in T, m < n PROVE FALSE
  <2>1. 0..m \in Upto /\ 0..m \subseteq 0..n /\ 0..m # 0..n /\ 0..m \subseteq Nat /\ 0..n \subseteq Nat
    BY <1>5
  <2>2. <<0..m, 0..n>> \in Less
    BY <2>1 DEF StrictSubsetOrdering
  <2>3. QED
    BY <1>3, <1>4, <2>1, <2>2
<1>6. QED
  BY <1>4, <1>5

LEMMA MinIsLeast ==
    ASSUME NEW T \in SUBSET Nat, T # {}
    PROVE  Min(T) \in T /\ \A m \in T : Min(T) <= m
BY LeastNumber DEF Min

-----------------------------------------------------------------------------
(* Regions.                                                                 *)
LEMMA RegionsType ==
    ASSUME NEW t \in Table
    PROVE  /\ Regions(t) \in Seq(Extent)
           /\ Regions(t) # <<>> =>
                /\ Regions(t)[1].start = 0 /\ Regions(t)[Len(Regions(t))].stop = 0
                /\ \A k \in 1..(Len(Regions(t)) - 1) : Regions(t)[k].stop = Regions(t)[k + 1].start
<1>1. CASE ~t.exists
  BY <1>1 DEF Regions
<1>2. CASE t.exists
  <2> DEFINE n == Len(t.splits) + 1
             edges == <<0>> \o t.splits \o <<0>>
             region(k) == [start |-> edges[k], stop |-> edges[k + 1]]
  <2>1. t.splits \in Seq(Keys) /\ n \in Nat \ {0}
    BY DEF Table
  <2>2. /\ edges \in Seq(Keys \union {0}) /\ Len(edges) = n + 1
        /\ edges[1] = 0 /\ edges[n + 1] = 0
    <3>1. <<0>> \o t.splits \in Seq(Keys \union {0}) /\ Len(<<0>> \o t.splits) = n
          /\ (<<0>> \o t.splits)[1] = 0
      BY <2>1
    <3>2. QED
      BY <2>1, <3>1
  <2>3. Regions(t) = [k \in 1..n |-> region(k)]
    BY <1>2 DEF Regions
  <2> HIDE DEF n, edges
  <2>4. \A k \in 1..n : region(k) \in Extent
    BY <2>1, <2>2 DEF Extent
  <2> HIDE DEF region
  <2>5. Regions(t) \in [1..n -> Extent]
    BY <2>3, <2>4
  <2>6. Regions(t) \in Seq(Extent) /\ Len(Regions(t)) = n
    BY <2>1, <2>5, SeqDef
  <2>7. /\ \A k \in 1..n : Regions(t)[k].start = edges[k] /\ Regions(t)[k].stop = edges[k + 1]
    BY <2>3 DEF region
  <2>8. \A k \in 1..(n - 1) : k \in 1..n /\ k + 1 \in 1..n
    BY <2>1
  <2>9. 1 \in 1..n /\ n \in 1..n
    BY <2>1
  <2>10. QED
    BY <2>2, <2>6, <2>7, <2>8, <2>9
<1>3. QED
  BY <1>1, <1>2

(* Every row is in a region.                                                *)
LEMMA RegionsCover ==
    ASSUME TypeOK, Adjacent, ranges # <<>>, NEW key \in Keys
    PROVE  \E k \in DOMAIN ranges : InRange(key, ranges[k])
<1> DEFINE n == Len(ranges)
           T == {k \in 1..n : ranges[k].stop = 0 \/ key < ranges[k].stop}
<1>1. /\ ranges \in Seq(Extent) /\ n \in Nat \ {0} /\ DOMAIN ranges = 1..n
      /\ \A k \in 1..n : ranges[k].start \in Keys \union {0} /\ ranges[k].stop \in Keys \union {0}
      /\ key \in Nat /\ Keys \subseteq Nat
  <2>1. ranges \in Seq(Extent)
    BY DEF TypeOK
  <2>2. n \in Nat \ {0} /\ DOMAIN ranges = 1..n /\ \A k \in 1..n : ranges[k] \in Extent
    BY <2>1
  <2>3. QED
    BY <2>1, <2>2, TablesAssumption DEF Extent
<1>2. n \in T /\ T \in SUBSET Nat
  BY <1>1 DEF Adjacent
<1>3. PICK k \in T : \A m \in T : k <= m
  <2> HIDE DEF T
  <2>1. QED
    BY <1>2, LeastNumber
<1>4. CASE k = 1
  BY <1>1, <1>3, <1>4 DEF Adjacent, InRange
<1>5. CASE k # 1
  <2>1. k - 1 \in 1..(n - 1) /\ k - 1 \in 1..n /\ k - 1 \notin T
    BY <1>1, <1>3, <1>5
  <2>2. ranges[k].start = ranges[k - 1].stop
    BY <2>1 DEF Adjacent
  <2>3. ranges[k - 1].stop # 0 /\ ~(key < ranges[k - 1].stop)
    BY <2>1
  <2>4. ranges[k - 1].stop \in Nat /\ k \in 1..n
    BY <1>1, <1>3, <2>1
  <2>5. ranges[k].start <= key
    BY <1>1, <2>2, <2>3, <2>4
  <2>6. QED
    BY <1>1, <1>3, <2>4, <2>5 DEF InRange
<1>6. QED
  BY <1>4, <1>5

-----------------------------------------------------------------------------
(* Skewed rows.                                                             *)
LEMMA Spread ==
    ASSUME NEW x \in Nat, NEW p \in 1..100, NEW due \in Int,
           100 * (due - 1) <= x, x < 100 * due
    PROVE  (x + p) % 100 < p <=> x + p >= 100 * due
<1>1. CASE x + p < 100 * due
  <2>1. (x + p) % 100 = x + p - 100 * (due - 1)
    BY <1>1
  <2>2. QED
    BY <1>1, <2>1
<1>2. CASE x + p >= 100 * due
  <2>1. CASE x + p - 100 * due < 100
    <3>1. (x + p) % 100 = x + p - 100 * due
      BY <1>2, <2>1
    <3>2. QED
      BY <1>2, <3>1
  <2>2. QED
    BY <2>1
<1>3. QED
  BY <1>1, <1>2

LEMMA SkewsGrow ==
    ASSUME NEW sq \in Seq(BOOLEAN), NEW s \in BOOLEAN, sent = sq, sent' = Append(sq, s)
    PROVE  /\ Cardinality(Skews) \in Nat
           /\ Cardinality(Skews') = Cardinality(Skews) + (IF s THEN 1 ELSE 0)
<1> DEFINE n == Len(sq)
           S == {k \in 1..n : sq[k]}
           T == {k \in 1..(n + 1) : Append(sq, s)[k]}
<1>1. n \in Nat /\ DOMAIN sq = 1..n /\ DOMAIN Append(sq, s) = 1..(n + 1)
      /\ Append(sq, s)[n + 1] = s /\ \A k \in 1..n : Append(sq, s)[k] = sq[k]
  OBVIOUS
<1>2. Skews = S /\ Skews' = T
  BY <1>1 DEF Skews
<1>3. IsFiniteSet(1..n) /\ S \subseteq 1..n /\ n + 1 \notin S
  BY <1>1, FS_Interval
<1>4. IsFiniteSet(S) /\ Cardinality(S) \in Nat
  <2> HIDE DEF S
  <2>1. QED
    BY <1>3, FS_Subset, FS_CardinalityType
<1>5. CASE s
  <2>1. T = S \union {n + 1}
    BY <1>1, <1>5
  <2> HIDE DEF S, T
  <2>2. QED
    BY <1>2, <1>3, <1>4, <1>5, <2>1, FS_AddElement
<1>6. CASE ~s
  <2>1. T = S
    BY <1>1, <1>6
  <2> HIDE DEF S, T
  <2>2. QED
    BY <1>2, <1>4, <1>6, <2>1
<1>7. QED
  BY <1>5, <1>6

(* One row more, skewed or not.  Before it count rows were skewed and late  *)
(* (0 or 1) should have been.                                               *)
Before(x, p, count, late) ==
    /\ x \in Nat /\ p \in 1..100 /\ count \in Nat /\ late \in {0, 1}
    /\ 100 * (count + late - 1) <= x /\ x < 100 * (count + late)
    /\ late = 1 => x % 100 = 0 /\ p # 100
OneRow(x, p, late, skewed, later) ==
    /\ skewed \in {0, 1} /\ later \in {0, 1}
    /\ \/ (x + p) % 100 = 0 /\ p # 100
       \/ late = 1 /\ skewed = 1
       \/ late = 0 /\ (skewed = 1 <=> (x + p) % 100 < p)
    /\ later = 1 <=> (x + p) % 100 < p /\ skewed = 0

LEMMA OneMore ==
    ASSUME NEW x, NEW p, NEW count, NEW late, NEW skewed, NEW later,
           Before(x, p, count, late), OneRow(x, p, late, skewed, later)
    PROVE  Before(x + p, p, count + skewed, later)
<1> USE DEF Before, OneRow
<1>1. (x + p) % 100 < p <=> x + p >= 100 * (count + late)
  <2> DEFINE due == count + late
  <2>1. due \in Int /\ 100 * (due - 1) <= x /\ x < 100 * due
    OBVIOUS
  <2> HIDE DEF due
  <2>2. (x + p) % 100 < p <=> x + p >= 100 * due
    BY <2>1, Spread
  <2>3. QED
    BY <2>2 DEF due
<1>2. CASE late = 1
  <2>1. x = 100 * count /\ p < 100
    BY <1>2
  <2>2. (x + p) % 100 = p
    BY <1>2, <2>1
  <2>3. skewed = 1 /\ later = 0
    BY <1>2, <2>2
  <2>4. QED
    BY <2>1, <2>3
<1>3. CASE late = 0
  <2>1. CASE (x + p) % 100 < p
    <3>1. skewed + later = 1
      BY <2>1
    <3>2. later = 1 => (x + p) % 100 = 0 /\ p # 100
      BY <1>3, <2>1
    <3>3. QED
      BY <1>1, <1>3, <2>1, <3>1, <3>2
  <2>2. CASE ~((x + p) % 100 < p)
    <3>1. (x + p) % 100 # 0
      BY <2>2
    <3>2. skewed = 0 /\ later = 0
      BY <1>3, <2>2, <3>1
    <3>3. QED
      BY <1>1, <1>3, <2>2, <3>2
  <2>3. QED
    BY <2>1, <2>2
<1>4. QED
  BY <1>2, <1>3

LEMMA Product ==
    ASSUME NEW n \in Nat, NEW p \in Nat
    PROVE  n * p \in Nat /\ n * p = (n - 1) * p + p
OBVIOUS

LEMMA EvenlySkewedPut ==
    ASSUME TypeOK, EvenlySkewed, run.skew, NEW p \in 1..100, run.skew_pc = p, NEW n, n = Len(sent),
           NEW s \in BOOLEAN, Skewed(n, s), sent' = Append(sent, s), run' = run
    PROVE  EvenlySkewed'
<1> DEFINE y == n * p
           count == Cardinality(Skews)
           late == IF Late THEN 1 ELSE 0
           skewed == IF s THEN 1 ELSE 0
           later == IF Late' THEN 1 ELSE 0
<1>1. /\ sent \in Seq(BOOLEAN) /\ n \in Nat /\ sent' # <<>> /\ Len(sent') = n + 1
      /\ sent'[n + 1] = s /\ (n = 0 <=> sent = <<>>)
  BY DEF TypeOK
<1>2. p \in Nat /\ p > 0
  OBVIOUS
<1>3. count \in Nat /\ Cardinality(Skews') = count + skewed
  BY <1>1, SkewsGrow
<1>4. (Len(sent') - 1) * run'.skew_pc = y /\ run'.skew_pc = p /\ Len(sent') - 1 = n
  <2>1. run'.skew_pc = p /\ Len(sent') - 1 = n
    BY <1>1
  <2>2. QED
    BY <2>1
<1>5. Late' <=> (y % 100 < p /\ ~s)
  BY <1>1, <1>4 DEF Late, Exact
<1>6. later \in {0, 1} /\ late \in {0, 1} /\ skewed \in {0, 1}
      /\ (later = 1 <=> Late') /\ (late = 1 <=> Late) /\ (skewed = 1 <=> s)
  OBVIOUS
<1>7. y \in Nat /\ y = (n - 1) * p + p
  BY <1>1, <1>2, Product
<1> DEFINE Goal == /\ 100 * (count + skewed + later - 1) <= y /\ y < 100 * (count + skewed + later)
                   /\ later = 1 => y % 100 = 0 /\ p # 100
<1>8. Goal => EvenlySkewed'
  <2>1. EvenlySkewed' <=>
          LET due == Cardinality(Skews') + later IN
          /\ p # 0 /\ 100 * (due - 1) <= y /\ y < 100 * due
          /\ Late' => y % 100 = 0 /\ p # 100
    BY <1>1, <1>4 DEF EvenlySkewed
  <2> HIDE DEF y, count, skewed, later
  <2>2. QED
    BY <1>2, <1>3, <1>6, <2>1
<1> HIDE DEF count, late, skewed, later
<1>9. CASE n = 0
  <2>1. y = 0
    BY <1>2, <1>9
  <2>2. count = 0
    <3>1. Skews = {}
      BY <1>1, <1>9 DEF Skews
    <3>2. QED
      BY <3>1, FS_EmptySet DEF count
  <2>3. y % 100 = 0
    BY <2>1
  <2>4. s = Exact(n)
    BY <1>9 DEF Skewed
  <2>5. Exact(n)
    BY <1>2, <2>3 DEF Exact
  <2>6. skewed = 1 /\ later = 0
    BY <1>5, <1>6, <2>4, <2>5
  <2>7. QED
    BY <1>2, <1>8, <2>1, <2>2, <2>6
<1>10. CASE n > 0
  <2> DEFINE x == (n - 1) * p
  <2>1. n - 1 \in Nat
    BY <1>1, <1>10
  <2>2. x \in Nat /\ y = x + p
    BY <1>2, <1>7, <2>1, Product
  <2>3. /\ 100 * (count + late - 1) <= x /\ x < 100 * (count + late)
        /\ late = 1 => x % 100 = 0 /\ p # 100
    <3>1. sent # <<>> /\ (Len(sent) - 1) * run.skew_pc = x
      BY <1>1, <1>10
    <3>2. LET due == count + late IN
          100 * (due - 1) <= x /\ x < 100 * due /\ (Late => x % 100 = 0 /\ p # 100)
      BY <3>1 DEF EvenlySkewed, count, late
    <3>3. QED
      BY <1>3, <1>6, <3>2
  <2>4. Late <=> Exact(n - 1) /\ ~sent[n]
    BY <1>1, <1>10 DEF Late
  <2>5. \/ y % 100 = 0 /\ 100 % p # 0
        \/ Late /\ s = TRUE
        \/ ~Late /\ s = Exact(n)
    BY <1>10, <2>4 DEF Skewed
  <2>6. Exact(n) <=> (x + p) % 100 < p
    BY <2>2 DEF Exact
  <2>7. 100 % p # 0 => p # 100
    OBVIOUS
  <2> HIDE DEF x, y
  <2>8. \/ (x + p) % 100 = 0 /\ p # 100
        \/ late = 1 /\ skewed = 1
        \/ late = 0 /\ (skewed = 1 <=> (x + p) % 100 < p)
    <3>1. late = 0 <=> ~Late
      BY <1>6
    <3>2. QED
      BY <1>6, <2>2, <2>5, <2>6, <2>7, <3>1
  <2>9. later = 1 <=> (x + p) % 100 < p /\ skewed = 0
    BY <1>5, <1>6, <2>2
  <2>10. Before(x, p, count, late) /\ OneRow(x, p, late, skewed, later)
    BY <1>3, <1>6, <2>2, <2>3, <2>8, <2>9 DEF Before, OneRow
  <2>11. Before(x + p, p, count + skewed, later)
    BY <2>10, OneMore
  <2>12. QED
    BY <1>8, <2>2, <2>11 DEF Before
<1>11. QED
  BY <1>1, <1>9, <1>10

-----------------------------------------------------------------------------
(* What others do.  What was there from the start of a scan is there still, *)
(* and what is there now has been seen.                                     *)
Known(rows, throughout, once) == throughout \subseteq rows /\ rows \subseteq once
LEMMA OthersFacts ==
    ASSUME TypeOK, Others
    PROVE  /\ UNCHANGED <<run, pc, work, dropped, sent, astray, ranges, at, last, counted, output, exit>>
           /\ pc # "done" /\ changes' \in 0..MaxChanges /\ lost' \in BOOLEAN
           /\ tables' \in [DOMAIN Tables -> Table]
           /\ steady' \subseteq steady /\ ever \subseteq ever' /\ ever' \subseteq Keys
           /\ run.table \in DOMAIN Tables /\ Known(table.rows, steady, ever) =>
                Known(tables'[run.table].rows, steady', ever')
<1>1. /\ UNCHANGED <<run, pc, work, dropped, sent, astray, ranges, at, last, counted, output, exit>>
      /\ pc # "done" /\ changes' \in 0..MaxChanges
  BY TablesAssumption DEF Others, TypeOK
<1>0. lost' \in BOOLEAN
  BY DEF Others, CreateOrDrop, EnableOrDisable, Split, AddRow, DeleteRow, TypeOK
<1>2. tables \in [DOMAIN Tables -> Table] /\ DOMAIN tables = DOMAIN Tables
      /\ ever \subseteq Keys /\ steady \subseteq ever
  BY DEF TypeOK
<1>3. ASSUME NEW t \in DOMAIN tables, CreateOrDrop(t)
      PROVE  /\ tables' \in [DOMAIN Tables -> Table] /\ ever' = ever /\ steady' \subseteq steady
             /\ run.table \in DOMAIN Tables /\ Known(table.rows, steady, ever) =>
                  Known(tables'[run.table].rows, steady', ever')
  <2>1. [Fresh(FALSE) EXCEPT !.exists = ~tables[t].exists] \in Table
    <3> DEFINE e == ~tables[t].exists
    <3>1. e \in BOOLEAN
      OBVIOUS
    <3>2. <<>> \in Seq(Keys) /\ {} \in SUBSET Keys
      OBVIOUS
    <3> HIDE DEF e
    <3>3. [Fresh(FALSE) EXCEPT !.exists = e] \in Table
      BY <3>1, <3>2 DEF Fresh, Table
    <3>4. QED
      BY <3>3 DEF e
  <2>2. QED
    BY <1>2, <1>3, <2>1 DEF CreateOrDrop, table, Fresh, Known
<1>4. ASSUME NEW t \in DOMAIN tables, EnableOrDisable(t)
      PROVE  /\ tables' \in [DOMAIN Tables -> Table] /\ UNCHANGED <<ever, steady>>
             /\ run.table \in DOMAIN Tables => tables'[run.table].rows = table.rows
  <2> DEFINE new == [tables[t] EXCEPT !.enabled = ~tables[t].enabled]
  <2>1. new \in Table /\ new.rows = tables[t].rows
    BY <1>2 DEF Table
  <2>2. tables' = [tables EXCEPT ![t] = new] /\ UNCHANGED <<ever, steady>>
    BY <1>4 DEF EnableOrDisable
  <2> HIDE DEF new
  <2>3. QED
    BY <1>2, <2>1, <2>2 DEF table
<1>5. ASSUME run.table \in DOMAIN Tables, NEW key \in Keys, Split(key) \/ AddRow(key) \/ DeleteRow(key)
      PROVE  /\ tables' \in [DOMAIN Tables -> Table]
             /\ steady' \subseteq steady /\ ever \subseteq ever' /\ ever' \subseteq Keys
             /\ Known(table.rows, steady, ever) => Known(tables'[run.table].rows, steady', ever')
  <2>1. /\ table \in Table /\ table.rows \subseteq Keys
    BY <1>2, <1>5 DEF table, Table
  <2>2. ASSUME NEW new \in Table, Becomes(new)
        PROVE  tables' \in [DOMAIN Tables -> Table] /\ tables'[run.table] = new
    BY <1>2, <1>5, <2>2 DEF Becomes
  <2>3. CASE Split(key)
    <3>1. PICK i \in 1..(Len(table.splits) + 1) :
            Becomes([table EXCEPT !.splits = SubSeq(table.splits, 1, i - 1) \o <<key>>
                                               \o SubSeq(table.splits, i, Len(table.splits))])
      BY <2>3 DEF Split
    <3> DEFINE splits == SubSeq(table.splits, 1, i - 1) \o <<key>>
                           \o SubSeq(table.splits, i, Len(table.splits))
               new == [table EXCEPT !.splits = splits]
    <3>2. splits \in Seq(Keys)
      <4>1. table.splits \in Seq(Keys) /\ Len(table.splits) \in Nat
        BY <2>1 DEF Table
      <4>2. SubSeq(table.splits, 1, i - 1) \in Seq(Keys)
            /\ SubSeq(table.splits, i, Len(table.splits)) \in Seq(Keys)
        BY <4>1, SubSeqProperties
      <4>3. <<key>> \in Seq(Keys)
        OBVIOUS
      <4>4. QED
        BY <4>2, <4>3, ConcatProperties
    <3>3. Becomes(new) /\ UNCHANGED <<steady, ever>>
      BY <2>3, <3>1 DEF Split
    <3> HIDE DEF splits
    <3>4. new \in Table /\ new.rows = table.rows
      BY <2>1, <3>2 DEF Table
    <3> HIDE DEF new
    <3>5. QED
      BY <1>2, <2>2, <3>3, <3>4 DEF Known
  <2>4. CASE AddRow(key)
    <3> DEFINE new == [table EXCEPT !.rows = table.rows \union {key}]
    <3>1. new \in Table /\ new.rows = table.rows \union {key}
      BY <2>1 DEF Table
    <3>2. Becomes(new) /\ steady' = steady /\ ever' = ever \union {key}
      BY <2>4 DEF AddRow
    <3> HIDE DEF new
    <3>3. QED
      BY <1>2, <2>2, <3>1, <3>2 DEF Known
  <2>5. CASE DeleteRow(key)
    <3> DEFINE new == [table EXCEPT !.rows = table.rows \ {key}]
    <3>1. new \in Table /\ new.rows = table.rows \ {key}
      BY <2>1 DEF Table
    <3>2. Becomes(new) /\ steady' = steady \ {key} /\ ever' = ever
      BY <2>5 DEF DeleteRow
    <3> HIDE DEF new
    <3>3. QED
      BY <1>2, <2>2, <3>1, <3>2 DEF Known
  <2>6. QED
    BY <1>5, <2>3, <2>4, <2>5
<1>6. run.table # "none" => run.table \in DOMAIN Tables
  BY RunsAssumption DEF TypeOK
<1>7. QED
  BY <1>0, <1>1, <1>2, <1>3, <1>4, <1>5, <1>6 DEF Others, Known

(* A table the run has made stays its own, unless others drop it.           *)
LEMMA OthersTakeOnlyByDropping ==
    ASSUME TypeOK, Others, run.table \in DOMAIN Tables, table.mine \/ lost
    PROVE  table'.mine \/ lost'
<1>1. tables \in [DOMAIN Tables -> Table] /\ table \in Table /\ run' = run
  BY DEF TypeOK, Others, table
<1>2. ASSUME NEW t \in DOMAIN tables, CreateOrDrop(t) PROVE table'.mine \/ lost'
  BY <1>1, <1>2 DEF CreateOrDrop, table
<1>3. ASSUME NEW t \in DOMAIN tables, EnableOrDisable(t) PROVE table'.mine \/ lost'
  <2> DEFINE new == [tables[t] EXCEPT !.enabled = ~tables[t].enabled]
  <2>1. new.mine = tables[t].mine
    BY <1>1 DEF Table
  <2>2. tables' = [tables EXCEPT ![t] = new] /\ lost' = lost
    BY <1>3 DEF EnableOrDisable
  <2> HIDE DEF new
  <2>3. QED
    BY <1>1, <2>1, <2>2 DEF table
<1>4. ASSUME NEW key \in Keys, Split(key) \/ AddRow(key) \/ DeleteRow(key)
      PROVE  table'.mine \/ lost'
  <2>1. ASSUME NEW new, Becomes(new) PROVE table' = new
    BY <1>1, <2>1 DEF Becomes, table
  <2>2. lost' = lost /\ \E new : Becomes(new) /\ new.mine = table.mine
    <3>1. CASE Split(key)
      <4>1. PICK splits : Becomes([table EXCEPT !.splits = splits])
        BY <3>1 DEF Split
      <4>2. [table EXCEPT !.splits = splits].mine = table.mine /\ lost' = lost
        BY <1>1, <3>1 DEF Split, Table
      <4>3. QED
        BY <4>1, <4>2
    <3>2. CASE AddRow(key) \/ DeleteRow(key)
      <4>1. PICK rows : Becomes([table EXCEPT !.rows = rows])
        BY <3>2 DEF AddRow, DeleteRow
      <4>2. [table EXCEPT !.rows = rows].mine = table.mine /\ lost' = lost
        BY <1>1, <3>2 DEF AddRow, DeleteRow, Table
      <4>3. QED
        BY <4>1, <4>2
    <3>3. QED
      BY <1>4, <3>1, <3>2
  <2>3. QED
    BY <2>1, <2>2
<1>5. QED
  BY <1>2, <1>3, <1>4 DEF Others

(* A table of the run changes into another one.                             *)
LEMMA TablesType ==
    ASSUME TypeOK, NEW new \in Table, Becomes(new)
    PROVE  tables' \in [DOMAIN Tables -> Table]
BY DEF TypeOK, Becomes

LEMMA FreshType == ASSUME NEW mine \in BOOLEAN PROVE Fresh(mine) \in Table
BY DEF Fresh, Table

-----------------------------------------------------------------------------
(* The next row is the first after the last one.                            *)
LEMMA ScanFacts ==
    ASSUME TypeOK, Phases, Scan
    PROVE  /\ at \in 1..Len(ranges) /\ Len(ranges) \in Nat /\ run.table \in DOMAIN Tables
           /\ UNCHANGED <<run, tables, changes, work, data, ranges, steady, ever, output>>
           /\ pc = "scan"
           /\ \/ pc' = "done" /\ exit' = "2" /\ UNCHANGED <<at, last, counted>>
              \/ /\ last' \in {key \in Rows(at) : key > last} /\ last' \in Keys
                 /\ \A key \in Rows(at) : key > last => last' <= key
                 /\ counted' = [counted EXCEPT ![at] = counted[at] \union {last'}]
                 /\ UNCHANGED <<at, pc, exit>>
              \/ /\ \A key \in Rows(at) : ~(key > last)
                 /\ at < Len(ranges) /\ at' = at + 1 /\ last' = 0 /\ UNCHANGED <<counted, pc, exit>>
              \/ /\ \A key \in Rows(at) : ~(key > last)
                 /\ at = Len(ranges) /\ pc' = "print" /\ UNCHANGED <<at, last, counted, exit>>
<1> DEFINE next == {key \in Rows(at) : key > last}
<1>1. /\ pc = "scan" /\ run.table \in DOMAIN Tables /\ run.tool \in Scanners
      /\ ranges \in Seq(Extent) /\ at \in DOMAIN ranges
  BY DEF Scan, Phases, TypeOK
<1>2. Len(ranges) \in Nat /\ at \in 1..Len(ranges)
  BY <1>1
<1>3. next \subseteq Keys /\ next \in SUBSET Nat
  BY <1>1, TablesAssumption DEF TypeOK, Rows, table, Table
<1>4. next # {} => Min(next) \in next /\ \A key \in next : Min(next) <= key
  <2> HIDE DEF next
  <2>1. QED
    BY <1>3, MinIsLeast
<1>5. UNCHANGED <<run, tables, changes, work, data, ranges, steady, ever, output>>
  BY DEF Scan
<1>6. CASE ~Usable
  BY <1>1, <1>2, <1>5, <1>6 DEF Scan, End
<1>7. CASE Usable /\ next # {}
  BY <1>1, <1>2, <1>3, <1>4, <1>5, <1>7 DEF Scan
<1>8. CASE Usable /\ next = {}
  BY <1>1, <1>2, <1>5, <1>8 DEF Scan, Goto
<1>9. QED
  BY <1>6, <1>7, <1>8

LEMMA ScanType ==
    ASSUME TypeOK, Phases, CountedSoFar, Scan
    PROVE  TypeOK'
<1>1. /\ run.tool \in Scanners /\ table.rows \subseteq ever /\ pc = "scan"
      /\ at \in DOMAIN ranges /\ ranges \in Seq(Extent)
  BY ScanFacts DEF Phases, CountedSoFar, TypeOK
<1>2. counted' = <<>> \/ counted' \in [DOMAIN ranges' -> SUBSET ever']
  <2>1. ranges' = ranges /\ ever' = ever
    BY ScanFacts
  <2>2. CASE UNCHANGED counted
    BY <2>1, <2>2 DEF TypeOK
  <2>3. CASE last' \in Rows(at) /\ counted' = [counted EXCEPT ![at] = counted[at] \union {last'}]
    <3>1. last' \in ever
      BY <1>1, <2>3 DEF Rows
    <3>2. CASE counted = <<>>
      BY <2>3, <3>2
    <3>3. CASE counted \in [DOMAIN ranges -> SUBSET ever]
      BY <1>1, <2>1, <2>3, <3>1, <3>3
    <3>4. QED
      BY <3>2, <3>3 DEF TypeOK
  <2>4. QED
    BY <2>2, <2>3, ScanFacts
<1>3. /\ at' \in Nat /\ last' \in Keys \union {0}
      /\ pc' # "done" => at' \in DOMAIN ranges'
  <2>1. at \in 1..Len(ranges) /\ Len(ranges) \in Nat /\ ranges' = ranges /\ last \in Keys \union {0}
        /\ DOMAIN ranges = 1..Len(ranges)
    BY <1>1, ScanFacts DEF TypeOK
  <2>2. CASE UNCHANGED <<at, last>>
    BY <1>1, <2>1, <2>2
  <2>3. CASE last' \in Keys /\ at' = at
    BY <1>1, <2>1, <2>3
  <2>4. CASE at < Len(ranges) /\ at' = at + 1 /\ last' = 0
    BY <2>1, <2>4
  <2>5. QED
    BY <2>2, <2>3, <2>4, ScanFacts
<1>4. \/ pc' = "done" /\ exit' = "2"
      \/ pc' \in {"scan", "print"} /\ exit' = exit
  BY ScanFacts
<1>5. UNCHANGED <<run, tables, changes, work, data, ranges, steady, ever, output>> /\ pc = "scan"
  BY ScanFacts
<1>6. QED
  BY <1>2, <1>3, <1>4, <1>5 DEF TypeOK, work, data

LEMMA TypeStep == TypeOK /\ Phases /\ Remaining /\ CountedSoFar /\ [Next]_vars => TypeOK'
<1> SUFFICES ASSUME TypeOK, Phases, Remaining, CountedSoFar, [Next]_vars PROVE TypeOK'
  OBVIOUS
<1> USE DEF Goto, End, work, data, scan
<1>1. CASE ProcessArgs
  BY <1>1 DEF ProcessArgs, Phases, TypeOK
<1>2. CASE GetTables
  <2>1. listing' \subseteq DOMAIN Tables /\ todo' \subseteq listing' \intersect run.matches
    BY <1>2 DEF GetTables, Listed, TypeOK
  <2>2. UNCHANGED <<run, tables, changes, handled, data, scan, output>>
    BY <1>2 DEF GetTables
  <2>3. \/ pc' = "done" /\ exit' \in {"2", "3"}
        \/ pc' \in {"delete", "families", "create", "work", "regions", "enabled"} /\ exit' = exit
    BY <1>2 DEF GetTables, GenerateRun, CompactRun, FlushRun, RegionsRun, KeysRun
  <2>4. pc = "tables"
    BY <1>2 DEF GetTables
  <2>5. handled' = {}
    BY <2>2, <2>4 DEF Remaining
  <2>6. QED
    BY <2>1, <2>2, <2>3, <2>4, <2>5 DEF TypeOK
<1>3. CASE RequestFails
  <2>1. tables' \in [DOMAIN Tables -> Table]
    <3>1. CASE UNCHANGED tables
      BY <3>1 DEF TypeOK
    <3>2. CASE pc = "delete" /\ Becomes([table EXCEPT !.enabled = FALSE])
      <4>1. table \in Table
        BY <3>2, RunsAssumption DEF Phases, TypeOK, table
      <4>2. [table EXCEPT !.enabled = FALSE] \in Table
        BY <4>1 DEF Table
      <4>3. QED
        BY <3>2, <4>2, TablesType DEF TypeOK
    <3>3. CASE Becomes(Fresh(TRUE))
      BY <3>3, FreshType, TablesType
    <3>4. QED
      BY <1>3, <3>1, <3>2, <3>3 DEF RequestFails
  <2>2. QED
    BY <1>3, <2>1 DEF RequestFails, TypeOK
<1>4. CASE DeleteTable
  <2>1. run.table \in DOMAIN Tables /\ table \in Table
    BY <1>4, RunsAssumption DEF DeleteTable, Phases, TypeOK, table
  <2>2. [table EXCEPT !.exists = FALSE] \in Table
    BY <2>1 DEF Table
  <2>3. tables' \in [DOMAIN Tables -> Table] /\ dropped' \subseteq DOMAIN Tables
    BY <1>4, <2>1, <2>2, TablesType DEF DeleteTable, TypeOK
  <2>4. QED
    BY <1>4, <2>3 DEF DeleteTable, TypeOK
<1>5. CASE CreateTable
  <2>1. tables' \in [DOMAIN Tables -> Table]
    BY <1>5, FreshType, TablesType DEF CreateTable, TypeOK
  <2>2. QED
    BY <1>5, <2>1 DEF CreateTable, TypeOK
<1>6. CASE Families
  BY <1>6 DEF Families, TypeOK
<1>7. CASE SkewMod
  BY <1>7 DEF SkewMod, TypeOK
<1>8. CASE Put
  <2>1. run.num \in Nat
    BY RunsAssumption DEF TypeOK
  <2>2. CASE UNCHANGED <<sent, astray>>
    BY <1>8, <2>2 DEF Put, TypeOK
  <2>3. CASE ~UNCHANGED <<sent, astray>>
    <3>1. PICK s \in BOOLEAN : sent' = Append(sent, s) /\ astray' = (astray \/ ~table.mine)
      BY <1>8, <2>3 DEF Put
    <3>2. Len(sent) # run.num /\ UNCHANGED <<pc, exit>>
      BY <1>8, <2>3 DEF Put
    <3>3. sent' \in Seq(BOOLEAN) /\ Len(sent') <= run.num /\ astray' \in BOOLEAN
      BY <2>1, <3>1, <3>2 DEF TypeOK
    <3>4. QED
      BY <1>8, <3>2, <3>3 DEF Put, TypeOK
  <2>4. QED
    BY <2>2, <2>3
<1>9. CASE Work
  BY <1>9 DEF Work, CompactTable, FlushTable, TypeOK
<1>10. CASE GetRegions
  <2>1. ranges' \in Seq(Extent)
    <3>1. table \in Table
      BY <1>10 DEF GetRegions, Phases, TypeOK, table
    <3>2. QED
      BY <1>10, <3>1, RegionsType DEF GetRegions
  <2>2. counted' = <<>> /\ pc' # "scan" /\ (pc' = "print" => run.tool = "show_regions")
    BY <1>10 DEF GetRegions, CountRegions, Phases
  <2>3. \/ pc' = "done" /\ exit' \in {"2", "3"}
        \/ pc' \in {"print", "enabled"} /\ exit' = exit
    BY <1>10 DEF GetRegions, CountRegions
  <2>4. UNCHANGED <<run, tables, changes, work, data, at, last, counted, steady, ever, output>>
        /\ pc = "regions"
    BY <1>10 DEF GetRegions
  <2>5. QED
    BY <2>1, <2>2, <2>3, <2>4 DEF TypeOK, Scanners
<1>11. CASE IsTableEnabled
  <2>1. ranges' \in Seq(Extent) /\ at = 1 /\ (run.tool \in Scanners => 1 \in DOMAIN ranges')
    <3>1. CASE run.tool = "key_rows"
      BY <1>11, <3>1 DEF IsTableEnabled, WholeTable, Extent, Phases
    <3>2. CASE run.tool # "key_rows"
      <4>1. ranges' = ranges /\ ranges \in Seq(Extent) /\ at = 1
            /\ (run.tool \in Scanners => ranges # <<>>)
        BY <1>11, <3>2 DEF IsTableEnabled, Phases, TypeOK, Scanners
      <4>2. QED
        BY <4>1
    <3>3. QED
      BY <3>1, <3>2
  <2>2. table.rows \subseteq Keys
    BY <1>11 DEF IsTableEnabled, Phases, TypeOK, table, Table
  <2>3. steady' = table.rows /\ ever' = table.rows
        /\ counted' \in [DOMAIN ranges' -> SUBSET ever']
    BY <1>11 DEF IsTableEnabled
  <2>4. /\ pc = "enabled" /\ UNCHANGED <<run, tables, changes, work, data, at, last, output>>
        /\ \/ pc' = "scan" /\ exit' = exit
           \/ pc' = "done" /\ exit' = "2"
    BY <1>11 DEF IsTableEnabled
  <2>5. QED
    BY <2>1, <2>2, <2>3, <2>4 DEF TypeOK
<1>12. CASE PrintCounts
  <2>1. pc' = "done" /\ exit' \in {"0", "2"}
    <3>1. run.tool \in {"show_regions"} \union {"region_rows", "key_rows"}
      BY <1>12 DEF PrintCounts, Phases, Scanners, RegionTools
    <3>2. QED
      BY <1>12, <3>1 DEF PrintCounts, PrintRegions, PrintRegionCounts, PrintPrefixCounts
  <2>2. UNCHANGED <<run, tables, changes, work, data, scan>>
    BY <1>12 DEF PrintCounts
  <2>3. QED
    BY <2>1, <2>2 DEF TypeOK
<1>13. CASE Alarm
  BY <1>13 DEF Alarm, TypeOK
<1>14. CASE Others
  <2>1. counted' = <<>> \/ counted' \in [DOMAIN ranges' -> SUBSET ever']
    BY <1>14, OthersFacts DEF TypeOK
  <2>2. QED
    BY <1>14, <2>1, OthersFacts DEF TypeOK
<1>15. CASE UNCHANGED vars
  BY <1>15 DEF vars, TypeOK
<1>16. CASE Scan
  BY <1>16, ScanType
<1>17. QED
  BY <1>1, <1>2, <1>3, <1>4, <1>5, <1>6, <1>7, <1>8, <1>9, <1>10, <1>11, <1>12, <1>13, <1>14,
     <1>15, <1>16 DEF Next

-----------------------------------------------------------------------------
(* Where a run may be.                                                      *)
LEMMA PhasesStep ==
    TypeOK /\ Phases /\ [Next]_vars => Phases'
<1> SUFFICES ASSUME TypeOK, Phases, [Next]_vars PROVE Phases'
  OBVIOUS
<1> USE DEF Goto, End, work, data, scan
<1>1. CASE ProcessArgs
  <2>1. /\ UNCHANGED <<run, tables, changes, work, data, scan, output>> /\ pc = "options"
        /\ pc' \in {"tables", "done"} /\ (pc' = "tables" => ~DropRefused /\ ~TableMissing)
    BY <1>1 DEF ProcessArgs
  <2>2. QED
    BY <2>1 DEF Phases, DropRefused
<1>2. CASE GetTables
  <2>1. /\ UNCHANGED <<run, tables, changes, handled, data, scan, output>> /\ pc = "tables"
        /\ listing' \subseteq DOMAIN Tables
    BY <1>2 DEF GetTables, Listed, TypeOK
  <2>2. CASE run.tool = "generate"
    <3>1. \/ pc' = "delete" /\ run.drop /\ run.table \in listing'
          \/ pc' = "families" /\ run.existing
          \/ pc' \in {"create", "done"}
      BY <1>2, <2>2 DEF GetTables, GenerateRun
    <3>2. QED
      BY <2>1, <2>2, <3>1 DEF Phases, DropRefused
  <2>3. CASE run.tool \in {"compact", "flush"}
    <3>1. pc' \in {"work", "done"}
      BY <1>2, <2>3 DEF GetTables, CompactRun, FlushRun
    <3>2. QED
      BY <2>1, <2>3, <3>1 DEF Phases, DropRefused
  <2>4. CASE run.tool \in Scanners \union RegionTools
    <3>1. \/ pc' = "done"
          \/ pc' = "enabled" /\ run.tool = "key_rows" /\ run.table \in listing'
          \/ pc' = "regions" /\ run.table \in listing'
      BY <1>2, <2>4 DEF GetTables, KeysRun, RegionsRun, Scanners, RegionTools
    <3>2. QED
      BY <2>1, <2>4, <3>1 DEF Phases, DropRefused, Scanners
  <2>5. QED
    BY <2>2, <2>3, <2>4, RunsAssumption DEF TypeOK
<1>3. CASE RequestFails
  BY <1>3 DEF RequestFails, Phases, DropRefused
<1>4. CASE DeleteTable
  BY <1>4 DEF DeleteTable, Phases, DropRefused
<1>5. CASE CreateTable
  <2>1. table'.mine \/ pc' = "done"
    <3>1. run.table \in DOMAIN tables
      BY <1>5, RunsAssumption DEF CreateTable, Phases, TypeOK
    <3>2. QED
      BY <1>5, <3>1 DEF CreateTable, Becomes, Fresh, table
  <2>2. QED
    BY <1>5, <2>1 DEF CreateTable, Phases, DropRefused
<1>6. CASE Families
  BY <1>6 DEF Families, Phases, DropRefused
<1>7. CASE SkewMod
  BY <1>7 DEF SkewMod, Phases, DropRefused, table
<1>8. CASE Put
  BY <1>8 DEF Put, Phases, DropRefused, table
<1>9. CASE Work
  BY <1>9 DEF Work, CompactTable, FlushTable, Phases, DropRefused
<1>10. CASE GetRegions
  BY <1>10 DEF GetRegions, CountRegions, Phases, DropRefused, Scanners, RegionTools
<1>11. CASE IsTableEnabled
  BY <1>11 DEF IsTableEnabled, Phases, DropRefused
<1>12. CASE Scan
  BY <1>12, ScanFacts DEF Phases, DropRefused
<1>13. CASE PrintCounts
  <2>1. pc' = "done" /\ UNCHANGED <<run, sent, at, last, counted, ranges, dropped>>
    <3>1. run.tool \in {"show_regions", "region_rows", "key_rows"}
      BY <1>13 DEF PrintCounts, Phases, Scanners, RegionTools
    <3>2. QED
      BY <1>13, <3>1 DEF PrintCounts, PrintRegions, PrintRegionCounts, PrintPrefixCounts
  <2>2. QED
    BY <2>1 DEF Phases, DropRefused
<1>14. CASE Alarm
  BY <1>14 DEF Alarm, Phases, DropRefused
<1>15. CASE Others
  <2>1. UNCHANGED <<run, pc, listing, dropped, sent, ranges, at, last, counted, output>>
    BY <1>15, OthersFacts
  <2>2. pc \in {"populate", "put"} /\ ~run.existing => table'.mine \/ lost'
    <3>1. pc \in {"populate", "put"} => run.table \in DOMAIN Tables
      BY RunsAssumption DEF Phases, TypeOK
    <3>2. QED
      BY <1>15, <3>1, OthersTakeOnlyByDropping DEF Phases
  <2>3. QED
    BY <2>1, <2>2 DEF Phases, DropRefused
<1>16. CASE UNCHANGED vars
  BY <1>16 DEF vars, Phases, DropRefused, table
<1>17. QED
  BY <1>1, <1>2, <1>3, <1>4, <1>5, <1>6, <1>7, <1>8, <1>9, <1>10, <1>11, <1>12, <1>13, <1>14,
     <1>15, <1>16 DEF Next

(* Only DeleteTable drops, and a row goes astray only where the table the   *)
(* run had created was lost, or a table was to be used as it is.            *)
LEMMA OnlyOwnTablesStep ==
    TypeOK /\ Phases /\ OnlyOwnTables /\ [Next]_vars => OnlyOwnTables'
<1> SUFFICES ASSUME TypeOK, Phases, OnlyOwnTables, [Next]_vars PROVE OnlyOwnTables'
  OBVIOUS
<1>1. CASE DeleteTable
  <2>1. run.table = DefaultTable /\ run.drop /\ run.table \in listing
    BY <1>1 DEF DeleteTable, Phases, DropRefused
  <2>2. UNCHANGED <<run, listing, lost, astray>> /\ dropped' \subseteq dropped \union {run.table}
    BY <1>1 DEF DeleteTable, work
  <2>3. QED
    BY <2>1, <2>2 DEF OnlyOwnTables
<1>2. CASE Put
  <2>1. UNCHANGED <<run, listing, lost, dropped>> /\ (astray' => astray \/ ~table.mine)
        /\ (~run.existing => table.mine \/ lost)
    BY <1>2 DEF Put, Phases, work
  <2>2. QED
    BY <2>1 DEF OnlyOwnTables
<1>3. CASE GetTables
  <2>1. UNCHANGED <<run, lost, astray, dropped>> /\ dropped = {}
    BY <1>3 DEF GetTables, Phases, data
  <2>2. QED
    BY <2>1 DEF OnlyOwnTables
<1>4. CASE Others
  <2>1. UNCHANGED <<run, listing, astray, dropped>> /\ (lost => lost')
    <3>1. lost => lost'
      BY <1>4 DEF Others, CreateOrDrop, EnableOrDisable, Split, AddRow, DeleteRow
    <3>2. QED
      BY <1>4, <3>1, OthersFacts DEF work
  <2>2. QED
    BY <2>1 DEF OnlyOwnTables
<1>5. CASE ~DeleteTable /\ ~Put /\ ~GetTables /\ ~Others
  <2>1. UNCHANGED <<run, listing, data>>
    <3>1. CASE ProcessArgs \/ RequestFails \/ CreateTable \/ Families \/ SkewMod
      BY <3>1 DEF ProcessArgs, RequestFails, CreateTable, Families, SkewMod, work
    <3>2. CASE Work \/ Alarm \/ UNCHANGED vars
      BY <3>2 DEF Work, Alarm, vars, work
    <3>3. CASE GetRegions \/ IsTableEnabled \/ Scan \/ PrintCounts
      BY <3>3 DEF GetRegions, IsTableEnabled, Scan, PrintCounts, work
    <3>4. QED
      BY <1>5, <3>1, <3>2, <3>3 DEF Next
  <2>2. QED
    BY <2>1 DEF OnlyOwnTables, data
<1>6. QED
  BY <1>1, <1>2, <1>3, <1>4, <1>5

(* A table listed and asked for is either handled or still to be.           *)
LEMMA RemainingStep ==
    TypeOK /\ Phases /\ Remaining /\ [Next]_vars => Remaining'
<1> SUFFICES ASSUME TypeOK, Phases, Remaining, [Next]_vars PROVE Remaining'
  OBVIOUS
<1>1. CASE ProcessArgs
  BY <1>1 DEF ProcessArgs, Goto, End, work, Remaining
<1>2. CASE GetTables
  <2>1. todo' = listing' \intersect run'.matches /\ handled' = {}
    BY <1>2 DEF GetTables, Remaining
  <2>2. QED
    BY <2>1 DEF Remaining
<1>3. CASE Work
  <2>1. CASE todo = {} /\ End("0") /\ UNCHANGED <<todo, handled>>
    BY <2>1 DEF End, Remaining
  <2>2. ASSUME NEW t \in todo, IF run.tool = "compact" THEN CompactTable(t) ELSE FlushTable(t)
        PROVE  Remaining'
    BY <1>3, <2>2 DEF Work, CompactTable, FlushTable, End, Remaining
  <2>3. QED
    BY <1>3, <2>1, <2>2 DEF Work
<1>4. CASE RequestFails \/ DeleteTable \/ CreateTable \/ Families \/ SkewMod \/ Put
  BY <1>4 DEF RequestFails, DeleteTable, CreateTable, Families, SkewMod, Put, Goto, End, work,
              Remaining
<1>5. CASE GetRegions \/ IsTableEnabled \/ Alarm \/ UNCHANGED vars
  BY <1>5 DEF GetRegions, CountRegions, IsTableEnabled, Alarm, Goto, End, work, vars, Remaining
<1>6. CASE Scan
  BY <1>6, ScanFacts DEF Remaining, work
<1>7. CASE PrintCounts
  <2>1. pc = "print" /\ UNCHANGED <<run, work>> /\ pc' # "work" /\ pc' # "options" /\ pc' # "tables"
    <3>1. run.tool \in {"show_regions", "region_rows", "key_rows"}
      BY <1>7 DEF PrintCounts, Phases, Scanners, RegionTools
    <3>2. QED
      BY <1>7, <3>1 DEF PrintCounts, PrintRegions, PrintRegionCounts, PrintPrefixCounts, End
  <2>2. QED
    BY <2>1 DEF Remaining
<1>8. CASE Others
  BY <1>8, OthersFacts DEF Remaining, work
<1>9. QED
  BY <1>1, <1>2, <1>3, <1>4, <1>5, <1>6, <1>7, <1>8 DEF Next

(* Who sends rows.                                                          *)
LEMMA OnlyPutSends ==
    ASSUME TypeOK, [Next]_vars, ~Put
    PROVE  UNCHANGED <<run, sent>>
<1>1. CASE ProcessArgs \/ GetTables \/ RequestFails \/ DeleteTable \/ CreateTable \/ Families
  BY <1>1 DEF ProcessArgs, GetTables, RequestFails, DeleteTable, CreateTable, Families, data
<1>2. CASE SkewMod \/ Work \/ GetRegions \/ IsTableEnabled \/ Scan \/ PrintCounts \/ Alarm
  BY <1>2 DEF SkewMod, Work, GetRegions, IsTableEnabled, Scan, PrintCounts, Alarm, data
<1>3. CASE Others \/ UNCHANGED vars
  BY <1>3, OthersFacts DEF data, vars
<1>4. QED
  BY <1>1, <1>2, <1>3 DEF Next

LEMMA EvenlySkewedStep ==
    TypeOK /\ Phases /\ EvenlySkewed /\ [Next]_vars => EvenlySkewed'
<1> SUFFICES ASSUME TypeOK, Phases, EvenlySkewed, [Next]_vars PROVE EvenlySkewed'
  OBVIOUS
<1>1. CASE UNCHANGED <<run, sent>>
  BY <1>1 DEF EvenlySkewed, Late, Exact, Skews
<1>2. CASE Put /\ ~UNCHANGED sent
  <2>1. run' = run /\ pc = "put"
    BY <1>2 DEF Put
  <2>2. CASE run.skew
    <3>1. PICK s \in BOOLEAN : Skewed(Len(sent), s) /\ sent' = Append(sent, s)
      BY <1>2, <2>2 DEF Put
    <3>2. run.skew_pc \in 1..100
      <4>1. run.skew_pc \in 0..100 /\ run.skew_pc # 0
        BY <2>1, RunsAssumption DEF Phases, TypeOK
      <4>2. QED
        BY <4>1
    <3>3. QED
      BY <2>1, <2>2, <3>1, <3>2, EvenlySkewedPut
  <2>3. CASE ~run.skew
    BY <2>1, <2>3 DEF EvenlySkewed
  <2>4. QED
    BY <2>2, <2>3
<1>3. QED
  BY <1>1, <1>2, OnlyPutSends DEF Put

(* Regions are listed once, and every region ends where the next begins.    *)
LEMMA AdjacentStep ==
    TypeOK /\ Phases /\ Adjacent /\ [Next]_vars => Adjacent'
<1> SUFFICES ASSUME TypeOK, Phases, Adjacent, [Next]_vars PROVE Adjacent'
  OBVIOUS
<1>1. CASE GetRegions
  <2>1. table \in Table /\ ranges' = Regions(table)
    BY <1>1 DEF GetRegions, Phases, TypeOK, table
  <2>2. QED
    BY <2>1, RegionsType DEF Adjacent
<1>2. CASE IsTableEnabled
  <2>1. CASE ranges' = ranges
    BY <2>1 DEF Adjacent
  <2>2. CASE ranges' = WholeTable
    <3>1. Len(WholeTable) = 1 /\ WholeTable[1].start = 0 /\ WholeTable[1].stop = 0
      BY DEF WholeTable
    <3>2. QED
      BY <2>2, <3>1 DEF Adjacent
  <2>3. QED
    BY <1>2, <2>1, <2>2 DEF IsTableEnabled
<1>3. CASE ~GetRegions /\ ~IsTableEnabled
  <2>1. ranges' = ranges
    <3>1. CASE ProcessArgs \/ GetTables \/ RequestFails \/ DeleteTable \/ CreateTable \/ Families
      BY <3>1 DEF ProcessArgs, GetTables, RequestFails, DeleteTable, CreateTable, Families, scan
    <3>2. CASE SkewMod \/ Put \/ Work \/ Scan \/ PrintCounts \/ Alarm
      BY <3>2 DEF SkewMod, Put, Work, Scan, PrintCounts, Alarm, scan
    <3>3. CASE Others \/ UNCHANGED vars
      BY <3>3, OthersFacts DEF scan, vars
    <3>4. QED
      BY <1>3, <3>1, <3>2, <3>3 DEF Next
  <2>2. QED
    BY <2>1 DEF Adjacent
<1>4. QED
  BY <1>1, <1>2, <1>3

-----------------------------------------------------------------------------
(* How a run ends.                                                          *)
LEMMA DoneStays ==
    ASSUME [Next]_vars, pc = "done"
    PROVE  UNCHANGED vars
<1>1. CASE ProcessArgs \/ GetTables \/ RequestFails \/ DeleteTable \/ CreateTable \/ Families
  BY <1>1 DEF ProcessArgs, GetTables, RequestFails, DeleteTable, CreateTable, Families
<1>2. CASE SkewMod \/ Put \/ Work \/ GetRegions \/ IsTableEnabled \/ Scan \/ PrintCounts
  BY <1>2 DEF SkewMod, Put, Work, GetRegions, IsTableEnabled, Scan, PrintCounts
<1>3. CASE Alarm \/ Others
  BY <1>3 DEF Alarm, Others
<1>4. QED
  BY <1>1, <1>2, <1>3 DEF Next

LEMMA WhoSucceeds ==
    ASSUME TypeOK, Phases, [Next]_vars, pc # "done", exit' = "0"
    PROVE  Put \/ Work \/ PrintCounts
<1>1. exit # "0"
  BY DEF TypeOK
<1> USE DEF Goto, End
<1>2. CASE ProcessArgs \/ RequestFails \/ DeleteTable \/ CreateTable \/ Families \/ SkewMod
  BY <1>1, <1>2 DEF ProcessArgs, RequestFails, DeleteTable, CreateTable, Families, SkewMod
<1>3. CASE GetTables
  BY <1>1, <1>3 DEF GetTables, GenerateRun, CompactRun, FlushRun, RegionsRun, KeysRun
<1>4. CASE GetRegions \/ IsTableEnabled \/ Alarm \/ UNCHANGED vars
  BY <1>1, <1>4 DEF GetRegions, CountRegions, IsTableEnabled, Alarm, vars
<1>5. CASE Scan \/ Others
  BY <1>1, <1>5, ScanFacts, OthersFacts
<1>6. QED
  BY <1>2, <1>3, <1>4, <1>5 DEF Next

(* When all rows are sent, the skewed ones among them are the share that    *)
(* was asked for.                                                           *)
LEMMA ShareIsRight ==
    ASSUME TypeOK, EvenlySkewed, run.skew, run.skew_pc # 0, Len(sent) = run.num
    PROVE  /\ 100 * Cardinality(Skews) < run.skew_pc * run.num + 100
           /\ run.skew_pc * run.num < 100 * Cardinality(Skews) + 100
<1> DEFINE n == run.num
           p == run.skew_pc
           count == Cardinality(Skews)
           x == (n - 1) * p
           y == p * n
<1>1. sent \in Seq(BOOLEAN) /\ n \in Nat /\ p \in 1..100 /\ p \in Nat /\ (n = 0 <=> sent = <<>>)
  <2>1. p \in 0..100 /\ p # 0 /\ n \in Nat /\ sent \in Seq(BOOLEAN)
    BY RunsAssumption DEF TypeOK
  <2>2. n = Len(sent)
    OBVIOUS
  <2> HIDE DEF n, p
  <2>3. p \in 1..100 /\ p \in Nat
    BY <2>1
  <2>4. n = 0 <=> sent = <<>>
    BY <2>1, <2>2
  <2>5. QED
    BY <2>1, <2>3, <2>4
<1>2. CASE n = 0
  <2>1. count = 0
    <3>1. Skews = {}
      BY <1>1, <1>2 DEF Skews
    <3>2. QED
      BY <3>1, FS_EmptySet
  <2>2. y = 0
    BY <1>1, <1>2
  <2> HIDE DEF count, y
  <2>3. 100 * count < y + 100 /\ y < 100 * count + 100
    BY <2>1, <2>2
  <2>4. QED
    BY <2>3 DEF count, y
<1>3. CASE n # 0
  <2>1. count \in Nat
    <3>1. IsFiniteSet(1..Len(sent))
      <4>1. Len(sent) \in Int /\ 1 \in Int
        BY <1>1
      <4>2. QED
        BY <4>1, FS_Interval
    <3>2. Skews \subseteq 1..Len(sent)
      BY <1>1 DEF Skews
    <3>3. QED
      BY <3>1, <3>2, FS_Subset, FS_CardinalityType
  <2> DEFINE late == IF Late THEN 1 ELSE 0
  <2>2. LET due == count + late IN
        100 * (due - 1) <= x /\ x < 100 * due /\ (Late => x % 100 = 0 /\ p # 100)
    BY <1>1, <1>3 DEF EvenlySkewed
  <2>3. late \in {0, 1} /\ (late = 1 <=> Late)
    OBVIOUS
  <2>4. x \in Nat /\ y = x + p
    <3>1. n - 1 \in Nat
      BY <1>1, <1>3
    <3> HIDE DEF n, p
    <3>2. x \in Nat
      BY <1>1, <3>1, Product
    <3>3. n * p = x + p
      BY <1>1, Product
    <3>4. y = n * p
      BY <1>1
    <3>5. QED
      BY <3>2, <3>3, <3>4
  <2> HIDE DEF n, p, x, y, count, late
  <2>5. 100 * count < y + 100 /\ y < 100 * count + 100
    <3>1. CASE late = 0
      BY <1>1, <2>1, <2>2, <2>4, <3>1
    <3>2. CASE late = 1
      <4>1. x % 100 = 0 /\ p # 100 /\ 100 * count <= x /\ x < 100 * count + 100
        BY <2>1, <2>2, <2>3, <2>4, <3>2
      <4>2. x = 100 * count
        BY <2>1, <2>4, <4>1
      <4>3. QED
        BY <1>1, <2>1, <2>4, <4>1, <4>2
    <3>3. QED
      BY <2>3, <3>1, <3>2
  <2>6. QED
    BY <2>5 DEF n, p, y, count
<1>4. QED
  BY <1>2, <1>3

LEMMA ZeroMeansAllStep ==
    TypeOK /\ Phases /\ Remaining /\ EvenlySkewed /\ ZeroMeansAll /\ [Next]_vars => ZeroMeansAll'
<1> SUFFICES ASSUME TypeOK, Phases, Remaining, EvenlySkewed, ZeroMeansAll, [Next]_vars, exit' = "0"
             PROVE  ZeroMeansAll'
  BY DEF ZeroMeansAll
<1>1. CASE pc = "done"
  <2>1. UNCHANGED <<run, listing, handled, sent, exit>>
    BY <1>1, DoneStays DEF vars, work, data
  <2>2. QED
    BY <2>1 DEF ZeroMeansAll, Skews
<1>2. CASE Put
  <2>1. pc = "put" /\ run.tool = "generate" /\ run.skew_pc # 0 /\ exit # "0"
    BY <1>2 DEF Put, Phases, TypeOK
  <2>2. Len(sent) = run.num /\ UNCHANGED <<run, sent>>
    BY <1>2, <2>1 DEF Put, End
  <2>3. run.skew => /\ 100 * Cardinality(Skews) < run.skew_pc * run.num + 100
                    /\ run.skew_pc * run.num < 100 * Cardinality(Skews) + 100
    BY <2>1, <2>2, ShareIsRight
  <2>4. Skews' = Skews
    BY <2>2 DEF Skews
  <2>5. QED
    BY <2>1, <2>2, <2>3, <2>4 DEF ZeroMeansAll
<1>3. CASE Work
  <2>1. pc = "work" /\ run.tool \in {"compact", "flush"} /\ exit # "0" /\ UNCHANGED <<run, listing>>
    BY <1>3 DEF Work, Phases, TypeOK
  <2>2. todo = {} /\ handled' = handled
    BY <1>3, <2>1 DEF Work, CompactTable, FlushTable, End
  <2>3. handled' = listing' \intersect run'.matches
    BY <2>1, <2>2 DEF Remaining
  <2>4. QED
    BY <2>1, <2>3 DEF ZeroMeansAll
<1>4. CASE PrintCounts
  <2>1. run' = run /\ run.tool \in Scanners \union RegionTools
    BY <1>4 DEF PrintCounts, Phases
  <2>2. QED
    BY <2>1 DEF ZeroMeansAll, Scanners, RegionTools
<1>5. QED
  BY <1>1, <1>2, <1>3, <1>4, WhoSucceeds

-----------------------------------------------------------------------------
(* Where the first keys of regions are printable, a region's rows are       *)
(* scanned.                                                                 *)
LEMMA RowsAreOfTheRegion ==
    ASSUME TypeOK, Adjacent, Printable, NEW k \in DOMAIN ranges
    PROVE  Rows(k) = {key \in table.rows : InRange(key, ranges[k])}
<1>1. ranges \in Seq(Extent) /\ ranges[k] \in Extent /\ k \in 1..Len(ranges) /\ Len(ranges) \in Nat
  BY DEF TypeOK
<1>2. Encoded[ranges[k].start] = ranges[k].start
  BY DEF Printable
<1>3. Encoded[ranges[k].stop] = ranges[k].stop
  <2>1. CASE k = Len(ranges)
    BY <1>1, <2>1, TablesAssumption DEF Adjacent
  <2>2. CASE k # Len(ranges)
    <3>1. k \in 1..(Len(ranges) - 1) /\ k + 1 \in DOMAIN ranges
      BY <1>1, <2>2
    <3>2. QED
      BY <3>1 DEF Adjacent, Printable
  <2>3. QED
    BY <2>1, <2>2
<1>4. RegionMeta(k) = ranges[k]
  BY <1>1, <1>2, <1>3 DEF RegionMeta, Text, Extent
<1>5. QED
  BY <1>4 DEF Rows

LEMMA CountedSoFarScan ==
    ASSUME TypeOK, Phases, Adjacent, CountedSoFar, Scan
    PROVE  CountedSoFar'
<1>1. /\ ranges \in Seq(Extent) /\ Len(ranges) \in Nat /\ at \in 1..Len(ranges)
      /\ DOMAIN ranges = 1..Len(ranges) /\ last \in Nat /\ pc = "scan" /\ run.tool \in Scanners
      /\ steady \subseteq Nat /\ \A key \in steady : key > 0
  BY ScanFacts, TablesAssumption DEF TypeOK, Phases
<1>2. /\ DOMAIN counted = DOMAIN ranges /\ steady \subseteq table.rows /\ table.rows \subseteq ever
      /\ (run.tool = "key_rows" => ranges = WholeTable)
  BY <1>1 DEF CountedSoFar
<1>3. UNCHANGED <<run, table, ranges, steady, ever>>
  BY ScanFacts DEF table
<1>4. CASE pc' = "done"
  BY <1>4 DEF CountedSoFar
<1>5. CASE ~(pc' = "done")
  <2>1. DOMAIN counted' = DOMAIN ranges /\ pc' \in {"scan", "print"}
    BY <1>1, <1>2, <1>5, ScanFacts
  <2>2. pc' = "print" => at' = Len(ranges)
    BY <1>1, ScanFacts
  <2>3. ASSUME Printable, NEW k \in DOMAIN ranges
        PROVE  /\ \A key \in counted'[k] : InRange(key, ranges[k])
               /\ \A key \in steady : InRange(key, ranges[k]) /\ Passed(key, k)' => key \in counted'[k]
    <3>1. /\ \A key \in counted[k] : InRange(key, ranges[k])
          /\ \A key \in steady : InRange(key, ranges[k]) /\ Passed(key, k) => key \in counted[k]
      BY <1>1, <2>3 DEF CountedSoFar
    <3>2. Rows(at) = {key \in table.rows : InRange(key, ranges[at])}
      BY <1>1, <2>3, RowsAreOfTheRegion
    <3>3. CASE last' \in Rows(at) /\ UNCHANGED <<at, pc>>
      <4>1. /\ \A key \in Rows(at) : key > last => last' <= key
            /\ counted' = [counted EXCEPT ![at] = counted[at] \union {last'}]
            /\ last' \in Nat
        BY <1>1, <1>5, <3>3, ScanFacts, TablesAssumption
      <4>2. CASE k # at
        <5>1. counted'[k] = counted[k]
          BY <1>2, <4>1, <4>2
        <5>2. \A key : Passed(key, k)' => Passed(key, k)
          BY <3>3, <4>2 DEF Passed
        <5>3. QED
          BY <3>1, <5>1, <5>2
      <4>3. CASE k = at
        <5>1. counted'[k] = counted[k] \union {last'}
          BY <1>2, <4>1, <4>3
        <5>2. InRange(last', ranges[k])
          BY <3>2, <3>3, <4>3
        <5>3. ASSUME NEW key \in steady, InRange(key, ranges[k]), Passed(key, k)'
              PROVE  key \in counted'[k]
          <6>1. key <= last' /\ key \in Nat /\ key \in table.rows
            BY <1>1, <1>2, <3>3, <4>3, <5>3 DEF Passed
          <6>2. CASE key <= last
            BY <3>1, <4>3, <5>1, <5>3, <6>2 DEF Passed
          <6>3. CASE ~(key <= last)
            <7>1. key \in Rows(at) /\ key > last
              BY <1>1, <3>2, <4>3, <5>3, <6>1, <6>3
            <7>2. last' <= key
              BY <4>1, <7>1
            <7>3. QED
              BY <4>1, <5>1, <6>1, <7>2
          <6>4. QED
            BY <6>2, <6>3
        <5>4. QED
          BY <3>1, <5>1, <5>2, <5>3
      <4>4. QED
        BY <4>2, <4>3
    <3>4. CASE /\ \A key \in Rows(at) : ~(key > last)
               /\ counted' = counted
               /\ \/ at < Len(ranges) /\ at' = at + 1 /\ last' = 0 /\ pc' = pc
                  \/ pc' = "print" /\ at' = at
      <4>1. ASSUME NEW key \in steady, InRange(key, ranges[k]), Passed(key, k)'
            PROVE  key \in counted[k]
        <5>1. k < at \/ k = at
          BY <1>1, <3>4, <4>1 DEF Passed
        <5>2. CASE k < at
          BY <3>1, <4>1, <5>2 DEF Passed
        <5>3. CASE k = at
          <6>1. key \in Rows(at)
            BY <1>2, <3>2, <4>1, <5>3
          <6>2. key <= last
            BY <1>1, <3>4, <6>1
          <6>3. QED
            BY <3>1, <4>1, <5>3, <6>2 DEF Passed
        <5>4. QED
          BY <5>1, <5>2, <5>3
      <4>2. QED
        BY <3>1, <3>4, <4>1
    <3>5. QED
      BY <1>5, <3>3, <3>4, ScanFacts
  <2>4. Printable' <=> Printable
    BY <1>3 DEF Printable
  <2>5. QED
    BY <1>2, <1>3, <2>1, <2>2, <2>3, <2>4 DEF CountedSoFar
<1>6. QED
  BY <1>4, <1>5

(* A scan starts with nothing counted; others may take rows away while it   *)
(* runs, never what has been counted.                                       *)
LEMMA CountedSoFarStep ==
    TypeOK /\ Phases /\ Adjacent /\ CountedSoFar /\ [Next]_vars => CountedSoFar'
<1> SUFFICES ASSUME TypeOK, Phases, Adjacent, CountedSoFar, [Next]_vars PROVE CountedSoFar'
  OBVIOUS
<1> USE DEF Goto, End
<1>1. CASE IsTableEnabled
  <2>1. /\ pc = "enabled" /\ run.table \in DOMAIN Tables /\ run.tool \in Scanners /\ at = 1 /\ last = 0
        /\ table.rows \subseteq Keys
    BY <1>1 DEF IsTableEnabled, Phases, TypeOK, table, Table
  <2>2. /\ UNCHANGED <<run, table, at, last>> /\ pc' \in {"scan", "done"}
        /\ steady' = table.rows /\ ever' = table.rows
        /\ counted' = [k \in DOMAIN ranges' |-> {}]
        /\ (run.tool = "key_rows" => ranges' = WholeTable)
    BY <1>1 DEF IsTableEnabled, table
  <2>3. \A key \in steady' : \A k \in DOMAIN ranges' : pc' = "scan" => ~Passed(key, k)'
    <3>1. ASSUME NEW key \in steady', NEW k \in DOMAIN ranges', pc' = "scan" PROVE ~Passed(key, k)'
      <4>1. key \in Nat /\ key > 0
        BY <2>1, <2>2, TablesAssumption
      <4>2. k \in Nat /\ k >= 1
        <5>1. CASE ranges' = WholeTable
          BY <5>1 DEF WholeTable
        <5>2. CASE ranges' = ranges
          BY <5>2 DEF TypeOK
        <5>3. QED
          BY <1>1, <5>1, <5>2 DEF IsTableEnabled
      <4>3. QED
        BY <2>1, <2>2, <3>1, <4>1, <4>2 DEF Passed
    <3>2. QED
      BY <3>1
  <2>4. \A k \in DOMAIN ranges' : counted'[k] = {}
    BY <2>2
  <2>5. DOMAIN counted' = DOMAIN ranges'
    BY <2>2
  <2>6. QED
    BY <2>2, <2>3, <2>4, <2>5 DEF CountedSoFar
<1>2. CASE Scan
  BY <1>2, CountedSoFarScan
<1>3. CASE Others
  <2>1. UNCHANGED <<run, pc, ranges, at, last, counted>>
    BY <1>3, OthersFacts
  <2>2. SUFFICES ASSUME pc \in {"scan", "print"}, run.tool \in Scanners PROVE CountedSoFar'
    BY <2>1 DEF CountedSoFar
  <2>3. run.table \in DOMAIN Tables
    BY <2>2 DEF Phases
  <2>4. steady' \subseteq steady
    BY <1>3, OthersFacts
  <2>5. pc = "scan" => steady' \subseteq table'.rows /\ table'.rows \subseteq ever'
    <3>1. ASSUME pc = "scan" PROVE Known(tables'[run.table].rows, steady', ever')
      <4>1. Known(table.rows, steady, ever)
        BY <2>2, <3>1 DEF CountedSoFar, Known
      <4>2. QED
        BY <1>3, <2>3, <4>1, OthersFacts
    <3>2. QED
      BY <2>1, <3>1 DEF Known, table
  <2>6. \A key, k : Passed(key, k)' <=> Passed(key, k)
    BY <2>1 DEF Passed
  <2>7. Printable' <=> Printable
    BY <2>1 DEF Printable
  <2>8. QED
    BY <2>1, <2>2, <2>4, <2>5, <2>6, <2>7 DEF CountedSoFar
<1>4. CASE PrintCounts
  <2>1. pc' = "done"
    <3>1. run.tool \in {"show_regions", "region_rows", "key_rows"}
      BY <1>4 DEF PrintCounts, Phases, Scanners, RegionTools
    <3>2. QED
      BY <1>4, <3>1 DEF PrintCounts, PrintRegions, PrintRegionCounts, PrintPrefixCounts
  <2>2. QED
    BY <2>1 DEF CountedSoFar
<1>5. CASE GetRegions
  <2>1. pc' = "print" => run'.tool \notin Scanners
    BY <1>5 DEF GetRegions, CountRegions, Scanners
  <2>2. pc' # "scan"
    BY <1>5 DEF GetRegions, CountRegions
  <2>3. QED
    BY <2>1, <2>2 DEF CountedSoFar
<1>6. CASE GetTables
  <2>1. pc' \notin {"scan", "print"}
    BY <1>6 DEF GetTables, GenerateRun, CompactRun, FlushRun, RegionsRun, KeysRun
  <2>2. QED
    BY <2>1 DEF CountedSoFar
<1>7. CASE ProcessArgs \/ RequestFails \/ DeleteTable \/ CreateTable \/ Families \/ SkewMod
  <2>1. pc' \notin {"scan", "print"}
    BY <1>7 DEF ProcessArgs, RequestFails, DeleteTable, CreateTable, Families, SkewMod
  <2>2. QED
    BY <2>1 DEF CountedSoFar
<1>8. CASE Put \/ Work \/ Alarm
  <2>1. pc' \notin {"scan", "print"}
    BY <1>8 DEF Put, Work, CompactTable, FlushTable, Alarm
  <2>2. QED
    BY <2>1 DEF CountedSoFar
<1>9. CASE UNCHANGED vars
  BY <1>9 DEF vars, scan, CountedSoFar, Printable, Passed, table
<1>10. QED
  BY <1>1, <1>2, <1>3, <1>4, <1>5, <1>6, <1>7, <1>8, <1>9 DEF Next

-----------------------------------------------------------------------------
(* What is printed of a scan.                                               *)
LEMMA Between ==
    ASSUME NEW A, NEW B, NEW C, IsFiniteSet(C), A \subseteq B, B \subseteq C
    PROVE  Cardinality(A) <= Cardinality(B) /\ Cardinality(B) <= Cardinality(C)
BY FS_Subset

(* All of a region or table that has been scanned to its end is counted.    *)
LEMMA AllCounted ==
    ASSUME TypeOK, CountedSoFar, Printable, pc = "print", run.tool \in Scanners
    PROVE  /\ DOMAIN counted = DOMAIN ranges /\ 1 \in DOMAIN ranges /\ ranges # <<>>
           /\ \A k \in DOMAIN ranges :
                /\ counted[k] \subseteq {key \in ever : InRange(key, ranges[k])}
                /\ {key \in steady : InRange(key, ranges[k])} \subseteq counted[k]
           /\ IsFiniteSet(ever) /\ steady \subseteq ever /\ ever \subseteq Keys
           /\ run.tool = "key_rows" => ranges = WholeTable
<1>1. /\ ranges \in Seq(Extent) /\ at \in DOMAIN ranges /\ DOMAIN ranges = 1..Len(ranges)
      /\ Len(ranges) \in Nat /\ steady \subseteq ever /\ ever \subseteq Keys
  BY DEF TypeOK
<1>2. DOMAIN counted = DOMAIN ranges /\ at = Len(ranges) /\ (run.tool = "key_rows" => ranges = WholeTable)
  BY DEF CountedSoFar
<1>3. 1 \in DOMAIN ranges /\ ranges # <<>>
  BY <1>1
<1>4. IsFiniteSet(ever)
  BY <1>1, TablesAssumption, FS_Subset
<1>5. ASSUME NEW k \in DOMAIN ranges
      PROVE  /\ counted[k] \subseteq {key \in ever : InRange(key, ranges[k])}
             /\ {key \in steady : InRange(key, ranges[k])} \subseteq counted[k]
  <2>1. counted[k] \subseteq ever
    BY <1>1, <1>2, <1>3, <1>5 DEF TypeOK
  <2>2. \A key : Passed(key, k)
    BY <1>1, <1>2 DEF Passed
  <2>3. QED
    BY <2>1, <2>2 DEF CountedSoFar
<1>6. QED
  BY <1>1, <1>2, <1>3, <1>4, <1>5

LEMMA PrintRegionCountsRight ==
    ASSUME TypeOK, Adjacent, CountedSoFar, Printable, pc = "print", run.tool = "region_rows",
           output' = [k \in DOMAIN counted |-> Cardinality(counted[k])],
           UNCHANGED <<run, ranges, steady, ever>>
    PROVE  CountsAreOfTheirGroup'
<1>1. run.tool \in Scanners
  BY DEF Scanners
<1>2. \A key, g : InGroup(key, g)' <=> InRange(key, ranges[g])
  BY DEF InGroup
<1>3. DOMAIN output' = DOMAIN ranges
  BY <1>1, AllCounted
<1>4. \A key \in steady : \E g \in DOMAIN ranges : InRange(key, ranges[g])
  BY <1>1, AllCounted, RegionsCover
<1>5. ASSUME NEW g \in DOMAIN ranges
      PROVE  /\ Cardinality({key \in steady : InRange(key, ranges[g])}) <= output'[g]
             /\ output'[g] <= Cardinality({key \in ever : InRange(key, ranges[g])})
  <2> DEFINE A == {key \in steady : InRange(key, ranges[g])}
             C == {key \in ever : InRange(key, ranges[g])}
  <2>1. A \subseteq counted[g] /\ counted[g] \subseteq C /\ g \in DOMAIN counted
    BY <1>1, AllCounted
  <2>2. IsFiniteSet(C)
    <3>1. IsFiniteSet(ever) /\ C \subseteq ever
      BY <1>1, AllCounted
    <3> HIDE DEF C
    <3>2. QED
      BY <3>1, FS_Subset
  <2>3. output'[g] = Cardinality(counted[g])
    BY <2>1
  <2> HIDE DEF A, C
  <2>4. Cardinality(A) <= output'[g] /\ output'[g] <= Cardinality(C)
    BY <2>1, <2>2, <2>3, Between
  <2>5. QED
    BY <2>4 DEF A, C
<1>6. QED
  BY <1>2, <1>3, <1>4, <1>5 DEF CountsAreOfTheirGroup

LEMMA PrintPrefixCountsRight ==
    ASSUME TypeOK, CountedSoFar, Printable, pc = "print", run.tool = "key_rows",
           output' = PrefixCounts, UNCHANGED <<run, ranges, steady, ever>>
    PROVE  CountsAreOfTheirGroup'
<1>1. run.tool \in Scanners /\ 1 \in DOMAIN ranges /\ ranges[1].start = 0 /\ ranges[1].stop = 0
  BY AllCounted DEF Scanners, WholeTable
<1>2. \A key \in Keys : InRange(key, ranges[1])
  BY <1>1, TablesAssumption DEF InRange
<1>3. steady \subseteq counted[1] /\ counted[1] \subseteq ever /\ IsFiniteSet(ever)
  BY <1>1, <1>2, AllCounted
<1>4. \A key, g : InGroup(key, g)' <=> Prefix[key] = g
  BY DEF InGroup
<1>5. DOMAIN output' = {Prefix[key] : key \in counted[1]}
  BY DEF PrefixCounts
<1>6. ASSUME NEW g \in DOMAIN output'
      PROVE  /\ Cardinality({key \in steady : Prefix[key] = g}) <= output'[g]
             /\ output'[g] <= Cardinality({key \in ever : Prefix[key] = g})
  <2> DEFINE A == {key \in steady : Prefix[key] = g}
             B == {key \in counted[1] : Prefix[key] = g}
             C == {key \in ever : Prefix[key] = g}
  <2>1. A \subseteq B /\ B \subseteq C /\ C \subseteq ever
    BY <1>3
  <2>2. output'[g] = Cardinality(B)
    BY <1>5, <1>6 DEF PrefixCounts
  <2> HIDE DEF A, B, C
  <2>3. IsFiniteSet(C)
    BY <1>3, <2>1, FS_Subset
  <2>4. Cardinality(A) <= output'[g] /\ output'[g] <= Cardinality(C)
    BY <2>1, <2>2, <2>3, Between
  <2>5. QED
    BY <2>4 DEF A, C
<1>7. \A key \in steady : \E g \in DOMAIN output' : Prefix[key] = g
  BY <1>3, <1>5
<1>8. QED
  BY <1>4, <1>6, <1>7 DEF CountsAreOfTheirGroup

LEMMA OnlyPrintCountsPrints ==
    ASSUME TypeOK, Phases, [Next]_vars, ~PrintCounts
    PROVE  output' = output
<1>1. CASE ProcessArgs \/ GetTables \/ RequestFails \/ DeleteTable \/ CreateTable \/ Families
  BY <1>1 DEF ProcessArgs, GetTables, RequestFails, DeleteTable, CreateTable, Families
<1>2. CASE SkewMod \/ Put \/ Work \/ GetRegions \/ IsTableEnabled \/ Scan
  BY <1>2 DEF SkewMod, Put, Work, GetRegions, IsTableEnabled, Scan
<1>3. CASE Alarm \/ Others \/ UNCHANGED vars
  BY <1>3 DEF Alarm, Others, vars
<1>4. QED
  BY <1>1, <1>2, <1>3 DEF Next

LEMMA PrintableCountsStep ==
    /\ TypeOK /\ Phases /\ Adjacent /\ CountedSoFar /\ PrintableCountsAreOfTheirGroup
    /\ [Next]_vars
    => PrintableCountsAreOfTheirGroup'
<1> SUFFICES ASSUME TypeOK, Phases, Adjacent, CountedSoFar, PrintableCountsAreOfTheirGroup, [Next]_vars
             PROVE  PrintableCountsAreOfTheirGroup'
  OBVIOUS
<1>1. CASE pc = "done"
  <2>1. UNCHANGED <<run, ranges, steady, ever, output>>
    BY <1>1, DoneStays DEF vars, scan
  <2>2. Printable' <=> Printable
    BY <2>1 DEF Printable
  <2>3. \A key, g : InGroup(key, g)' <=> InGroup(key, g)
    BY <2>1 DEF InGroup
  <2>4. CountsAreOfTheirGroup => CountsAreOfTheirGroup'
    BY <2>1, <2>3 DEF CountsAreOfTheirGroup
  <2>5. QED
    BY <2>2, <2>4 DEF PrintableCountsAreOfTheirGroup
<1>2. CASE pc # "done" /\ output' = output
  <2>1. output' = <<>>
    BY <1>2 DEF Phases
  <2>2. QED
    BY <2>1 DEF PrintableCountsAreOfTheirGroup, CountsAreOfTheirGroup
<1>3. CASE PrintCounts /\ output' # output
  <2>1. pc = "print" /\ UNCHANGED <<run, ranges, steady, ever>>
    BY <1>3 DEF PrintCounts, scan
  <2>2. \/ run.tool = "region_rows" /\ output' = [k \in DOMAIN counted |-> Cardinality(counted[k])]
        \/ run.tool = "key_rows" /\ output' = PrefixCounts
    <3>1. run.tool \in {"show_regions", "region_rows", "key_rows"}
      BY <2>1 DEF Phases, Scanners, RegionTools
    <3>2. QED
      BY <1>3, <3>1 DEF PrintCounts, PrintRegions, PrintRegionCounts, PrintPrefixCounts
  <2>3. Printable' <=> Printable
    BY <2>1 DEF Printable
  <2>4. Printable => CountsAreOfTheirGroup'
    BY <2>1, <2>2, PrintRegionCountsRight, PrintPrefixCountsRight
  <2>5. QED
    BY <2>3, <2>4 DEF PrintableCountsAreOfTheirGroup
<1>4. QED
  BY <1>1, <1>2, <1>3, OnlyPrintCountsPrints

-----------------------------------------------------------------------------
LEMMA InitEstablishes == Init => IInv
<1> SUFFICES ASSUME Init PROVE IInv
  OBVIOUS
<1> USE DEF Init
<1>1. TypeOK
  <2>1. run.num \in Nat /\ tables \in [DOMAIN Tables -> Table] /\ changes \in 0..MaxChanges
    BY TablesAssumption, RunsAssumption
  <2>2. ranges \in Seq(Extent) /\ sent \in Seq(BOOLEAN) /\ Len(sent) = 0
    OBVIOUS
  <2>3. /\ listing \subseteq DOMAIN Tables /\ todo \subseteq listing \intersect run.matches
        /\ handled \subseteq listing \intersect run.matches /\ {lost, astray} \subseteq BOOLEAN
        /\ dropped \subseteq DOMAIN Tables /\ steady \subseteq ever /\ ever \subseteq Keys
    OBVIOUS
  <2>4. /\ exit \in {"running", "0", "1", "2", "3"} /\ (exit = "running") = (pc # "done")
        /\ pc \notin {"scan", "print"} /\ at \in Nat /\ last \in Keys \union {0} /\ counted = <<>>
    OBVIOUS
  <2>5. QED
    BY <2>1, <2>2, <2>3, <2>4 DEF TypeOK
<1>2. Phases /\ OnlyOwnTables /\ Remaining /\ EvenlySkewed /\ ZeroMeansAll
  BY DEF Phases, OnlyOwnTables, Remaining, EvenlySkewed, ZeroMeansAll
<1>3. Adjacent /\ CountedSoFar /\ PrintableCountsAreOfTheirGroup
  BY DEF Adjacent, CountedSoFar, PrintableCountsAreOfTheirGroup, CountsAreOfTheirGroup
<1>4. QED
  BY <1>1, <1>2, <1>3 DEF IInv

LEMMA NextPreserves == IInv /\ [Next]_vars => IInv'
BY TypeStep, PhasesStep, OnlyOwnTablesStep, RemainingStep, EvenlySkewedStep, ZeroMeansAllStep,
   AdjacentStep, CountedSoFarStep, PrintableCountsStep DEF IInv

(* The inductive invariant.                                                 *)
THEOREM Invariance == Spec => []IInv
BY InitEstablishes, NextPreserves, PTL DEF Spec

(* Every variable stays in its range: no more rows are sent than asked for, *)
(* and nothing is compacted or flushed that was not listed.                 *)
THEOREM TypeCorrect == Spec => []TypeOK
<1>1. IInv => TypeOK
  BY DEF IInv
<1>2. QED
  BY <1>1, Invariance, PTL

(* hbase_generate_data.py drops the table of the default name only, and     *)
(* fills a table of others only when they put it in the place of its own.   *)
THEOREM OwnTablesTheorem == Spec => []OnlyOwnTables
<1>1. IInv => OnlyOwnTables
  BY DEF IInv
<1>2. QED
  BY <1>1, Invariance, PTL

(* Exit code 0: all tables that match were worked on; all rows were sent,   *)
(* and as many of them skewed as asked for.                                 *)
THEOREM ZeroTheorem == Spec => []ZeroMeansAll
<1>1. IInv => ZeroMeansAll
  BY DEF IInv
<1>2. QED
  BY <1>1, Invariance, PTL

(* The rows counted for a region or a prefix are its own, whatever others   *)
(* do to the table during the scan.                                         *)
THEOREM CountsTheorem == Spec => []PrintableCountsAreOfTheirGroup
<1>1. IInv => PrintableCountsAreOfTheirGroup
  BY DEF IInv
<1>2. QED
  BY <1>1, Invariance, PTL
=============================================================================
