---------------------------- MODULE MCHBaseTables ----------------------------
(* Model checking of HBaseTables: the default table and one of another      *)
(* name, both there at the start; four row keys with two prefixes, the last *)
(* of which is not printable.                                               *)
EXTENDS HBaseTables

MCPrefix == [key \in 1..4 |-> IF key < 3 THEN 1 ELSE 2]
MCEncoded == [key \in 0..4 |-> IF key = 4 THEN 3 ELSE key]

T(exists, splits, rows) ==
    [exists |-> exists, enabled |-> TRUE, mine |-> FALSE, splits |-> splits, rows |-> rows]
MCTables == [HS_test_data |-> T(TRUE, <<>>, {}), t |-> T(TRUE, <<3>>, {1, 2, 3})]

Opt(tool, name, list, matches) ==
    [tool |-> tool, table |-> name, list |-> list, matches |-> matches, num |-> 0, skew_pc |-> 90,
     drop |-> FALSE, existing |-> FALSE, skew |-> FALSE, sort |-> TRUE]
Generate(name, drop, existing, skew, share) ==
    [Opt("generate", name, FALSE, {}) EXCEPT
       !.num = 6, !.skew_pc = share, !.drop = drop, !.existing = existing, !.skew = skew]

MCRuns ==
    {Opt(tool, name, FALSE, {}) : tool \in Scanners \union RegionTools, name \in {"none", "t"}}
    \union {[Opt("region_rows", "t", FALSE, {}) EXCEPT !.sort = FALSE]}
    \union {Opt(tool, "none", TRUE, {}) : tool \in {"compact", "flush"} \union Scanners \union RegionTools}
    \union {Opt(tool, "none", FALSE, ms) : tool \in {"compact", "flush"}, ms \in SUBSET DOMAIN MCTables}
    \union {Generate(name, drop, existing, TRUE, 75) :
              name \in DOMAIN MCTables, drop \in BOOLEAN, existing \in BOOLEAN}
    \union {Generate("HS_test_data", TRUE, FALSE, skew, share) : skew \in BOOLEAN, share \in {0, 50}}
=============================================================================
