---------------------------- MODULE MCValidators ----------------------------
(* Model checking of Validators: a directory d with the files a and n, of  *)
(* which only a has the suffix, and a directory sub with the file c.       *)
EXTENDS Validators

MCTree == [x \in {"d", "sub"} |-> IF x = "d" THEN {"sub", "a", "n"} ELSE {"c"}]

Doc(whole, lines) == [whole |-> whole, lines |-> lines]
OkLine == Doc("ok", <<"ok">>)
BadLine == Doc("bad", <<"bad">>)
Raising == Doc("raises", <<"bad">>)
Plain == {OkLine, BadLine, Raising}
JsonDocuments ==
    Plain \union
    {Doc("bad", <<>>), Doc("single", <<"single">>),
     Doc("bad", <<"ok", "single">>), Doc("bad", <<"ok", "bad">>), Doc("ok", <<"bad", "ok">>)}

(* n is invalid, so that reading it shows.                                 *)
DisksOf(documents) ==
    {[p \in {"a", "c", "n", "-"} |->
        IF p = "n" THEN BadLine ELSE IF p = "a" THEN x ELSE y] : x, y \in documents}

ArgLists == {<<>>, <<"a">>, <<"d">>, <<"c", "d">>, <<"d", "-", "d">>, <<"a", "missing">>}

RunsOf(tools, lenient, multi, single) ==
    {r \in [tool : tools, lenient : lenient, multi : multi, single : single,
            excluded : {{}, {"sub"}, {"a"}}, locked : {{}, {"sub"}},
            args : ArgLists, seekable : BOOLEAN] :
        /\ r.excluded # {} => r.tool.selects
        /\ r.excluded = {} \/ r.locked = {}
        /\ r.seekable \/ (r.tool.prints = "reread" /\ r.lenient /\ r.locked = {})}

No == {FALSE}
MCRuns ==
    RunsOf({Yaml, Xml, Ldif, Ini, Ini2, Multimedia}, BOOLEAN, No, No) \union
    RunsOf({Csv, Avro, Parquet, Toml, Cson}, No, No, No)
JsonRuns == RunsOf({Json}, BOOLEAN, BOOLEAN, BOOLEAN)
TomlRuns == RunsOf({Toml, Cson}, No, No, No)
BulkRuns ==
    {r \in RunsOf({JsonBulk}, BOOLEAN, No, BOOLEAN) \union RunsOf(Filters, No, No, No) :
        r.tool \in Filters => r.excluded = {}}
AllRuns == MCRuns \union JsonRuns \union BulkRuns

MCDocuments(tool) == IF tool \in {Json, JsonBulk} THEN JsonDocuments ELSE Plain
MCDisks == DisksOf(JsonDocuments)
=============================================================================
