---------------------------- MODULE MCCheckouts ----------------------------
(* Model checking of Checkouts: solr-4 agrees with one Dockerfile and not  *)
(* with another, scala has two versions and a JDK line, dev/solr-5 cannot  *)
(* be checked out by its short name, notes has no version.                 *)
EXTENDS Checkouts

MCShort(r) == IF r = "dev/solr-5" THEN "solr-5" ELSE r

Named(dirs, base, versions) == [dirs |-> dirs, base |-> base, versions |-> versions]
MCInfo ==
    [tool \in {"branches", "tags"} |->
        [b \in {"solr-4", "scala-2-jdk8", "solr-5", "notes"} |->
            CASE b = "solr-4" ->
                   Named(IF tool = "tags" THEN {"solr"} ELSE {"solr", "solrcloud"}, "solr", <<<<"4">>>>)
              [] b = "solr-5" -> Named({"solr"}, "solr", <<<<"5">>>>)
              [] b = "notes" ->
                   IF tool = "tags" THEN Named({"notes"}, "notes", <<>>) ELSE Named({}, "", <<>>)
              [] OTHER ->
                   IF tool = "tags" THEN Named({"scala-2"}, "scala-2", <<<<"x", "8">>>>)
                   ELSE Named({"scala"}, "scala", <<<<"2">>, <<"jdk8">>>>)]]

Arg(name, value) == [kind |-> "arg", name |-> name, value |-> value]
Jdk(value) == [kind |-> "jdk", name |-> "", value |-> value]
Tree(solr, cloud, scala) ==
    [p \in {<<"repo", "solr", "Dockerfile">>, <<"repo", "solrcloud", "Dockerfile">>,
            <<"repo", "scala", "Dockerfile">>} |->
        IF p[2] = "solr" THEN solr ELSE IF p[2] = "solrcloud" THEN cloud ELSE scala]
MCTrees ==
    [r \in {"master", "commit", "solr-4", "scala-2-jdk8", "dev/solr-5", "solr-5", "notes"} |->
        CASE r = "solr-4" ->
               Tree(<<Arg("solr", <<"4", "10">>)>>, <<Arg("solr", <<"5">>)>>, <<>>)
          [] r = "scala-2-jdk8" ->
               Tree(<<>>, <<>>, <<Jdk(<<"jdk8">>), Arg("scala", <<"2">>), Jdk(<<"jdk8">>)>>)
          [] r = "notes" -> [p \in {<<"repo", "notes", "Dockerfile">>} |-> <<>>]
          [] OTHER -> Tree(<<Arg("solr", <<"5">>)>>, <<>>, <<>>)]

Targets == {<<<<"repo">>>>, <<<<"repo", "solr">>, <<"repo">>>>, <<<<"repo", "solrcloud", "Dockerfile">>, <<"repo", "solr">>>>}
MCRuns ==
    [tool : {"branches", "tags"}, targets : Targets,
     selected : {{"solr-4", "notes"}, {"solr-4"}, {"scala-2-jdk8", "solr-4"}, {"solr-5", "notes"}}]
=============================================================================
