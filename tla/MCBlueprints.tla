---------------------------- MODULE MCBlueprints ----------------------------
(* Model checking of Blueprints: a server with a blueprint and a cluster    *)
(* whose files are the same once .json is appended and a blueprint of       *)
(* another, one file saved earlier, without the suffix, one that is empty   *)
(* and one without the section Blueprints; two runs of any kind.            *)
EXTENDS Blueprints

Doc(name, groups, id) ==
    [section |-> TRUE, name |-> name, href |-> TRUE, top |-> TRUE, groups |-> groups, id |-> id]

MCSuffixed == [n \in Names |-> IF n = "a" THEN "a.json" ELSE n]

MCBlueprints ==
    [n \in {"a", "b.json"} |->
        Doc(n, IF n = "a" THEN <<TRUE, TRUE>> ELSE <<FALSE, TRUE>>, n)]
MCClusters == [n \in {"a.json"} |-> Doc("none", <<TRUE>>, n)]
MCSavedFiles ==
    [n \in Names |->
        CASE n = "a" -> [Doc("b.json", <<TRUE, TRUE>>, "a") EXCEPT !.href = FALSE]
          [] n = "a.json" -> [Doc("a", <<>>, n) EXCEPT !.section = FALSE]
          [] n = "b.json" -> Torn]

Opt(mode, blueprint, cluster, file, strip) ==
    [mode |-> mode, blueprint |-> blueprint, cluster |-> cluster, file |-> file, strip |-> strip]
MCRuns ==
    {Opt(mode, "none", "none", "none", FALSE) :
        mode \in {"list_blueprints", "list_clusters", "list_hosts", "get", "push", "create_cluster", "none"}}
    \union {Opt("get", blueprint, cluster, file, strip) :
              blueprint \in {"none", "a", "b.json"}, cluster \in {"none", "a.json"},
              file \in {"none", "a"},
              strip \in BOOLEAN}
    \union {Opt("push", blueprint, "none", file, FALSE) :
              blueprint \in {"none", "a.json"}, file \in Names}
    \union {Opt("create_cluster", blueprint, "b.json", file, FALSE) :
              blueprint \in {"none", "b.json"}, file \in {"none", "a.json", "b.json"}}
=============================================================================
