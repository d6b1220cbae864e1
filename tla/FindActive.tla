--------------------------- MODULE FindActive ---------------------------
(* The find_active_* programs: find_active_server.py itself and the sub-   *)
(* classes that preset its protocol, page and regex, and how the options   *)
(* given on the command line turn these presets into the settings main()   *)
(* runs with (the conf of ActiveServer).                                   *)
EXTENDS ActiveServer

CONSTANT CpuCount       \* multiprocessing.cpu_count()
ASSUME CpuCountAssumption == CpuCount \in Nat \ {0}

(* The options the settings depend on.  A subclass defines only the common *)
(* ones: its protocol, page and regex are fixed.  (--ssl is read before    *)
(* the command line is parsed; https is checked exactly like http.)        *)
CommonOptions == {"port", "quiet", "num_threads"}
AllOptions == CommonOptions \union {"ping", "http", "https", "url", "regex"}

(* __init__ and add_options of the base class.                             *)
Server ==
    [port |-> 80, protocol |-> "none", url |-> "", regex |-> "",
     threads |-> IF 4 * CpuCount < 100 THEN 4 * CpuCount ELSE 100,
     options |-> AllOptions]

Subclass == [Server EXCEPT !.options = CommonOptions]

Cassandra == [Subclass EXCEPT !.port = 7199]

ApacheDrill ==
    [Subclass EXCEPT !.port = 8047, !.protocol = "http",
                     !.url = "/status", !.regex = "Running"]

ApacheDrill2 == [ApacheDrill EXCEPT !.url = "/status.json"]

Elasticsearch ==
    [Subclass EXCEPT !.port = 9200, !.protocol = "http", !.regex = "lucene_version"]

HadoopNamenode ==
    [Subclass EXCEPT !.port = 9870, !.protocol = "http", !.url = "/jmx NameNodeStatus",
                     !.regex = "State active", !.threads = 2]

Hadoop2Namenode == [HadoopNamenode EXCEPT !.port = 50070]

HadoopYarnResourceManager ==
    [Subclass EXCEPT !.port = 8088, !.protocol = "http", !.url = "/ws/v1/cluster",
                     !.regex = "haState ACTIVE", !.threads = 2]

HBaseMaster ==
    [Subclass EXCEPT !.port = 16010, !.protocol = "http", !.url = "/jmx Master",
                     !.regex = "isActiveMaster true", !.threads = 2]

HBaseStargate ==
    [Subclass EXCEPT !.port = 8085, !.protocol = "http", !.url = "/rest.jsp",
                     !.regex = "HBase REST", !.threads = 5]

HBaseThrift ==
    [Subclass EXCEPT !.port = 9095, !.protocol = "http", !.url = "/thrift.jsp",
                     !.regex = "HBase Thrift", !.threads = 5]

Impala ==
    [Subclass EXCEPT !.port = 25000, !.protocol = "http", !.regex = "impalad"]

ImpalaCatalog ==
    [Subclass EXCEPT !.port = 25020, !.protocol = "http", !.regex = "catalogd"]

ImpalaStatestore ==
    [Subclass EXCEPT !.port = 25010, !.protocol = "http", !.regex = "statestored"]

KubernetesAPI ==
    [Subclass EXCEPT !.port = 8001, !.protocol = "http", !.url = "/healthz/ping",
                     !.regex = "ok", !.threads = 2]

Oozie ==
    [Subclass EXCEPT !.port = 11000, !.protocol = "http", !.url = "/oozie/v1/admin/status",
                     !.regex = "systemMode NORMAL", !.threads = 2]

PrestoCoordinator ==
    [Subclass EXCEPT !.port = 8080, !.protocol = "http", !.url = "/v1/service/presto/general",
                     !.regex = "coordinator true", !.threads = 2]

SolrCloud ==
    [Subclass EXCEPT !.port = 3389, !.protocol = "http", !.url = "/solr/",
                     !.regex = "Solr Admin"]

Programs ==
    {Server, Cassandra, ApacheDrill, ApacheDrill2, Elasticsearch, HadoopNamenode,
     Hadoop2Namenode, HadoopYarnResourceManager, HBaseMaster, HBaseStargate,
     HBaseThrift, Impala, ImpalaCatalog, ImpalaStatestore, KubernetesAPI, Oozie,
     PrestoCoordinator, SolrCloud}

-----------------------------------------------------------------------------
(* validate_protocol_opts for program p and the options o given to it.     *)
(* --https overrides --http, and a page to fetch implies http unless a     *)
(* protocol is set already.                                                *)
WebProtocol(p, o) ==
    IF "https" \in o THEN "https"
    ELSE IF "http" \in o THEN "http"
    ELSE IF p.protocol = "none" /\ (p.url # "" \/ "url" \in o) THEN "http"
    ELSE p.protocol

(* A ping tests no port and no page.                                       *)
PingRefused(p, o) ==
    "ping" \in o /\ (WebProtocol(p, o) # "none" \/ "port" \in o)

Protocol(p, o) == IF "ping" \in o THEN "ping" ELSE WebProtocol(p, o)

(* validate_misc_opts: a regex needs some protocol; --ping counts as one.  *)
HasRegex(p, o) == p.regex # "" \/ "regex" \in o

RegexRefused(p, o) == HasRegex(p, o) /\ Protocol(p, o) = "none"

NumThreads(p, o, n) == IF "num_threads" \in o THEN n ELSE p.threads

(* The combinations process_options lets through; the others end in usage. *)
Accepted(p, o) == o \subseteq p.options /\ ~PingRefused(p, o) /\ ~RegexRefused(p, o)

(* The settings run() works with: n is the argument of --num-threads.      *)
Settings(p, o, n, python, alarm) ==
    [protocol |-> CASE Protocol(p, o) \in {"http", "https"} -> "http"
                    [] Protocol(p, o) = "ping"              -> "ping"
                    [] Protocol(p, o) = "none"              -> "socket",
     regex    |-> HasRegex(p, o),
     threads  |-> NumThreads(p, o, n),
     quiet    |-> "quiet" \in o,
     python   |-> python,
     alarm    |-> alarm]
=============================================================================
