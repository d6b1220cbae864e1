---------------------------- MODULE MCTravisTools ----------------------------
(* Model checking of TravisTools: jobs that failed, one of them in a debug  *)
(* session, jobs that are running, and one that passed; a listing that is   *)
(* not in order.                                                            *)
EXTENDS TravisTools

Log(n, text, ended) == [run |-> n, content |-> text, ended |-> ended]
MCJobs ==
    [j1 |-> [state |-> "finished", status |-> "1", debug |-> TRUE, runs |-> 2,
             log |-> Log(2, "address", TRUE)],
     j2 |-> [state |-> "finished", status |-> "none", debug |-> FALSE, runs |-> 1,
             log |-> Log(1, "text", TRUE)],
     j3 |-> [state |-> "started", status |-> "none", debug |-> FALSE, runs |-> 1,
             log |-> Log(1, "empty", FALSE)],
     j4 |-> [state |-> "started", status |-> "none", debug |-> FALSE, runs |-> 1,
             log |-> Log(1, "empty", FALSE)],
     j5 |-> [state |-> "finished", status |-> "0", debug |-> FALSE, runs |-> 1,
             log |-> Log(1, "text", TRUE)]]
B(n, js) == [number |-> n, jobs |-> js]
MCBuilds ==
    {<<B(3, <<"j3">>), B(2, <<"j1", "j5">>), B(1, <<"j2">>)>>,
     <<B(2, <<"j2", "j3">>), B(1, <<"j1">>)>>,
     <<B(1, <<"j1">>), B(2, <<"j2">>)>>}
MCNewBuild == B(4, <<"j4">>)

Opt(tool, j, repo, arg, checkout, num, completed, failed, ignore) ==
    [tool |-> tool, job |-> j, repo |-> repo, arg |-> arg, url |-> "j1", checkout |-> checkout,
     num |-> num, completed |-> completed, failed |-> failed, ignore |-> ignore]
MCRuns ==
    {Opt("last_log", "none", TRUE, "none", FALSE, num, completed, failed, FALSE) :
        num \in {1, 2}, completed \in BOOLEAN, failed \in BOOLEAN}
    \union {Opt("debug_session", "none", FALSE, arg, TRUE, 1, FALSE, FALSE, ignore) :
              arg \in {"none", "slug", "j1", "j3"}, ignore \in BOOLEAN}
    \union {Opt(tool, j, FALSE, arg, FALSE, 1, FALSE, FALSE, FALSE) :
              tool \in {"last_log", "debug_session"}, j \in {"none", "j1"}, arg \in {"none", "url", "j1"}}
=============================================================================
