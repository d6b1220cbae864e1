------------------------- MODULE MCServiceChecks -------------------------
(* Model checking of ServiceChecks: a run that cancels next to a run of    *)
(* any kind, and two runs that submit a batch each.                        *)
EXTENDS ServiceChecks

Cancel == [op |-> "cancel", services |-> <<>>, wait |-> FALSE]
Check(services, wait) == [op |-> "request", services |-> services, wait |-> wait]

(* Runs 1 and 2, which may swap places.                                    *)
MCJobs ==
    {<<Cancel, j>> : j \in {Cancel, Check(<<"HDFS", "YARN">>, TRUE), Check(<<"BLAH">>, FALSE)}}
    \union
    {<<Check(<<"YARN">>, TRUE), Check(<<"HDFS">>, wait)>> : wait \in BOOLEAN}

Request(context, status) == [context |-> context, status |-> status]

MCBacklog == {<<Request("other", "PENDING"), Request("check", "PENDING")>>}
==========================================================================
