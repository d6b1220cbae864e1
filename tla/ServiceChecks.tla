--------------------------- MODULE ServiceChecks ---------------------------
(* ambari_trigger_service_checks.py: several runs of the program against   *)
(* one Ambari server.  A run either submits a batch of service checks and  *)
(* perhaps watches it, or cancels what service checks it finds.  Requests  *)
(* and schedules are named by their positions, as their ids are.           *)
(*                                                                         *)
(* Ambari itself is external: it works through a batch one request at a    *)
(* time, in order, as parse_scheduled_request expects.                     *)
EXTENDS Naturals, Sequences

CONSTANTS
    Clients,        \* the runs of the program
    Services,       \* what get_services returns
    Jobs,           \* the settings the runs may be started with, client by client
    Backlog,        \* the requests Ambari may hold at first
    MaxOther,       \* bound: requests submitted by other means meanwhile
    MaxErrors       \* bound: HTTP calls that fail

Context == {"check", "other"}   \* does request_context contain 'Service Check'?
RequestStatus == {"PENDING", "COMPLETED", "FAILED", "ABORTED"}
RequestType == [context : Context, status : RequestStatus]
ScheduleType(ids) ==
    [by : Clients, items : Seq({0} \union ids), status : {"SCHEDULED", "COMPLETED", "ABORTED"}]

(* A request aborted before the runs start stands in the backlog as one    *)
(* that failed: nothing distinguishes the requests that have ended.        *)
ASSUME BoundsAssumption == MaxOther \in Nat /\ MaxErrors \in Nat
ASSUME BacklogAssumption ==
    Backlog \subseteq Seq([context : Context, status : RequestStatus \ {"ABORTED"}])
ASSUME JobsAssumption ==            \* anything else is answered by usage()
    \A j \in Jobs : \A c \in Clients :
        /\ j[c].op \in {"request", "cancel"}
        /\ j[c].services \in Seq(STRING) /\ j[c].wait \in BOOLEAN
        /\ j[c].services = <<>> <=> j[c].op = "cancel"

VARIABLES
    job,            \* client -> its options: op, services, wait
    pc,             \* client -> the HTTP call it makes next
    snapshot, at,   \* client -> the ids get_request_ids returned, and how many it has dealt with
    sched,          \* client -> {} or {the id of the schedule it submitted}
    exit,           \* client -> "running" or its exit code
    requests,       \* Ambari: id -> [context, status]
    schedules,      \* Ambari: id -> [by, items, status]: the run that submitted
                    \* it, the requests posted for it (0 before that), its state
    others, errors  \* how much of MaxOther and MaxErrors was used

ambari == <<requests, schedules, others>>
vars == <<job, pc, snapshot, at, sched, exit, ambari, errors>>

Init ==
    /\ job \in Jobs
    /\ pc = [c \in Clients |-> "discover"]
    /\ snapshot = [c \in Clients |-> <<>>]
    /\ at = [c \in Clients |-> 0]
    /\ sched = [c \in Clients |-> {}]
    /\ exit = [c \in Clients |-> "running"]
    /\ requests \in Backlog
    /\ schedules = <<>>
    /\ others = 0
    /\ errors = 0

End(c, code) ==
    /\ pc' = [pc EXCEPT ![c] = "done"]
    /\ exit' = [exit EXCEPT ![c] = code]

Goto(c, next) ==
    /\ pc' = [pc EXCEPT ![c] = next]
    /\ UNCHANGED exit

-----------------------------------------------------------------------------
(* run(): clusters, then services; a service Ambari does not list is fatal *)
Discover(c) ==
    /\ pc[c] = "discover"
    /\ LET wanted == {job[c].services[k] : k \in DOMAIN job[c].services} IN
       IF job[c].op = "cancel" THEN Goto(c, "list")
       ELSE IF wanted \subseteq Services THEN Goto(c, "post") ELSE End(c, "2")
    /\ UNCHANGED <<job, snapshot, at, sched, ambari, errors>>

(* cancel_service_checks: the ids of all requests, once.                   *)
GetRequestIds(c) ==
    /\ pc[c] = "list"
    /\ snapshot' = [snapshot EXCEPT ![c] = [i \in DOMAIN requests |-> i]]
    /\ IF requests = <<>> THEN End(c, "0") ELSE Goto(c, "look")
    /\ UNCHANGED <<job, at, sched, ambari, errors>>

Current(c) == snapshot[c][at[c] + 1]

NextId(c) ==
    /\ at' = [at EXCEPT ![c] = @ + 1]
    /\ IF at'[c] = Len(snapshot[c]) THEN End(c, "0") ELSE Goto(c, "look")

(* Mutant: the context is not looked at.                                   *)
GetContextAny(c) ==
    /\ pc[c] = "look"
    /\ Goto(c, "put")
    /\ UNCHANGED <<job, snapshot, at, sched, ambari, errors>>

(* Mutant: only the service checks that are the first or last of the list. *)
GetContextEnds(c) ==
    /\ pc[c] = "look"
    /\ IF requests[Current(c)].context = "check" /\ at[c] \in {0, Len(snapshot[c]) - 1}
       THEN Goto(c, "put") /\ UNCHANGED at
       ELSE NextId(c)
    /\ UNCHANGED <<job, snapshot, sched, ambari, errors>>

GetContext(c) ==
    /\ pc[c] = "look"
    /\ IF requests[Current(c)].context = "check"
       THEN Goto(c, "put") /\ UNCHANGED at
       ELSE NextId(c)
    /\ UNCHANGED <<job, snapshot, sched, ambari, errors>>

(* What Ambari does with a PUT of ABORTED: an ended request stays as it is *)
Abort(r) ==
    requests' = IF requests[r].status = "PENDING"
                THEN [requests EXCEPT ![r].status = "ABORTED"]
                ELSE requests

PutAborted(c) ==
    /\ pc[c] = "put"
    /\ Abort(Current(c))
    /\ NextId(c)
    /\ UNCHANGED <<job, snapshot, sched, schedules, others, errors>>

(* Ambari's answer to a POST of a batch.                                   *)
Submit(c) ==
    schedules' = Append(schedules,
                        [by     |-> c,
                         items  |-> [k \in DOMAIN job[c].services |-> 0],
                         status |-> "SCHEDULED"])

(* Mutant: the watched schedule is not the one that was submitted.         *)
PostFirst(c) ==
    /\ pc[c] = "post"
    /\ Submit(c)
    /\ sched' = [sched EXCEPT ![c] = {1}]
    /\ IF job[c].wait THEN Goto(c, "watch") ELSE End(c, "0")
    /\ UNCHANGED <<job, snapshot, at, requests, others, errors>>

(* Mutant: the id in the response is not kept.                             *)
PostForgets(c) ==
    /\ pc[c] = "post"
    /\ Submit(c)
    /\ IF job[c].wait THEN Goto(c, "watch") ELSE End(c, "0")
    /\ UNCHANGED <<job, snapshot, at, sched, requests, others, errors>>

(* request_service_checks                                                  *)
Post(c) ==
    /\ pc[c] = "post"
    /\ Submit(c)
    /\ sched' = [sched EXCEPT ![c] = {Len(schedules')}]
    /\ IF job[c].wait THEN Goto(c, "watch") ELSE End(c, "0")
    /\ UNCHANGED <<job, snapshot, at, requests, others, errors>>

ItemStatus(i) == IF i = 0 THEN "NO STATUS YET" ELSE requests[i].status

(* Mutant: the status of the schedule itself is not looked at.             *)
ParseItemsOnly(s) ==
    IF \A k \in DOMAIN schedules[s].items :
         ItemStatus(schedules[s].items[k]) = "COMPLETED"
    THEN "COMPLETED" ELSE "IN_PROGRESS"

(* parse_scheduled_request; it returns None when all that is not completed *)
(* is aborted.                                                             *)
ParseScheduledRequest(s) ==
    IF schedules[s].status = "COMPLETED" THEN "COMPLETED"
    ELSE IF \E k \in DOMAIN schedules[s].items :
              ItemStatus(schedules[s].items[k]) \notin {"COMPLETED", "ABORTED"}
    THEN "IN_PROGRESS" ELSE "None"

(* watch_scheduled_request: any status but COMPLETED means another turn.   *)
Watch(c) ==
    /\ pc[c] = "watch"
    /\ \E s \in sched[c] : ParseScheduledRequest(s) = "COMPLETED"
    /\ End(c, "0")
    /\ UNCHANGED <<job, snapshot, at, sched, ambari, errors>>

(* req() dies when the call or the reply fails, or raises an HTTPError that *)
(* nothing catches: a PUT or POST whose reply is lost or an error may have  *)
(* had its effect all the same.                                             *)
RequestFails(c) ==
    /\ pc[c] # "done"
    /\ errors < MaxErrors
    /\ errors' = errors + 1
    /\ \E code \in {"1", "2"} : End(c, code)
    /\ \/ UNCHANGED <<requests, schedules>>
       \/ pc[c] = "put" /\ Abort(Current(c)) /\ UNCHANGED schedules
       \/ pc[c] = "post" /\ Submit(c) /\ UNCHANGED requests
    /\ UNCHANGED <<job, snapshot, at, sched, others>>

(* The alarm of the CLI base class, two hours by default.                  *)
Alarm(c) ==
    /\ pc[c] # "done"
    /\ End(c, "3")
    /\ UNCHANGED <<job, snapshot, at, sched, ambari, errors>>

-----------------------------------------------------------------------------
Ended(i) == i # 0 /\ requests[i].status # "PENDING"

(* The batch scheduler posts the next request once the one before ended.   *)
PostBatchRequest(s) ==
    /\ schedules[s].status = "SCHEDULED"
    /\ \E k \in DOMAIN schedules[s].items :
         /\ schedules[s].items[k] = 0
         /\ \A i \in 1..(k - 1) : Ended(schedules[s].items[i])
         /\ requests' = Append(requests, [context |-> "check", status |-> "PENDING"])
         /\ schedules' = [schedules EXCEPT ![s].items[k] = Len(requests')]
    /\ UNCHANGED <<job, pc, snapshot, at, sched, exit, others, errors>>

FinishRequest(i) ==
    /\ requests[i].status = "PENDING"
    /\ \E status \in {"COMPLETED", "FAILED"} :
         requests' = [requests EXCEPT ![i].status = status]
    /\ UNCHANGED <<job, pc, snapshot, at, sched, exit, schedules, others, errors>>

(* A batch is over when all its requests are; Ambari may give up a batch   *)
(* of which more requests failed than task_failure_tolerance allows.       *)
CloseSchedule(s) ==
    /\ schedules[s].status = "SCHEDULED"
    /\ \/ /\ \A k \in DOMAIN schedules[s].items : Ended(schedules[s].items[k])
          /\ schedules' = [schedules EXCEPT ![s].status = "COMPLETED"]
       \/ /\ \E k \in DOMAIN schedules[s].items :
               ItemStatus(schedules[s].items[k]) \in {"FAILED", "ABORTED"}
          /\ schedules' = [schedules EXCEPT ![s].status = "ABORTED"]
    /\ UNCHANGED <<job, pc, snapshot, at, sched, exit, requests, others, errors>>

OtherRequest ==
    /\ others < MaxOther
    /\ others' = others + 1
    /\ requests' = Append(requests, [context |-> "other", status |-> "PENDING"])
    /\ UNCHANGED <<job, pc, snapshot, at, sched, exit, schedules, errors>>

Ambari ==
    \/ \E s \in DOMAIN schedules : PostBatchRequest(s) \/ CloseSchedule(s)
    \/ \E i \in DOMAIN requests : FinishRequest(i)
    \/ OtherRequest

Run(c) ==
    \/ Discover(c) \/ GetRequestIds(c) \/ GetContext(c) \/ PutAborted(c)
    \/ Post(c) \/ Watch(c)

Next ==
    \/ \E c \in Clients : Run(c) \/ RequestFails(c) \/ Alarm(c)
    \/ Ambari

(* A client goes on while its calls are answered; nothing is assumed of    *)
(* what Ambari does with its requests and schedules.                       *)
Fairness == \A c \in Clients : WF_vars(Run(c))

Spec == Init /\ [][Next]_vars /\ Fairness

-----------------------------------------------------------------------------
(* The type invariant; a watching client knows what it watches.            *)
TypeOK ==
    /\ job \in Jobs
    /\ pc \in [Clients -> {"discover", "list", "look", "put", "post", "watch", "done"}]
    /\ exit \in [Clients -> {"running", "0", "1", "2", "3"}]
    /\ requests \in Seq(RequestType)
    /\ schedules \in Seq(ScheduleType(DOMAIN requests))
    /\ snapshot \in [Clients -> Seq(DOMAIN requests)]
    /\ at \in [Clients -> Nat]
    /\ sched \in [Clients -> SUBSET DOMAIN schedules]
    /\ \A c \in Clients :
         /\ exit[c] = "running" <=> pc[c] # "done"
         /\ at[c] <= Len(snapshot[c])
         /\ pc[c] \in {"look", "put"} => at[c] < Len(snapshot[c])
         /\ pc[c] = "watch" => sched[c] # {}
    /\ others \in 0..MaxOther
    /\ errors \in 0..MaxErrors

Listed(c) == {snapshot[c][k] : k \in DOMAIN snapshot[c]}
DealtWith(c) == {snapshot[c][k] : k \in 1..at[c]}

(* What is aborted is a service check that some --cancel run has come to:  *)
(* other operations, and checks requested after the list was fetched, are  *)
(* never touched, however the runs interleave.  (cancel_service_checks)    *)
OnlyListedChecksAborted ==
    \A i \in DOMAIN requests : requests[i].status = "ABORTED" =>
        /\ requests[i].context = "check"
        /\ \E c \in Clients :
             \/ i \in DealtWith(c)
             \/ exit[c] \in {"1", "2"} /\ at[c] < Len(snapshot[c]) /\ i = Current(c)

(* A --cancel run leaves no service check pending among those it has dealt *)
(* with, so that one ending with 0 has ended every check of its list, and  *)
(* one that dies midway those before the failing one.                      *)
NoneLeftPending ==
    \A c \in Clients :
        /\ \A i \in DealtWith(c) :
             requests[i].context = "check" => requests[i].status # "PENDING"
        /\ (exit[c] = "0" /\ job[c].op = "cancel") => DealtWith(c) = Listed(c)

(* A run with --wait gives exit code 0 only once every check of the batch  *)
(* it submitted itself has ended, also while others watch and cancel.      *)
WaitMeansDone ==
    \A c \in Clients :
        (job[c].wait /\ job[c].op = "request" /\ exit[c] = "0") =>
            \E s \in DOMAIN schedules :
                /\ schedules[s].by = c
                /\ \A k \in DOMAIN schedules[s].items : Ended(schedules[s].items[k])

-----------------------------------------------------------------------------
(* What the invariants rest on.  Each run is where its options let it be,  *)
(* and has come to no id before it has the list.                           *)
Phases ==
    \A c \in Clients :
        /\ pc[c] \in {"list", "look", "put"} => job[c].op = "cancel"
        /\ pc[c] \in {"post", "watch"} => job[c].op = "request"
        /\ pc[c] \in {"discover", "list"} => at[c] = 0

(* The PUT is sent for an id whose context has been looked at.             *)
LookedAt == \A c \in Clients : pc[c] = "put" => requests[Current(c)].context = "check"

(* A run knows the id of no schedule but its own, and Ambari calls none    *)
(* completed before its requests have ended.                               *)
OwnSchedule ==
    /\ \A c \in Clients : \A s \in sched[c] : schedules[s].by = c
    /\ \A s \in DOMAIN schedules : schedules[s].status = "COMPLETED" =>
         \A k \in DOMAIN schedules[s].items : Ended(schedules[s].items[k])

IInv ==
    /\ TypeOK /\ Phases /\ LookedAt /\ OwnSchedule
    /\ OnlyListedChecksAborted /\ NoneLeftPending /\ WaitMeansDone

-----------------------------------------------------------------------------
(* A watching run returns once its schedule is completed, although checks  *)
(* of it may have failed or been aborted.  (watch_scheduled_request)       *)
WatchEnds ==
    \A c \in Clients :
        (pc[c] = "watch" /\ \E s \in sched[c] : schedules[s].status = "COMPLETED")
            ~> pc[c] = "done"
=============================================================================
