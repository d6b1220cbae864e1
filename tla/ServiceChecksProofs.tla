------------------------ MODULE ServiceChecksProofs ------------------------
(* Theorems of ServiceChecks, for any number of runs, any settings of them *)
(* and any backlog.                                                        *)
EXTENDS ServiceChecks, SequenceTheorems, TLAPS

(* A PUT of ABORTED changes the status of one pending request and nothing  *)
(* else.                                                                   *)
LEMMA AbortFacts ==
    ASSUME TypeOK, NEW r \in DOMAIN requests, Abort(r)
    PROVE  /\ requests' \in Seq(RequestType)
           /\ DOMAIN requests' = DOMAIN requests
           /\ \A i \in DOMAIN requests :
                /\ requests'[i].context = requests[i].context
                /\ requests[i].status # "PENDING" => requests'[i] = requests[i]
                /\ requests'[i].status = "ABORTED" => i = r \/ requests[i].status = "ABORTED"
           /\ requests'[r].status # "PENDING"
<1>1. requests \in Seq(RequestType) /\ requests[r] \in RequestType
  BY DEF TypeOK
<1>2. CASE requests[r].status = "PENDING"
  <2>1. requests' = [requests EXCEPT ![r].status = "ABORTED"]
    BY <1>2 DEF Abort
  <2>2. [requests[r] EXCEPT !.status = "ABORTED"] \in RequestType
    BY <1>1 DEF RequestType, RequestStatus
  <2>3. QED
    BY <1>1, <1>2, <2>1, <2>2 DEF RequestType
<1>3. CASE requests[r].status # "PENDING"
  BY <1>1, <1>3 DEF Abort
<1>4. QED
  BY <1>2, <1>3

(* Ambari's answer to a POST: one schedule more, of the run that posted.   *)
LEMMA SubmitFacts ==
    ASSUME TypeOK, NEW c \in Clients, Submit(c)
    PROVE  /\ schedules' \in Seq(ScheduleType(DOMAIN requests))
           /\ Len(schedules') = Len(schedules) + 1
           /\ DOMAIN schedules' = DOMAIN schedules \union {Len(schedules')}
           /\ \A s \in DOMAIN schedules : schedules'[s] = schedules[s]
           /\ schedules'[Len(schedules')].by = c
           /\ schedules'[Len(schedules')].status = "SCHEDULED"
<1> DEFINE new == [by     |-> c,
                   items  |-> [k \in DOMAIN job[c].services |-> 0],
                   status |-> "SCHEDULED"]
<1>1. job[c].services \in Seq(STRING)
  BY JobsAssumption DEF TypeOK
<1>2. [k \in DOMAIN job[c].services |-> 0] \in Seq({0} \union DOMAIN requests)
  BY <1>1
<1>3. new \in ScheduleType(DOMAIN requests)
  BY <1>2 DEF ScheduleType
<1>4. schedules \in Seq(ScheduleType(DOMAIN requests)) /\ schedules' = Append(schedules, new)
  BY DEF TypeOK, Submit
<1>5. new.by = c /\ new.status = "SCHEDULED"
  OBVIOUS
<1> HIDE DEF new
<1>6. QED
  BY <1>3, <1>4, <1>5

(* Ids stay valid when requests are added.                                 *)
LEMMA MoreIds ==
    ASSUME NEW S, NEW T, S \subseteq T
    PROVE  /\ Seq(S) \subseteq Seq(T)
           /\ Seq(ScheduleType(S)) \subseteq Seq(ScheduleType(T))
<1>1. Seq(S) \subseteq Seq(T) /\ Seq({0} \union S) \subseteq Seq({0} \union T)
  OBVIOUS
<1>2. ScheduleType(S) \subseteq ScheduleType(T)
  BY <1>1 DEF ScheduleType
<1>3. QED
  BY <1>1, <1>2

-----------------------------------------------------------------------------
(* What the steps of the runs leave alone, and what they do to Ambari.     *)
LEMMA ClientFacts ==
    ASSUME TypeOK, NEW c \in Clients, Run(c) \/ RequestFails(c) \/ Alarm(c)
    PROVE  /\ job' = job /\ others' = others
           /\ pc' = [pc EXCEPT ![c] = pc'[c]] /\ exit' = [exit EXCEPT ![c] = exit'[c]]
           /\ \A d \in Clients \ {c} :
                /\ pc'[d] = pc[d] /\ exit'[d] = exit[d] /\ snapshot'[d] = snapshot[d]
                /\ at'[d] = at[d] /\ sched'[d] = sched[d]
           /\ pc[c] # "done"
           /\ requests' = requests \/ (pc[c] = "put" /\ Abort(Current(c)))
           /\ schedules' = schedules \/ (pc[c] = "post" /\ Submit(c))
<1> USE DEF TypeOK, End, Goto, NextId, ambari
<1>1. CASE Discover(c)
  BY <1>1 DEF Discover
<1>2. CASE GetRequestIds(c)
  BY <1>2 DEF GetRequestIds
<1>3. CASE GetContext(c)
  BY <1>3 DEF GetContext
<1>4. CASE PutAborted(c)
  BY <1>4 DEF PutAborted
<1>5. CASE Post(c)
  BY <1>5 DEF Post
<1>6. CASE Watch(c)
  BY <1>6 DEF Watch
<1>7. CASE RequestFails(c)
  BY <1>7 DEF RequestFails
<1>8. CASE Alarm(c)
  BY <1>8 DEF Alarm
<1>9. QED
  BY <1>1, <1>2, <1>3, <1>4, <1>5, <1>6, <1>7, <1>8 DEF Run

(* What Ambari's own steps leave alone.                                    *)
LEMMA AmbariFacts ==
    ASSUME Ambari
    PROVE  UNCHANGED <<job, pc, snapshot, at, sched, exit>>
BY DEF Ambari, PostBatchRequest, CloseSchedule, FinishRequest, OtherRequest

(* The current id of a run that looks at it, or aborts it, is an id.       *)
LEMMA CurrentIsId ==
    ASSUME TypeOK, NEW c \in Clients, at[c] < Len(snapshot[c])
    PROVE  Current(c) \in DOMAIN requests
<1>1. snapshot[c] \in Seq(DOMAIN requests) /\ at[c] \in Nat
  BY DEF TypeOK
<1>2. at[c] + 1 \in 1..Len(snapshot[c])
  BY <1>1
<1>3. QED
  BY <1>1, <1>2 DEF Current

(* Requests are only added; their contexts never change, and one that has  *)
(* ended stays as it is.                                                   *)
LEMMA RequestsGrow ==
    ASSUME TypeOK, [Next]_vars
    PROVE  /\ requests' \in Seq(RequestType)
           /\ DOMAIN requests \subseteq DOMAIN requests'
           /\ \A i \in DOMAIN requests :
                /\ requests'[i].context = requests[i].context
                /\ requests[i].status # "PENDING" => requests'[i] = requests[i]
<1>1. requests \in Seq(RequestType)
  BY DEF TypeOK
<1>2. CASE requests' = requests
  BY <1>1, <1>2
<1>3. ASSUME NEW c \in Clients, Run(c) \/ RequestFails(c) \/ Alarm(c)
      PROVE  requests' = requests \/ (pc[c] = "put" /\ Abort(Current(c)))
  BY <1>3, ClientFacts
<1>4. ASSUME NEW c \in Clients, pc[c] = "put", Abort(Current(c))
      PROVE  /\ requests' \in Seq(RequestType)
             /\ DOMAIN requests \subseteq DOMAIN requests'
             /\ \A i \in DOMAIN requests :
                  /\ requests'[i].context = requests[i].context
                  /\ requests[i].status # "PENDING" => requests'[i] = requests[i]
  <2>1. Current(c) \in DOMAIN requests
    BY <1>4, CurrentIsId DEF TypeOK
  <2>2. QED
    BY <1>4, <2>1, AbortFacts
<1>5. ASSUME NEW r \in RequestType, requests' = Append(requests, r)
      PROVE  /\ requests' \in Seq(RequestType)
             /\ DOMAIN requests \subseteq DOMAIN requests'
             /\ \A i \in DOMAIN requests : requests'[i] = requests[i]
  BY <1>1, <1>5
<1>6. ASSUME NEW s \in DOMAIN schedules, PostBatchRequest(s)
      PROVE  \E r \in RequestType : requests' = Append(requests, r)
  BY <1>6 DEF PostBatchRequest, RequestType, Context, RequestStatus
<1>7. CASE OtherRequest
  <2>1. [context |-> "other", status |-> "PENDING"] \in RequestType
    BY DEF RequestType, Context, RequestStatus
  <2>2. QED
    BY <1>5, <1>7, <2>1 DEF OtherRequest
<1>8. ASSUME NEW i \in DOMAIN requests, FinishRequest(i)
      PROVE  /\ requests' \in Seq(RequestType)
             /\ DOMAIN requests \subseteq DOMAIN requests'
             /\ \A j \in DOMAIN requests :
                  /\ requests'[j].context = requests[j].context
                  /\ requests[j].status # "PENDING" => requests'[j] = requests[j]
  <2>1. PICK status \in {"COMPLETED", "FAILED"} :
            requests' = [requests EXCEPT ![i].status = status]
    BY <1>8 DEF FinishRequest
  <2>2. requests[i].status = "PENDING" /\ requests[i] \in RequestType
    BY <1>1, <1>8 DEF FinishRequest
  <2>3. [requests[i] EXCEPT !.status = status] \in RequestType
    BY <2>2 DEF RequestType, RequestStatus
  <2>4. QED
    BY <1>1, <2>1, <2>2, <2>3 DEF RequestType
<1>9. CASE \E s \in DOMAIN schedules : CloseSchedule(s)
  BY <1>2, <1>9 DEF CloseSchedule
<1>10. CASE UNCHANGED vars
  BY <1>2, <1>10 DEF vars, ambari
<1>11. QED
  BY <1>2, <1>3, <1>4, <1>5, <1>6, <1>7, <1>8, <1>9, <1>10 DEF Next, Ambari

(* Schedules are only added and belong to whom they belonged; what they    *)
(* list stays listed, and the list of one that is over stays as it is.     *)
LEMMA SchedulesGrow ==
    ASSUME TypeOK, [Next]_vars
    PROVE  /\ schedules' \in Seq(ScheduleType(DOMAIN requests'))
           /\ DOMAIN schedules \subseteq DOMAIN schedules'
           /\ \A s \in DOMAIN schedules :
                /\ schedules'[s].by = schedules[s].by
                /\ (\A k \in DOMAIN schedules[s].items : Ended(schedules[s].items[k]))
                     => schedules'[s].items = schedules[s].items
<1>1. /\ schedules \in Seq(ScheduleType(DOMAIN requests))
      /\ schedules \in Seq(ScheduleType(DOMAIN requests'))
      /\ requests' \in Seq(RequestType) /\ DOMAIN requests \subseteq DOMAIN requests'
  BY RequestsGrow, MoreIds DEF TypeOK
<1>2. CASE schedules' = schedules
  BY <1>1, <1>2
<1>3. ASSUME NEW c \in Clients, Run(c) \/ RequestFails(c) \/ Alarm(c)
      PROVE  schedules' = schedules \/ Submit(c)
  BY <1>3, ClientFacts
<1>4. ASSUME NEW c \in Clients, Submit(c)
      PROVE  /\ schedules' \in Seq(ScheduleType(DOMAIN requests'))
             /\ DOMAIN schedules \subseteq DOMAIN schedules'
             /\ \A s \in DOMAIN schedules : schedules'[s] = schedules[s]
  <2>1. schedules' \in Seq(ScheduleType(DOMAIN requests))
    BY <1>4, SubmitFacts
  <2>2. schedules' \in Seq(ScheduleType(DOMAIN requests'))
    BY <1>1, <2>1, MoreIds
  <2>3. QED
    BY <1>4, <2>2, SubmitFacts
<1>5. ASSUME NEW s \in DOMAIN schedules, PostBatchRequest(s)
      PROVE  /\ schedules' \in Seq(ScheduleType(DOMAIN requests'))
             /\ DOMAIN schedules \subseteq DOMAIN schedules'
             /\ \A t \in DOMAIN schedules :
                  /\ schedules'[t].by = schedules[t].by
                  /\ (\A k \in DOMAIN schedules[t].items : Ended(schedules[t].items[k]))
                       => schedules'[t].items = schedules[t].items
  <2>1. PICK k \in DOMAIN schedules[s].items :
          /\ schedules[s].items[k] = 0
          /\ requests' = Append(requests, [context |-> "check", status |-> "PENDING"])
          /\ schedules' = [schedules EXCEPT ![s].items[k] = Len(requests')]
    BY <1>5 DEF PostBatchRequest
  <2>2. Len(requests') \in DOMAIN requests' /\ ~Ended(schedules[s].items[k])
    BY <1>1, <2>1 DEF Ended, TypeOK
  <2>3. schedules[s] \in ScheduleType(DOMAIN requests')
    BY <1>1
  <2>4. schedules[s].items \in Seq({0} \union DOMAIN requests')
    BY <2>3 DEF ScheduleType
  <2>5. [schedules[s].items EXCEPT ![k] = Len(requests')] \in Seq({0} \union DOMAIN requests')
    BY <2>2, <2>4
  <2>6. [schedules[s] EXCEPT !.items = [@ EXCEPT ![k] = Len(requests')]]
            \in ScheduleType(DOMAIN requests')
    BY <2>3, <2>5 DEF ScheduleType
  <2>7. schedules' = [schedules EXCEPT ![s] =
            [schedules[s] EXCEPT !.items = [@ EXCEPT ![k] = Len(requests')]]]
    BY <2>1
  <2>8. QED
    BY <1>1, <2>2, <2>3, <2>6, <2>7 DEF ScheduleType
<1>6. ASSUME NEW s \in DOMAIN schedules, CloseSchedule(s)
      PROVE  /\ schedules' \in Seq(ScheduleType(DOMAIN requests'))
             /\ DOMAIN schedules \subseteq DOMAIN schedules'
             /\ \A t \in DOMAIN schedules :
                  /\ schedules'[t].by = schedules[t].by
                  /\ schedules'[t].items = schedules[t].items
  <2>1. PICK status \in {"COMPLETED", "ABORTED"} :
          schedules' = [schedules EXCEPT ![s].status = status]
    BY <1>6 DEF CloseSchedule
  <2>2. schedules[s] \in ScheduleType(DOMAIN requests')
    BY <1>1
  <2>3. [schedules[s] EXCEPT !.status = status] \in ScheduleType(DOMAIN requests')
    BY <2>2 DEF ScheduleType
  <2>4. QED
    BY <1>1, <2>1, <2>2, <2>3 DEF ScheduleType
<1>7. CASE (\E i \in DOMAIN requests : FinishRequest(i)) \/ OtherRequest \/ UNCHANGED vars
  BY <1>2, <1>7 DEF FinishRequest, OtherRequest, vars, ambari
<1>8. QED
  BY <1>2, <1>3, <1>4, <1>5, <1>6, <1>7 DEF Next, Ambari

-----------------------------------------------------------------------------
(* The pc, exit code, list, position and schedule of each run keep their   *)
(* types and stay in step.                                                 *)
Clean(c) ==
    /\ pc[c] \in {"discover", "list", "look", "put", "post", "watch", "done"}
    /\ exit[c] \in {"running", "0", "1", "2", "3"}
    /\ snapshot[c] \in Seq(DOMAIN requests)
    /\ at[c] \in Nat
    /\ sched[c] \in SUBSET DOMAIN schedules
    /\ exit[c] = "running" <=> pc[c] # "done"
    /\ at[c] <= Len(snapshot[c])
    /\ pc[c] \in {"look", "put"} => at[c] < Len(snapshot[c])
    /\ pc[c] = "watch" => sched[c] # {}

LEMMA CleanStep ==
    ASSUME TypeOK, Phases, [Next]_vars, NEW c \in Clients,
           Run(c) \/ RequestFails(c) \/ Alarm(c)
    PROVE  Clean(c)'
<1>1. Clean(c)
  BY DEF TypeOK, Clean
<1>2. /\ DOMAIN requests \subseteq DOMAIN requests' /\ DOMAIN schedules \subseteq DOMAIN schedules'
      /\ Seq(DOMAIN requests) \subseteq Seq(DOMAIN requests')
  BY RequestsGrow, SchedulesGrow, MoreIds
<1>3. /\ pc \in [Clients -> {"discover", "list", "look", "put", "post", "watch", "done"}]
      /\ exit \in [Clients -> {"running", "0", "1", "2", "3"}]
      /\ snapshot \in [Clients -> Seq(DOMAIN requests)]
      /\ at \in [Clients -> Nat]
      /\ sched \in [Clients -> SUBSET DOMAIN schedules]
      /\ requests \in Seq(RequestType)
  BY DEF TypeOK
<1> USE DEF Clean, End, Goto
<1>4. CASE Discover(c)
  BY <1>1, <1>2, <1>3, <1>4 DEF Discover
<1>5. CASE GetRequestIds(c)
  <2>1. snapshot'[c] = [i \in DOMAIN requests |-> i]
    BY <1>3, <1>5 DEF GetRequestIds
  <2>2. snapshot'[c] \in Seq(DOMAIN requests) /\ Len(snapshot'[c]) = Len(requests)
    BY <1>3, <2>1
  <2>3. CASE requests = <<>>
    BY <1>1, <1>2, <1>3, <1>5, <2>2, <2>3 DEF GetRequestIds
  <2>4. CASE requests # <<>>
    <3>1. at'[c] = 0 /\ Len(requests) \in Nat /\ Len(requests) > 0
      BY <1>3, <1>5, <2>4 DEF GetRequestIds, Phases
    <3>2. QED
      BY <1>1, <1>2, <1>3, <1>5, <2>2, <2>4, <3>1 DEF GetRequestIds
  <2>5. QED
    BY <2>3, <2>4
<1>6. CASE GetContext(c)
  BY <1>1, <1>2, <1>3, <1>6 DEF GetContext, NextId
<1>7. CASE PutAborted(c)
  BY <1>1, <1>2, <1>3, <1>7 DEF PutAborted, NextId
<1>8. CASE Post(c)
  BY <1>1, <1>2, <1>3, <1>8, SubmitFacts DEF Post
<1>9. CASE Watch(c)
  BY <1>1, <1>2, <1>3, <1>9 DEF Watch
<1>10. CASE RequestFails(c)
  BY <1>1, <1>2, <1>3, <1>10 DEF RequestFails
<1>11. CASE Alarm(c)
  BY <1>1, <1>2, <1>3, <1>11 DEF Alarm
<1>12. QED
  BY <1>4, <1>5, <1>6, <1>7, <1>8, <1>9, <1>10, <1>11 DEF Run

(* Every step keeps the variables in their types.                          *)
LEMMA TypeStep == TypeOK /\ Phases /\ [Next]_vars => TypeOK'
<1> SUFFICES ASSUME TypeOK, Phases, [Next]_vars PROVE TypeOK'
  OBVIOUS
<1>1. requests' \in Seq(RequestType) /\ schedules' \in Seq(ScheduleType(DOMAIN requests'))
  BY RequestsGrow, SchedulesGrow
<1>2. /\ DOMAIN requests \subseteq DOMAIN requests' /\ DOMAIN schedules \subseteq DOMAIN schedules'
      /\ Seq(DOMAIN requests) \subseteq Seq(DOMAIN requests')
  BY RequestsGrow, SchedulesGrow, MoreIds
<1>3. job' = job
  BY ClientFacts, AmbariFacts DEF Next, vars
<1>4. others' \in 0..MaxOther /\ errors' \in 0..MaxErrors
  BY BoundsAssumption DEF TypeOK, Next, Run, Discover, GetRequestIds, GetContext, PutAborted,
     Post, Watch, RequestFails, Alarm, Ambari, PostBatchRequest, CloseSchedule, FinishRequest,
     OtherRequest, vars, ambari
<1>5. /\ pc' = [c \in Clients |-> pc'[c]] /\ exit' = [c \in Clients |-> exit'[c]]
      /\ snapshot' = [c \in Clients |-> snapshot'[c]]
      /\ at' = [c \in Clients |-> at'[c]] /\ sched' = [c \in Clients |-> sched'[c]]
  BY DEF TypeOK, Next, Run, Discover, GetRequestIds, GetContext, PutAborted,
     Post, Watch, RequestFails, Alarm, Ambari, PostBatchRequest, CloseSchedule, FinishRequest,
     OtherRequest, vars, ambari, End, Goto, NextId
<1>6. ASSUME NEW c \in Clients PROVE Clean(c)'
  <2>1. CASE Run(c) \/ RequestFails(c) \/ Alarm(c)
    BY <2>1, CleanStep
  <2>2. CASE ~(Run(c) \/ RequestFails(c) \/ Alarm(c))
    <3>1. /\ pc'[c] = pc[c] /\ exit'[c] = exit[c] /\ snapshot'[c] = snapshot[c]
          /\ at'[c] = at[c] /\ sched'[c] = sched[c]
      BY <2>2, ClientFacts, AmbariFacts DEF Next, vars
    <3>2. Clean(c)
      BY DEF TypeOK, Clean
    <3>3. QED
      BY <1>2, <3>1, <3>2 DEF Clean
  <2>3. QED
    BY <2>1, <2>2
<1>7. QED
  <2>1. /\ pc' \in [Clients -> {"discover", "list", "look", "put", "post", "watch", "done"}]
        /\ exit' \in [Clients -> {"running", "0", "1", "2", "3"}]
        /\ snapshot' \in [Clients -> Seq(DOMAIN requests')]
        /\ at' \in [Clients -> Nat]
        /\ sched' \in [Clients -> SUBSET DOMAIN schedules']
    BY <1>5, <1>6 DEF Clean
  <2>2. QED
    BY <1>1, <1>3, <1>4, <1>6, <2>1 DEF TypeOK, Clean

(* The order of the calls of a run.                                        *)
LEMMA PhasesStep == TypeOK /\ Phases /\ [Next]_vars => Phases'
<1> SUFFICES ASSUME TypeOK, Phases, [Next]_vars, NEW c \in Clients
             PROVE  /\ pc'[c] \in {"list", "look", "put"} => job'[c].op = "cancel"
                    /\ pc'[c] \in {"post", "watch"} => job'[c].op = "request"
                    /\ pc'[c] \in {"discover", "list"} => at'[c] = 0
  BY DEF Phases
<1>1. job[c].op \in {"request", "cancel"}
  BY JobsAssumption DEF TypeOK
<1> USE <1>1 DEF TypeOK, Phases, End, Goto, NextId
<1>2. CASE Discover(c)
  BY <1>2 DEF Discover
<1>3. CASE GetRequestIds(c)
  BY <1>3 DEF GetRequestIds
<1>4. CASE GetContext(c)
  BY <1>4 DEF GetContext
<1>5. CASE PutAborted(c)
  BY <1>5 DEF PutAborted
<1>6. CASE Post(c)
  BY <1>6 DEF Post
<1>7. CASE Watch(c)
  BY <1>7 DEF Watch
<1>8. CASE RequestFails(c)
  BY <1>8 DEF RequestFails
<1>9. CASE Alarm(c)
  BY <1>9 DEF Alarm
<1>10. ASSUME ~(Run(c) \/ RequestFails(c) \/ Alarm(c))
       PROVE  pc'[c] = pc[c] /\ at'[c] = at[c] /\ job' = job
  BY <1>10, ClientFacts, AmbariFacts DEF Next, vars
<1>11. QED
  BY <1>2, <1>3, <1>4, <1>5, <1>6, <1>7, <1>8, <1>9, <1>10 DEF Run

(* What is put is a service check: its context was looked at before, and   *)
(* never changes.                                                          *)
LEMMA LookedAtStep == TypeOK /\ LookedAt /\ [Next]_vars => LookedAt'
<1> SUFFICES ASSUME TypeOK, LookedAt, [Next]_vars, NEW c \in Clients, pc'[c] = "put"
             PROVE  requests'[Current(c)'].context = "check"
  BY DEF LookedAt
<1>1. CASE Current(c)' = Current(c) /\ pc[c] = "put"
  <2>1. Current(c) \in DOMAIN requests
    BY <1>1, CurrentIsId DEF TypeOK
  <2>2. QED
    BY <1>1, <2>1, RequestsGrow DEF LookedAt
<1>2. CASE GetContext(c)
  <2>1. /\ requests[Current(c)].context = "check"
        /\ UNCHANGED <<at, snapshot, requests>>
    BY <1>2 DEF GetContext, NextId, End, Goto, TypeOK, ambari
  <2>2. QED
    BY <2>1 DEF Current
<1>3. ASSUME Run(c) \/ RequestFails(c) \/ Alarm(c) PROVE GetContext(c)
  BY <1>3 DEF Run, Discover, GetRequestIds, PutAborted, Post, Watch, RequestFails, Alarm, NextId,
     End, Goto, TypeOK
<1>4. ASSUME ~(Run(c) \/ RequestFails(c) \/ Alarm(c))
      PROVE  Current(c)' = Current(c) /\ pc[c] = "put"
  BY <1>4, ClientFacts, AmbariFacts DEF Next, vars, Current
<1>5. QED
  BY <1>1, <1>2, <1>3, <1>4

(* A run that posts keeps the id of the schedule it is answered with; when *)
(* Ambari completes one, all its requests have ended.                      *)
LEMMA OwnScheduleStep == TypeOK /\ OwnSchedule /\ [Next]_vars => OwnSchedule'
<1> SUFFICES ASSUME TypeOK, OwnSchedule, [Next]_vars PROVE OwnSchedule'
  OBVIOUS
<1>1. ASSUME NEW c \in Clients, NEW s \in sched'[c] PROVE schedules'[s].by = c
  <2>1. CASE s \in sched[c]
    BY <2>1, SchedulesGrow DEF OwnSchedule, TypeOK
  <2>2. CASE s \notin sched[c]
    <3>1. Post(c)
      <4>1. Run(c) \/ RequestFails(c) \/ Alarm(c)
        BY <2>2, ClientFacts, AmbariFacts DEF Next, vars
      <4>2. QED
        BY <2>2, <4>1 DEF Run, Discover, GetRequestIds, GetContext, PutAborted, Watch, RequestFails, Alarm
    <3>2. s = Len(schedules')
      BY <3>1 DEF Post, TypeOK
    <3>3. QED
      BY <3>1, <3>2, SubmitFacts DEF Post
  <2>3. QED
    BY <2>1, <2>2
<1>2. ASSUME NEW s \in DOMAIN schedules', schedules'[s].status = "COMPLETED",
             NEW k \in DOMAIN schedules'[s].items, NEW i, i = schedules'[s].items[k]
      PROVE  i # 0 /\ requests'[i].status # "PENDING"
  <2>1. CASE s \in DOMAIN schedules /\ \A j \in DOMAIN schedules[s].items : Ended(schedules[s].items[j])
    <3>1. schedules'[s].items = schedules[s].items
      BY <2>1, SchedulesGrow
    <3>2. schedules[s] \in ScheduleType(DOMAIN requests)
      BY <2>1 DEF TypeOK
    <3>3. i \in {0} \union DOMAIN requests
      BY <1>2, <3>1, <3>2 DEF ScheduleType
    <3>4. i # 0 /\ requests[i].status # "PENDING"
      BY <1>2, <2>1, <3>1 DEF Ended
    <3>5. QED
      BY <3>3, <3>4, RequestsGrow
  <2>2. CASE \E c \in Clients : Run(c) \/ RequestFails(c) \/ Alarm(c)
    <3>1. schedules' = schedules \/ \E c \in Clients : Submit(c)
      BY <2>2, ClientFacts
    <3>2. s \in DOMAIN schedules /\ schedules'[s] = schedules[s]
      BY <1>2, <3>1, SubmitFacts
    <3>3. QED
      BY <1>2, <2>1, <3>2 DEF OwnSchedule
  <2>3. ASSUME NEW t \in DOMAIN schedules, PostBatchRequest(t)
        PROVE  s \in DOMAIN schedules /\ schedules[s].status = "COMPLETED"
    <3>1. PICK k_0 : schedules' = [schedules EXCEPT ![t].items[k_0] = Len(requests')]
      BY <2>3 DEF PostBatchRequest
    <3>2. schedules[t] \in ScheduleType(DOMAIN requests)
      BY <2>3 DEF TypeOK
    <3>3. [schedules[t] EXCEPT !.items[k_0] = Len(requests')].status = schedules[t].status
      BY <3>2 DEF ScheduleType
    <3>4. DOMAIN schedules' = DOMAIN schedules /\ schedules'[s].status = schedules[s].status
      BY <1>2, <2>3, <3>1, <3>3 DEF TypeOK
    <3>5. QED
      BY <1>2, <3>4
  <2>4. ASSUME NEW t \in DOMAIN schedules, CloseSchedule(t)
        PROVE  s \in DOMAIN schedules /\ \A j \in DOMAIN schedules[s].items : Ended(schedules[s].items[j])
    <3>1. PICK status :
            /\ schedules' = [schedules EXCEPT ![t].status = status]
            /\ \/ status = "ABORTED"
               \/ \A j \in DOMAIN schedules[t].items : Ended(schedules[t].items[j])
      BY <2>4 DEF CloseSchedule
    <3>2. schedules[t] \in ScheduleType(DOMAIN requests) /\ s \in DOMAIN schedules
      BY <1>2, <3>1 DEF TypeOK
    <3>3. CASE s = t
      <4>1. schedules'[s].status = status
        BY <3>1, <3>2, <3>3 DEF ScheduleType
      <4>2. QED
        BY <1>2, <3>1, <3>2, <3>3, <4>1
    <3>4. CASE s # t
      BY <1>2, <3>1, <3>2, <3>4 DEF OwnSchedule
    <3>5. QED
      BY <3>3, <3>4
  <2>5. CASE UNCHANGED schedules
    BY <1>2, <2>1, <2>5 DEF OwnSchedule
  <2>6. QED
    <3>1. CASE s \in DOMAIN schedules /\ schedules[s].status = "COMPLETED"
      BY <2>1, <3>1 DEF OwnSchedule
    <3>2. QED
      BY <2>1, <2>2, <2>3, <2>4, <2>5, <3>1
         DEF Next, Ambari, FinishRequest, OtherRequest, vars, ambari
<1>3. QED
  BY <1>1, <1>2 DEF OwnSchedule, Ended

-----------------------------------------------------------------------------
(* A run that has ended stays as it ended.                                 *)
LEMMA DoneStays ==
    ASSUME TypeOK, [Next]_vars, NEW c \in Clients, pc[c] = "done"
    PROVE  /\ job' = job
           /\ pc'[c] = pc[c] /\ exit'[c] = exit[c] /\ snapshot'[c] = snapshot[c]
           /\ at'[c] = at[c] /\ sched'[c] = sched[c]
BY ClientFacts, AmbariFacts DEF Next, vars

(* The ids a run has dealt with are added to when it goes on to the next.  *)
LEMMA DealtWithGrows ==
    ASSUME TypeOK, Phases, [Next]_vars, NEW c \in Clients
    PROVE  /\ DealtWith(c) \subseteq DealtWith(c)'
           /\ DealtWith(c)' \subseteq DealtWith(c) \union {Current(c)}
           /\ DealtWith(c) \subseteq DOMAIN requests
           /\ PutAborted(c) => Current(c) \in DealtWith(c)'
           /\ (DealtWith(c)' # DealtWith(c)) =>
                PutAborted(c) \/ (pc[c] = "look" /\ requests[Current(c)].context # "check")
<1>1. /\ at[c] \in Nat /\ snapshot[c] \in Seq(DOMAIN requests) /\ at[c] <= Len(snapshot[c])
      /\ at \in [Clients -> Nat]
  BY DEF TypeOK
<1>2. DealtWith(c) \subseteq DOMAIN requests
  BY <1>1 DEF DealtWith
<1>3. CASE at'[c] = at[c] /\ snapshot'[c] = snapshot[c]
  BY <1>2, <1>3 DEF DealtWith, PutAborted, NextId, TypeOK
<1>4. CASE GetRequestIds(c)
  <2>1. at[c] = 0 /\ at'[c] = 0
    BY <1>4 DEF GetRequestIds, Phases
  <2>2. DealtWith(c) = {} /\ DealtWith(c)' = {}
    BY <2>1 DEF DealtWith
  <2>3. QED
    BY <1>4, <2>2 DEF GetRequestIds, PutAborted
<1>5. CASE at'[c] = at[c] + 1 /\ snapshot'[c] = snapshot[c]
  <2>1. DealtWith(c)' = DealtWith(c) \union {Current(c)}
    BY <1>1, <1>5 DEF DealtWith, Current
  <2>2. PutAborted(c) \/ GetContext(c)
    <3>1. at'[c] # at[c]
      BY <1>1, <1>5
    <3>2. Run(c) \/ RequestFails(c) \/ Alarm(c)
      BY <3>1, ClientFacts, AmbariFacts DEF Next, vars
    <3>3. QED
      BY <3>1, <3>2 DEF Run, Discover, GetRequestIds, Post, Watch, RequestFails, Alarm
  <2>3. QED
    BY <1>2, <1>1, <1>5, <2>1, <2>2 DEF GetContext
<1>6. QED
  <2>1. CASE Run(c) \/ RequestFails(c) \/ Alarm(c)
    BY <1>1, <1>3, <1>4, <1>5, <2>1 DEF Run, Discover, GetContext, PutAborted, Post, Watch,
       RequestFails, Alarm, NextId
  <2>2. CASE ~(Run(c) \/ RequestFails(c) \/ Alarm(c))
    BY <1>3, <2>2, ClientFacts, AmbariFacts DEF Next, vars
  <2>3. QED
    BY <2>1, <2>2

(* Only the PUT of a run aborts anything.                                  *)
LEMMA WhoAborts ==
    ASSUME TypeOK, [Next]_vars, NEW i \in DOMAIN requests', requests'[i].status = "ABORTED",
           ~(i \in DOMAIN requests /\ requests[i].status = "ABORTED")
    PROVE  \E c \in Clients : /\ PutAborted(c) \/ RequestFails(c)
                              /\ pc[c] = "put" /\ i = Current(c) /\ i \in DOMAIN requests
<1>1. requests \in Seq(RequestType) /\ requests' # requests
  BY DEF TypeOK
<1>2. ASSUME NEW c \in Clients, Run(c) \/ RequestFails(c) \/ Alarm(c)
      PROVE  /\ PutAborted(c) \/ RequestFails(c)
             /\ pc[c] = "put" /\ i = Current(c) /\ i \in DOMAIN requests
  <2>1. pc[c] = "put" /\ Abort(Current(c))
    BY <1>1, <1>2, ClientFacts
  <2>2. Current(c) \in DOMAIN requests
    BY <2>1, CurrentIsId DEF TypeOK
  <2>3. i = Current(c)
    BY <2>1, <2>2, AbortFacts
  <2>4. PutAborted(c) \/ RequestFails(c)
    BY <1>1, <1>2, <2>1 DEF Run, Discover, GetRequestIds, GetContext, Post, Watch, Alarm, ambari
  <2>5. QED
    BY <2>1, <2>2, <2>3, <2>4
<1>3. ASSUME NEW r, r.status = "PENDING", requests' = Append(requests, r) PROVE FALSE
  BY <1>1, <1>3
<1>4. ASSUME NEW s \in DOMAIN schedules, PostBatchRequest(s) PROVE FALSE
  BY <1>3, <1>4 DEF PostBatchRequest
<1>5. ASSUME OtherRequest PROVE FALSE
  BY <1>3, <1>5 DEF OtherRequest
<1>6. ASSUME NEW j \in DOMAIN requests, FinishRequest(j) PROVE FALSE
  <2>1. PICK status \in {"COMPLETED", "FAILED"} : requests' = [requests EXCEPT ![j].status = status]
    BY <1>6 DEF FinishRequest
  <2>2. i \in DOMAIN requests /\ requests[j] \in RequestType
    BY <1>1, <2>1
  <2>3. QED
    BY <1>1, <2>1, <2>2 DEF RequestType
<1>7. QED
  BY <1>1, <1>2, <1>4, <1>5, <1>6 DEF Next, Ambari, CloseSchedule, vars, ambari

LEMMA OnlyListedStep == IInv /\ [Next]_vars => OnlyListedChecksAborted'
<1> SUFFICES ASSUME IInv, [Next]_vars, NEW i \in DOMAIN requests', requests'[i].status = "ABORTED"
             PROVE  /\ requests'[i].context = "check"
                    /\ \E c \in Clients :
                         \/ i \in DealtWith(c)'
                         \/ exit'[c] \in {"1", "2"} /\ at'[c] < Len(snapshot'[c]) /\ i = Current(c)'
  BY DEF OnlyListedChecksAborted
<1>0. TypeOK /\ Phases /\ LookedAt /\ OnlyListedChecksAborted
  BY DEF IInv
<1>1. CASE i \in DOMAIN requests /\ requests[i].status = "ABORTED"
  <2>1. requests'[i].context = "check"
    BY <1>0, <1>1, RequestsGrow DEF OnlyListedChecksAborted
  <2>2. PICK c \in Clients :
           i \in DealtWith(c) \/ (exit[c] \in {"1", "2"} /\ at[c] < Len(snapshot[c]) /\ i = Current(c))
    BY <1>0, <1>1 DEF OnlyListedChecksAborted
  <2>3. CASE i \in DealtWith(c)
    BY <1>0, <2>1, <2>3, DealtWithGrows
  <2>4. CASE exit[c] \in {"1", "2"} /\ at[c] < Len(snapshot[c]) /\ i = Current(c)
    <3>1. pc[c] = "done"
      BY <1>0, <2>4 DEF TypeOK
    <3>2. QED
      BY <1>0, <2>1, <2>4, <3>1, DoneStays DEF Current
  <2>5. QED
    BY <2>2, <2>3, <2>4
<1>2. CASE ~(i \in DOMAIN requests /\ requests[i].status = "ABORTED")
  <2>1. PICK c \in Clients : /\ PutAborted(c) \/ RequestFails(c)
                             /\ pc[c] = "put" /\ i = Current(c) /\ i \in DOMAIN requests
    BY <1>0, <1>2, WhoAborts
  <2>2. requests'[i].context = "check"
    BY <1>0, <2>1, RequestsGrow DEF LookedAt
  <2>3. CASE PutAborted(c)
    BY <1>0, <2>1, <2>2, <2>3, DealtWithGrows
  <2>4. CASE RequestFails(c)
    <3>1. exit'[c] \in {"1", "2"} /\ at' = at /\ snapshot' = snapshot /\ at[c] < Len(snapshot[c])
      BY <1>0, <2>1, <2>4 DEF RequestFails, End, TypeOK
    <3>2. QED
      BY <2>1, <2>2, <3>1 DEF Current
  <2>5. QED
    BY <2>1, <2>3, <2>4
<1>3. QED
  BY <1>1, <1>2

LEMMA NoneLeftStep == IInv /\ [Next]_vars => NoneLeftPending'
<1> SUFFICES ASSUME IInv, [Next]_vars, NEW c \in Clients
             PROVE  /\ \A i \in DealtWith(c)' :
                         requests'[i].context = "check" => requests'[i].status # "PENDING"
                    /\ (exit'[c] = "0" /\ job'[c].op = "cancel") => DealtWith(c)' = Listed(c)'
  BY DEF NoneLeftPending
<1>0. TypeOK /\ Phases /\ NoneLeftPending
  BY DEF IInv
<1>1. ASSUME NEW i \in DealtWith(c)', requests'[i].context = "check"
      PROVE  requests'[i].status # "PENDING"
  <2>1. CASE i \in DealtWith(c)
    BY <1>0, <1>1, <2>1, RequestsGrow, DealtWithGrows DEF NoneLeftPending
  <2>2. CASE i \notin DealtWith(c)
    <3>1. i = Current(c)
      BY <1>0, <1>1, <2>2, DealtWithGrows
    <3>2. PutAborted(c) \/ (pc[c] = "look" /\ requests[i].context # "check")
      BY <1>0, <1>1, <2>2, <3>1, DealtWithGrows
    <3>3. i \in DOMAIN requests
      BY <1>0, <3>1, <3>2, CurrentIsId DEF TypeOK, PutAborted
    <3>4. CASE PutAborted(c)
      BY <1>0, <3>1, <3>3, <3>4, AbortFacts DEF PutAborted
    <3>5. QED
      BY <1>0, <1>1, <3>2, <3>3, <3>4, RequestsGrow
  <2>3. QED
    BY <2>1, <2>2
<1>2. ASSUME exit'[c] = "0", job'[c].op = "cancel"
      PROVE  DealtWith(c)' = Listed(c)'
  <2>1. CASE exit[c] = "0"
    <3>1. pc[c] = "done"
      BY <1>0, <2>1 DEF TypeOK
    <3>2. job' = job /\ snapshot'[c] = snapshot[c] /\ at'[c] = at[c]
      BY <1>0, <3>1, DoneStays
    <3>3. DealtWith(c) = Listed(c)
      BY <1>0, <1>2, <2>1, <3>2 DEF NoneLeftPending
    <3>4. DealtWith(c)' = DealtWith(c) /\ Listed(c)' = Listed(c)
      BY <3>2 DEF DealtWith, Listed
    <3>5. QED
      BY <3>3, <3>4
  <2>2. CASE exit[c] # "0"
    <3>1. Run(c)
      BY <1>0, <1>2, <2>2, ClientFacts, AmbariFacts DEF Next, vars, RequestFails, Alarm, End, TypeOK
    <3>2. /\ snapshot'[c] \in Seq(DOMAIN requests') /\ job' = job
          /\ at'[c] = Len(snapshot'[c])
      <4>1. snapshot'[c] \in Seq(DOMAIN requests') /\ job' = job
        BY <1>0, <3>1, CleanStep, ClientFacts DEF Clean
      <4>2. GetRequestIds(c) \/ GetContext(c) \/ PutAborted(c)
        BY <1>0, <1>2, <2>2, <3>1, <4>1
           DEF Run, Discover, Post, Watch, Phases, End, Goto, TypeOK
      <4>3. CASE GetRequestIds(c)
        BY <1>0, <1>2, <2>2, <4>3 DEF GetRequestIds, Phases, TypeOK, Goto
      <4>4. CASE GetContext(c) \/ PutAborted(c)
        <5>1. NextId(c) /\ snapshot' = snapshot
          BY <1>0, <1>2, <2>2, <4>4 DEF GetContext, PutAborted, Goto, TypeOK
        <5>2. at'[c] = Len(snapshot[c])
          BY <1>0, <1>2, <2>2, <5>1 DEF NextId, Goto
        <5>3. QED
          BY <4>1, <5>1, <5>2
      <4>5. QED
        BY <4>1, <4>2, <4>3, <4>4
    <3>3. QED
      BY <3>2 DEF DealtWith, Listed
  <2>3. QED
    BY <2>1, <2>2
<1>3. QED
  BY <1>1, <1>2

LEMMA WaitMeansDoneStep == IInv /\ [Next]_vars => WaitMeansDone'
<1> SUFFICES ASSUME IInv, [Next]_vars, NEW c \in Clients,
                    job'[c].wait, job'[c].op = "request", exit'[c] = "0"
             PROVE  \E s \in DOMAIN schedules' :
                       /\ schedules'[s].by = c
                       /\ \A k \in DOMAIN schedules'[s].items : Ended(schedules[s].items[k])'
  BY DEF WaitMeansDone
<1>0. TypeOK /\ Phases /\ OwnSchedule /\ WaitMeansDone
  BY DEF IInv
<1>1. ASSUME NEW s \in DOMAIN schedules, schedules[s].by = c,
             \A k \in DOMAIN schedules[s].items : Ended(schedules[s].items[k])
      PROVE  /\ s \in DOMAIN schedules' /\ schedules'[s].by = c
             /\ \A k \in DOMAIN schedules'[s].items : Ended(schedules[s].items[k])'
  <2>1. s \in DOMAIN schedules' /\ schedules'[s].by = c /\ schedules'[s].items = schedules[s].items
    BY <1>0, <1>1, SchedulesGrow
  <2>2. schedules[s] \in ScheduleType(DOMAIN requests)
    BY <1>0, <1>1 DEF TypeOK
  <2>3. ASSUME NEW k \in DOMAIN schedules'[s].items, NEW i, i = schedules'[s].items[k]
        PROVE  i # 0 /\ requests'[i].status # "PENDING"
    <3>1. i \in {0} \union DOMAIN requests /\ i # 0 /\ requests[i].status # "PENDING"
      BY <1>1, <2>1, <2>2, <2>3 DEF ScheduleType, Ended
    <3>2. QED
      BY <1>0, <3>1, RequestsGrow
  <2>4. QED
    BY <2>1, <2>3 DEF Ended
<1>2. CASE exit[c] = "0"
  <2>1. job' = job
    BY <1>0, <1>2, DoneStays DEF TypeOK
  <2>2. QED
    BY <1>0, <1>1, <1>2, <2>1 DEF WaitMeansDone
<1>3. CASE exit[c] # "0"
  <2>1. Run(c) /\ job' = job
    BY <1>0, <1>3, ClientFacts, AmbariFacts DEF Next, vars, RequestFails, Alarm, End, TypeOK
  <2>2. Watch(c)
    BY <1>0, <1>3, <2>1 DEF Run, Discover, GetRequestIds, GetContext, PutAborted, Post, NextId,
       Phases, End, Goto, TypeOK
  <2>3. PICK s \in sched[c] : ParseScheduledRequest(s) = "COMPLETED"
    BY <2>2 DEF Watch
  <2>4. s \in DOMAIN schedules /\ schedules[s].status = "COMPLETED"
    BY <1>0, <2>3 DEF ParseScheduledRequest, TypeOK
  <2>5. QED
    BY <1>0, <1>1, <2>3, <2>4 DEF OwnSchedule
<1>4. QED
  BY <1>2, <1>3

-----------------------------------------------------------------------------
(* The inductive invariant holds at first, and every step keeps it.        *)
LEMMA IInvInit == Init => IInv
<1> SUFFICES ASSUME Init PROVE IInv
  OBVIOUS
<1>1. /\ requests \in Seq([context : Context, status : RequestStatus \ {"ABORTED"}])
      /\ requests \in Seq(RequestType)
  <2>1. [context : Context, status : RequestStatus \ {"ABORTED"}] \subseteq RequestType
    BY DEF RequestType
  <2>2. requests \in Seq([context : Context, status : RequestStatus \ {"ABORTED"}])
    BY BacklogAssumption DEF Init
  <2>3. QED
    BY <2>1, <2>2, SeqMonotonic
<1>2. TypeOK
  <2>1. /\ pc \in [Clients -> {"discover", "list", "look", "put", "post", "watch", "done"}]
        /\ exit \in [Clients -> {"running", "0", "1", "2", "3"}]
        /\ at \in [Clients -> Nat]
    BY DEF Init
  <2>2. snapshot \in [Clients -> Seq(DOMAIN requests)]
    <3>1. <<>> \in Seq(DOMAIN requests)
      OBVIOUS
    <3>2. QED
      BY <3>1 DEF Init
  <2>3. schedules \in Seq(ScheduleType(DOMAIN requests))
    BY DEF Init
  <2>4. sched \in [Clients -> SUBSET DOMAIN schedules]
    BY DEF Init
  <2>5. ASSUME NEW c \in Clients
        PROVE  /\ exit[c] = "running" <=> pc[c] # "done"
               /\ at[c] <= Len(snapshot[c])
               /\ pc[c] \notin {"look", "put", "watch"}
    <3>1. at[c] = 0 /\ snapshot[c] = <<>> /\ pc[c] = "discover" /\ exit[c] = "running"
      BY DEF Init
    <3>2. QED
      BY <3>1
  <2>6. job \in Jobs /\ others \in 0..MaxOther /\ errors \in 0..MaxErrors
    BY BoundsAssumption DEF Init
  <2>7. QED
    BY <1>1, <2>1, <2>2, <2>3, <2>4, <2>5, <2>6 DEF TypeOK
<1>3. \A i \in DOMAIN requests : requests[i].status # "ABORTED"
  <2>1. ASSUME NEW i \in DOMAIN requests PROVE requests[i].status # "ABORTED"
    <3> DEFINE AtFirst == [context : Context, status : RequestStatus \ {"ABORTED"}]
    <3>0. requests \in Seq(AtFirst)
      BY <1>1
    <3> HIDE DEF AtFirst
    <3>1. requests[i] \in AtFirst
      BY <3>0
    <3>2. requests[i].status \in RequestStatus \ {"ABORTED"}
      BY <3>1 DEF AtFirst
    <3>3. QED
      BY <3>2
  <2>2. QED
    BY <2>1
<1>4. Phases /\ LookedAt /\ OwnSchedule
  <2>1. Phases /\ LookedAt
    BY DEF Init, Phases, LookedAt
  <2>2. DOMAIN schedules = {} /\ \A c \in Clients : sched[c] = {}
    BY DEF Init
  <2>3. OwnSchedule
    BY <2>2 DEF OwnSchedule
  <2>4. QED
    BY <2>1, <2>3
<1>5. OnlyListedChecksAborted /\ NoneLeftPending /\ WaitMeansDone
  BY <1>3 DEF Init, OnlyListedChecksAborted, NoneLeftPending, WaitMeansDone, DealtWith
<1>6. QED
  BY <1>2, <1>4, <1>5 DEF IInv

LEMMA IInvStep == IInv /\ [Next]_vars => IInv'
BY TypeStep, PhasesStep, LookedAtStep, OwnScheduleStep, OnlyListedStep, NoneLeftStep,
   WaitMeansDoneStep DEF IInv

(* The inductive invariant of the program and Ambari together.             *)
THEOREM Invariance == Spec => []IInv
BY IInvInit, IInvStep, PTL DEF Spec

(* The variables have their types, and a watching run has something to     *)
(* watch.                                                                  *)
THEOREM TypeCorrect == Spec => []TypeOK
BY Invariance, PTL DEF IInv

(* Only service checks are aborted, and only those a --cancel run has come *)
(* to, whatever else is requested meanwhile.  (cancel_service_checks)      *)
THEOREM CancelTouchesNothingElse == Spec => []OnlyListedChecksAborted
BY Invariance, PTL DEF IInv

(* A --cancel run leaves no check of its list pending behind it.           *)
THEOREM CancelIsComplete == Spec => []NoneLeftPending
BY Invariance, PTL DEF IInv

(* With --wait, exit code 0 means that the batch is over.                  *)
THEOREM WaitTheorem == Spec => []WaitMeansDone
BY Invariance, PTL DEF IInv
=============================================================================
