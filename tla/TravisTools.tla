----------------------------- MODULE TravisTools -----------------------------
(* travis_last_log.py prints the logs of the newest builds of a repository; *)
(* travis_debug_session.py restarts a failed job in debug mode and polls its *)
(* log for the address to ssh to.  Both look up a build first and its jobs, *)
(* one by one, afterwards, while Travis CI goes on: jobs end, their logs    *)
(* grow, others restart jobs, new builds come up.                           *)
EXTENDS Naturals, Sequences, FiniteSets, SequencesExt, FiniteSetsExt

CONSTANTS
    Runs,       \* how a program may be started, see RunsAssumption
    Builds,     \* the builds there may be, latest first
    Jobs,       \* job -> [state, status, debug, runs, log]
    NewBuild,   \* a build that is not there yet
    MaxTries,   \* max_tries: a quarter of the timeout
    MaxTravis   \* bound: what Travis CI does meanwhile

(* status: "0" if the job passed.  runs: how often the job was started.     *)
(* log: of which run, what is in it, and whether its last line is there.    *)
LogType == [run : Nat, content : {"empty", "text", "address"}, ended : BOOLEAN]
JobType ==
    [state : {"started", "finished"}, status : {"none", "0", "1"}, debug : BOOLEAN,
     runs : Nat, log : LogType]
BuildType == [number : Nat \ {0}, jobs : Seq(DOMAIN Jobs)]
OutputType == [number : Nat, job : DOMAIN Jobs, seen : Nat, log : LogType]
ListedType == [number : Nat \ {0}, jobs : Seq(DOMAIN Jobs), wanted : BOOLEAN]

(* The log there is of a job is never of a later run than the job's, and    *)
(* one that has not ended is of a run that has not ended.                   *)
LogIsOfARun(job) ==
    /\ job.log.run <= job.runs
    /\ ~job.log.ended => job.state = "started" /\ job.log.run = job.runs

(* job, repo: the options; arg: the argument; checkout: in a git clone.     *)
ASSUME RunsAssumption ==
    \A r \in Runs :
        /\ r.tool \in {"last_log", "debug_session"}
        /\ r.job \in {"none"} \union DOMAIN Jobs
        /\ r.repo \in BOOLEAN /\ r.checkout \in BOOLEAN
        /\ r.arg \in {"none", "slug", "url"} \union DOMAIN Jobs
        /\ r.url \in DOMAIN Jobs
        /\ r.num \in Nat \ {0}
        /\ {r.completed, r.failed, r.ignore} \subseteq BOOLEAN
ASSUME TravisAssumption ==
    /\ Jobs \in [DOMAIN Jobs -> JobType]
    /\ \A j \in DOMAIN Jobs : LogIsOfARun(Jobs[j])
    /\ Builds \subseteq Seq(BuildType) /\ NewBuild \in BuildType
ASSUME BoundsAssumption == MaxTries \in Nat /\ MaxTravis \in Nat

VARIABLES
    run,                \* how the program was started
    builds, jobs,       \* Travis CI
    changes,            \* how often Travis CI moved meanwhile
    pc,                 \* "options", "builds", "build", "job", "log", "launch",
                        \* "poll", "done"
    job_id,             \* the job that was asked for or found
    listing,            \* the answer with the builds: [number, jobs, wanted]
    chosen, left,       \* which of them are still to come; the jobs left of the current
    seen,               \* of the job kept: how often it had been started
    content,            \* its log if it came with the answer, <<>> otherwise
    output,             \* the logs printed: [number, job, seen, log]
    tries, address,     \* polls made, and the address found: [run, current]
    exit                \* the exit code, "ssh" if ssh was executed

travis == <<builds, jobs, changes>>
search == <<job_id, listing, chosen, left, seen, content>>
vars == <<run, travis, pc, search, output, tries, address, exit>>

Debug == run.tool = "debug_session"

Init ==
    /\ run \in Runs
    /\ builds \in Builds /\ jobs = Jobs
    /\ changes = 0
    /\ pc = "options"
    /\ job_id = "none" /\ listing = <<>> /\ chosen = {} /\ left = <<>>
    /\ seen = 0 /\ content = <<>> /\ output = <<>>
    /\ tries = 0 /\ address = [run |-> 0, current |-> 0]
    /\ exit = "running"

Goto(label) == pc' = label /\ UNCHANGED exit
End(code) == pc' = "done" /\ exit' = code

-----------------------------------------------------------------------------
(* process_options.  An argument with a slash is a repository, except that  *)
(* travis_last_log takes a URL for the job in it.                           *)
JobArg ==
    IF run.arg = "url" THEN (IF Debug THEN "none" ELSE run.url)
    ELSE IF run.arg = "slug" THEN "none" ELSE run.arg
Job == IF run.job # "none" THEN run.job ELSE JobArg
Repo ==
    IF run.repo \/ run.arg = "slug" THEN "given"
    ELSE IF run.arg = "url" THEN "bad" ELSE IF run.checkout THEN "given" ELSE "none"

(* Outside a git clone the except clause of get_local_repo_name logs a      *)
(* variable that has no value.                                              *)
ProcessOptions ==
    /\ pc = "options"
    /\ job_id' = Job
    /\ IF Job # "none" THEN Goto(IF Debug THEN "launch" ELSE "log")
       ELSE IF Repo = "none" THEN End("1") ELSE Goto("builds")
    /\ UNCHANGED <<run, travis, listing, chosen, left, seen, content, output, tries, address>>

(* A request that is not answered as it should be; under Python 3 a log is  *)
(* bytes, which re.sub and split raise a TypeError at.                      *)
RequestFails ==
    /\ \/ pc \in {"job", "log", "launch", "poll"} /\ End("2")
       \/ pc \in {"log", "poll"} /\ End("1")
       \/ pc = "builds" /\ \E code \in {"2", "3"} : End(code)
    /\ UNCHANGED <<run, travis, search, output, tries, address>>

-----------------------------------------------------------------------------
(* Builds.  What the API reports follows from the jobs.                     *)
Failing(j) == jobs[j].state = "finished" /\ jobs[j].status # "0"
State(b) ==
    LET of == {b.jobs[k] : k \in DOMAIN b.jobs} IN
    IF \E j \in of : jobs[j].state = "started" THEN "started"
    ELSE IF \E j \in of : Failing(j) THEN "failed" ELSE "passed"

Descending(bs) == \A i, k \in DOMAIN bs : i < k => bs[k].number < bs[i].number

Wanted(b) ==
    IF run.completed /\ ~Debug THEN State(b) \in {"passed", "failed"}
    ELSE (run.failed \/ Debug) => State(b) = "failed"

Limit == IF Debug THEN 1 ELSE run.num

(* Mutant: builds are counted before they are looked at.                    *)
ParseBuildsCounts(bs) == {k \in DOMAIN bs : bs[k].wanted /\ k <= Limit}

(* parse_builds, parse_latest_failed_build: the newest builds wanted.       *)
ParseBuilds(bs) ==
    {k \in DOMAIN bs : bs[k].wanted /\ Cardinality({i \in 1..(k - 1) : bs[i].wanted}) < Limit}

(* There is no repository of the name that is left of the URL of a job.     *)
NoBuilds ==
    /\ pc = "builds"
    /\ Repo = "bad"
    /\ End("2")
    /\ UNCHANGED <<run, travis, search, output, tries, address>>

GetBuilds ==
    /\ pc = "builds"
    /\ Repo # "bad"
    /\ listing' = [k \in DOMAIN builds |-> [number |-> builds[k].number, jobs |-> builds[k].jobs,
                                           wanted |-> Wanted(builds[k])]]
    /\ chosen' = ParseBuilds(listing')
    /\ IF ~Descending(builds) \/ chosen' = {} THEN End("3") ELSE Goto("build")
    /\ UNCHANGED <<run, travis, job_id, left, seen, content, output, tries, address>>

Current == listing[Min(chosen)]

Build ==
    /\ pc = "build"
    /\ IF chosen = {} THEN End("0") /\ UNCHANGED <<job_id, left>>
       ELSE left' = Current.jobs /\ job_id' = "none" /\ Goto("job")
    /\ UNCHANGED <<run, travis, listing, chosen, seen, content, output, tries, address>>

-----------------------------------------------------------------------------
(* Mutant: whether the job failed is not looked at.                         *)
FitsAny(j) == TRUE

Fits(j) == (run.failed \/ Debug) => Failing(j)

(* The next job of the build: the last one that fits has its log printed,   *)
(* the first one that failed is debugged.                                   *)
GetJob ==
    /\ pc = "job"
    /\ left # <<>>
    /\ LET j == Head(left) IN
       IF Fits(j)
       THEN /\ job_id' = j /\ seen' = jobs[j].runs
            /\ content' \in {<<>>, <<jobs[j].log>>}
       ELSE UNCHANGED <<job_id, seen, content>>
    /\ left' = Tail(left)
    /\ Goto(IF Debug /\ Fits(Head(left)) THEN "launch" ELSE "job")
    /\ UNCHANGED <<run, travis, listing, chosen, output, tries, address>>

(* Mutant: it is not checked whether there is a job.                        *)
JobsDoneAnyway ==
    /\ pc = "job"
    /\ left = <<>>
    /\ Goto("log")
    /\ UNCHANGED <<run, travis, search, output, tries, address>>

(* When no job of a build fits, travis_last_log trips over a variable that  *)
(* has no value.                                                            *)
JobsDone ==
    /\ pc = "job"
    /\ left = <<>>
    /\ IF Debug THEN End("3") ELSE IF job_id = "none" THEN End("1") ELSE Goto("log")
    /\ UNCHANGED <<run, travis, search, output, tries, address>>

(* print_job_log: the log that came with the job, or else the one there is. *)
PrintLog ==
    /\ pc = "log"
    /\ LET log == IF content = <<>> \/ content[1].content = "empty" THEN jobs[job_id].log ELSE content[1]
           number == IF chosen = {} THEN 0 ELSE Current.number
       IN  output' = Append(output, [number |-> number, job |-> job_id, seen |-> seen, log |-> log])
    /\ chosen' = {k \in chosen : k # Min(chosen)}
    /\ content' = <<>>
    /\ IF chosen = {} THEN End("0") ELSE Goto("build")
    /\ UNCHANGED <<run, travis, job_id, listing, left, seen, tries, address>>

-----------------------------------------------------------------------------
Becomes(j, job) == jobs' = [jobs EXCEPT ![j] = job]

(* launch_job: 409 when the job is running, 202 when it is restarted.       *)
LaunchJob ==
    /\ pc = "launch"
    /\ IF jobs[job_id].state = "started"
       THEN UNCHANGED jobs /\ IF run.ignore THEN Goto("poll") ELSE End("2")
       ELSE /\ Becomes(job_id, [jobs[job_id] EXCEPT
                                   !.state = "started", !.debug = TRUE, !.runs = @ + 1])
            /\ Goto("poll")
    /\ UNCHANGED <<run, builds, changes, search, output, tries, address>>

(* Mutant: the address is looked for before the last line.                  *)
PollAddressFirst ==
    /\ pc = "poll"
    /\ tries < MaxTries
    /\ tries' = tries + 1
    /\ LET log == jobs[job_id].log IN
       IF log.content = "address"
       THEN address' = [run |-> log.run, current |-> jobs[job_id].runs] /\ End("ssh")
       ELSE UNCHANGED address /\ IF log.ended THEN End("2") ELSE Goto("poll")
    /\ UNCHANGED <<run, travis, search, output>>

(* Mutant: polls until there is an address.                                 *)
PollForever ==
    /\ pc = "poll"
    /\ UNCHANGED tries
    /\ LET log == jobs[job_id].log IN
       IF log.content # "empty" /\ log.ended THEN End("2") /\ UNCHANGED address
       ELSE IF log.content = "address"
       THEN address' = [run |-> log.run, current |-> jobs[job_id].runs] /\ End("ssh")
       ELSE UNCHANGED address /\ Goto("poll")
    /\ UNCHANGED <<run, travis, search, output>>

(* get_ssh_address_attempt: no log yet, the log of a run that has ended,    *)
(* the address, or a log without one.                                       *)
Poll ==
    /\ pc = "poll"
    /\ tries < MaxTries
    /\ tries' = tries + 1
    /\ LET log == jobs[job_id].log IN
       IF log.content # "empty" /\ log.ended THEN End("2") /\ UNCHANGED address
       ELSE IF log.content = "address"
       THEN address' = [run |-> log.run, current |-> jobs[job_id].runs] /\ End("ssh")
       ELSE UNCHANGED address /\ Goto("poll")
    /\ UNCHANGED <<run, travis, search, output>>

(* Without a single try the variable that is tested has no value.           *)
GiveUp ==
    /\ pc = "poll"
    /\ tries = MaxTries
    /\ End(IF MaxTries = 0 THEN "1" ELSE "2")
    /\ UNCHANGED <<run, travis, search, output, tries, address>>

Alarm ==
    /\ pc # "done"
    /\ End("3")
    /\ UNCHANGED <<run, travis, search, output, tries, address>>

-----------------------------------------------------------------------------
(* Travis CI, and others who use it.                                        *)
TravisMoves ==
    /\ pc # "done"
    /\ changes < MaxTravis
    /\ changes' = changes + 1
    /\ UNCHANGED <<run, pc, search, output, tries, address, exit>>

JobEnds(j) ==
    /\ TravisMoves
    /\ jobs[j].state = "started"
    /\ LET log == jobs[j].log
           last == [run |-> jobs[j].runs, ended |-> TRUE,
                    content |-> IF log.run = jobs[j].runs /\ log.content = "address"
                                THEN "address" ELSE "text"]
       IN  \E s \in {"none", "0", "1"} :
             Becomes(j, [jobs[j] EXCEPT !.state = "finished", !.status = s, !.log = last])
    /\ UNCHANGED builds

(* The log of a job is that of its previous run until Travis CI clears it.  *)
LogMoves(j) ==
    /\ TravisMoves
    /\ jobs[j].state = "started"
    /\ jobs[j].log.run # jobs[j].runs \/ jobs[j].log.content # (IF jobs[j].debug THEN "address" ELSE "text")
    /\ LET log == jobs[j].log
           next == IF log.run # jobs[j].runs
                   THEN [run |-> jobs[j].runs, content |-> "empty", ended |-> FALSE]
                   ELSE [log EXCEPT !.content = IF @ = "empty" THEN "text" ELSE "address"]
       IN  Becomes(j, [jobs[j] EXCEPT !.log = next])
    /\ UNCHANGED builds

Restart(j) ==
    /\ TravisMoves
    /\ jobs[j].state = "finished"
    /\ Becomes(j, [jobs[j] EXCEPT !.state = "started", !.runs = @ + 1, !.debug = FALSE])
    /\ UNCHANGED builds

BuildStarts ==
    /\ TravisMoves
    /\ ~Contains(builds, NewBuild)
    /\ builds' = <<NewBuild>> \o builds
    /\ UNCHANGED jobs

Program ==
    \/ ProcessOptions \/ NoBuilds \/ GetBuilds \/ Build \/ GetJob \/ JobsDone
    \/ PrintLog \/ LaunchJob \/ Poll \/ GiveUp

Next ==
    \/ Program \/ RequestFails \/ Alarm
    \/ \E j \in UNION {{b.jobs[k] : k \in DOMAIN b.jobs} : b \in {builds[i] : i \in DOMAIN builds}} :
         JobEnds(j) \/ LogMoves(j) \/ Restart(j)
    \/ BuildStarts

(* A request is answered, if it does not fail, and the program goes on.     *)
Spec == Init /\ [][Next]_vars /\ WF_vars(Program)

-----------------------------------------------------------------------------
(* The type invariant; a log is always that of a run of its job.            *)
TypeOK ==
    /\ run \in Runs
    /\ builds \in Seq(BuildType)
    /\ jobs \in [DOMAIN Jobs -> JobType] /\ \A j \in DOMAIN Jobs : LogIsOfARun(jobs[j])
    /\ changes \in 0..MaxTravis
    /\ pc \in {"options", "builds", "build", "job", "log", "launch", "poll", "done"}
    /\ job_id \in {"none"} \union DOMAIN Jobs
    /\ pc \in {"log", "launch", "poll"} => job_id \in DOMAIN Jobs
    /\ pc \in {"launch", "poll"} => Debug
    /\ pc = "log" => ~Debug
    /\ listing \in Seq(ListedType)
    /\ chosen \subseteq DOMAIN listing /\ Cardinality(chosen) <= Limit
    /\ left \in Seq(DOMAIN Jobs)
    /\ seen \in Nat
    /\ content = <<>> \/ content \in [{1} -> LogType]
    /\ output \in Seq(OutputType)
    /\ tries \in 0..MaxTries
    /\ address \in [run : Nat, current : Nat]
    /\ exit \in {"running", "0", "1", "2", "3", "ssh"}
    /\ exit = "running" <=> pc # "done"

(* ssh is executed with the address of the run that is in progress, never   *)
(* with the one a former debug session left in the log: that log ends with  *)
(* the line that says so.  (get_ssh_address_attempt)                        *)
AddressIsLive == exit = "ssh" => address.run = address.current

(* Of the builds listed, the newest num that are wanted have a log printed  *)
(* each, in order, unless the program says it failed.  (parse_builds)       *)
NewestWanted ==
    (exit = "0" /\ listing # <<>>) =>
        LET wanted == {listing[k].number : k \in {i \in DOMAIN listing : listing[i].wanted}}
            printed == {output[k].number : k \in DOMAIN output}
        IN  /\ \A i, k \in DOMAIN output : i < k => output[k].number < output[i].number
            /\ printed \subseteq wanted
            /\ \A n \in wanted \ printed : Len(output) = run.num /\ \A p \in printed : n < p

(* With --failed a log printed is that of a run that failed, from beginning *)
(* to end, or of a run started after the job had been looked at.            *)
(* (print_log, print_job_log)                                               *)
FailedLogIsWhole ==
    (run.failed /\ run.job = "none") =>
        \A k \in DOMAIN output :
            output[k].number # 0 =>
                \/ output[k].log.run > output[k].seen
                \/ output[k].log.ended

-----------------------------------------------------------------------------
(* What the invariants rest on.  Where the program is, and where it is not. *)
Phases ==
    /\ pc \in {"options", "builds"} =>
         listing = <<>> /\ chosen = {} /\ output = <<>> /\ content = <<>>
    /\ pc \in {"build", "job"} => listing # <<>>
    /\ pc = "job" \/ (pc = "build" /\ Debug) => chosen # {}
    /\ pc = "log" => (chosen = {} <=> listing = <<>>)
    /\ exit = "0" => ~Debug /\ chosen = {}
    /\ pc = "log" /\ chosen # {} => job_id # "none"

(* The builds printed are those of the newest wanted that are not still to  *)
(* come, from the newest on.                                                *)
Printed == ParseBuilds(listing) \ chosen
InOrder ==
    pc \in {"build", "job", "log"} \/ (exit = "0" /\ listing # <<>>) =>
        /\ Descending(listing)
        /\ chosen \subseteq ParseBuilds(listing)
        /\ \A i \in Printed, k \in chosen : i < k
        /\ listing # <<>> =>
             /\ Len(output) = Cardinality(Printed)
             /\ {output[n].number : n \in DOMAIN output} = {listing[k].number : k \in Printed}
             /\ \A i, k \in DOMAIN output : i < k => output[k].number < output[i].number

(* With --failed, the job kept had failed when it was looked at, and so had *)
(* its log ended if it came with the answer; if it runs again, it does so   *)
(* for the next time.                                                       *)
KeptHadFailed ==
    run.failed =>
        /\ \A k \in DOMAIN content : content[k].ended
        /\ (chosen # {} /\ pc \in {"job", "log"} /\ job_id # "none") =>
             \/ jobs[job_id].runs > seen
             \/ jobs[job_id].runs = seen /\ jobs[job_id].state = "finished"

IInv == TypeOK /\ Phases /\ InOrder /\ KeptHadFailed /\ AddressIsLive /\ FailedLogIsWhole

-----------------------------------------------------------------------------
(* The program ends, whatever Travis CI does.  (max_tries)                  *)
Terminates == <>(pc = "done")
=============================================================================
