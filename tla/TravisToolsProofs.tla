-------------------------- MODULE TravisToolsProofs --------------------------
(* Proofs about TravisTools: the address handed to ssh is live, the newest  *)
(* builds wanted are the ones printed, and a log printed with --failed is   *)
(* that of a whole run, for any number of builds, jobs and tries and        *)
(* whatever Travis CI does meanwhile.                                       *)
EXTENDS TravisTools, FiniteSetTheorems, SequenceTheorems, TLAPS

(* Numbers: a set of them has a least one, and a bounded one a greatest.    *)
LEMMA LeastNumber ==
    ASSUME NEW T \in SUBSET Nat, T # {}
    PROVE  \E n \in T : \A m \in T : n <= m
<1> DEFINE Upto == {0..n : n \in T}
           Less == StrictSubsetOrdering(Nat)
<1>1. Upto \subseteq FiniteSubsetsOf(Nat)
  <2>1. ASSUME NEW n \in T PROVE 0..n \subseteq Nat /\ IsFiniteSet(0..n)
    BY FS_Interval
  <2>2. QED
    BY <2>1 DEF FiniteSubsetsOf
<1>2. IsWellFoundedOn(Less, FiniteSubsetsOf(Nat))
  BY FS_StrictSubsetOrderingWellFounded
<1>3. PICK D \in Upto : \A E \in Upto : <<E, D>> \notin Less
  <2>1. Upto # {}
    OBVIOUS
  <2> HIDE DEF Upto, Less
  <2>2. QED
    BY <1>1, <1>2, <2>1, WFMin
<1>4. PICK n \in T : D = 0..n
  BY <1>3
<1>5. ASSUME NEW m \in T, m < n PROVE FALSE
  <2>1. 0..m \in Upto /\ 0..m \subseteq 0..n /\ 0..m # 0..n /\ 0..m \subseteq Nat /\ 0..n \subseteq Nat
    BY <1>5
  <2>2. <<0..m, 0..n>> \in Less
    BY <2>1 DEF StrictSubsetOrdering
  <2>3. QED
    BY <1>3, <1>4, <2>1, <2>2
<1>6. QED
  BY <1>4, <1>5

LEMMA GreatestNumber ==
    ASSUME NEW T \in SUBSET Nat, T # {}, NEW bound \in Nat, \A m \in T : m <= bound
    PROVE  \E n \in T : \A m \in T : m <= n
<1> DEFINE Above == {n \in Nat : \A m \in T : m <= n}
<1>1. PICK n \in Above : \A k \in Above : n <= k
  BY LeastNumber, bound \in Above
<1>2. ASSUME n \notin T PROVE FALSE
  <2>1. n # 0
    <3>1. PICK m \in T : m <= n
      BY <1>1
    <3>2. QED
      BY <1>2, <3>1
  <2>2. n - 1 \in Above
    BY <1>1, <1>2, <2>1
  <2>3. QED
    BY <1>1, <2>2
<1>3. QED
  BY <1>1, <1>2

LEMMA MinIsLeast ==
    ASSUME NEW T \in SUBSET Nat, T # {}
    PROVE  Min(T) \in T /\ \A m \in T : Min(T) <= m
BY LeastNumber DEF Min

-----------------------------------------------------------------------------
(* parse_builds.                                                            *)
WantedBefore(bs, k) == {i \in 1..(k - 1) : bs[i].wanted}

LEMMA BeforeGrows ==
    ASSUME NEW bs, NEW i \in Nat, NEW k \in Nat, i <= k
    PROVE  /\ IsFiniteSet(WantedBefore(bs, k))
           /\ Cardinality(WantedBefore(bs, k)) \in Nat
           /\ Cardinality(WantedBefore(bs, i)) <= Cardinality(WantedBefore(bs, k))
<1>1. IsFiniteSet(1..(k - 1))
  BY FS_Interval
<1>2. WantedBefore(bs, k) \subseteq 1..(k - 1)
  BY DEF WantedBefore
<1>3. IsFiniteSet(WantedBefore(bs, k))
  BY <1>1, <1>2, FS_Subset
<1>4. WantedBefore(bs, i) \subseteq WantedBefore(bs, k)
  BY DEF WantedBefore
<1>5. QED
  BY <1>3, <1>4, FS_Subset, FS_CardinalityType

(* What is picked are the first builds wanted, at most as many as asked     *)
(* for; if it leaves one out then it is as many, all of them newer.         *)
THEOREM PicksTheNewest ==
    ASSUME NEW bs \in Seq(ListedType), Limit \in Nat \ {0}
    PROVE  /\ ParseBuilds(bs) \subseteq DOMAIN bs
           /\ IsFiniteSet(ParseBuilds(bs)) /\ Cardinality(ParseBuilds(bs)) <= Limit
           /\ Cardinality(ParseBuilds(bs)) \in Nat
           /\ \A k \in DOMAIN bs : (bs[k].wanted /\ k \notin ParseBuilds(bs)) =>
                /\ Cardinality(ParseBuilds(bs)) = Limit
                /\ \A i \in ParseBuilds(bs) : i < k
<1> DEFINE Picked == ParseBuilds(bs)
<1>0. \A i, k : i \in WantedBefore(bs, k) <=> i \in 1..(k - 1) /\ bs[i].wanted
  BY DEF WantedBefore
<1>1. \A k : k \in Picked <=>
        k \in DOMAIN bs /\ bs[k].wanted /\ Cardinality(WantedBefore(bs, k)) < Limit
  BY DEF ParseBuilds, WantedBefore
<1> HIDE DEF Picked
<1>2. DOMAIN bs = 1..Len(bs) /\ Len(bs) \in Nat /\ Picked \subseteq 1..Len(bs)
  BY <1>1
<1>3. IsFiniteSet(Picked)
  <2>1. IsFiniteSet(1..Len(bs))
    BY <1>2, FS_Interval
  <2>2. QED
    BY <1>2, <2>1, FS_Subset
<1>4. ASSUME NEW i \in DOMAIN bs, bs[i].wanted, NEW k \in Picked, i <= k
      PROVE  i \in Picked
  BY <1>1, <1>2, <1>4, BeforeGrows
<1>5. Cardinality(Picked) \in Nat /\ Cardinality(Picked) <= Limit
  <2>1. CASE Picked = {}
    BY <2>1, FS_EmptySet DEF Limit
  <2>2. CASE Picked # {}
    <3>1. PICK m \in Picked : \A k \in Picked : k <= m
      <4>1. Picked \in SUBSET Nat /\ \A k \in Picked : k <= Len(bs)
        BY <1>2
      <4>2. QED
        BY <1>2, <2>2, <4>1, GreatestNumber
    <3>2. Picked = WantedBefore(bs, m) \union {m} /\ m \notin WantedBefore(bs, m)
      <4>1. Picked \subseteq WantedBefore(bs, m) \union {m}
        BY <1>0, <1>1, <1>2, <3>1
      <4>2. WantedBefore(bs, m) \union {m} \subseteq Picked
        BY <1>0, <1>2, <1>4, <3>1
      <4>3. m \notin WantedBefore(bs, m)
        BY <1>0, <1>2
      <4>4. QED
        BY <4>1, <4>2, <4>3
    <3>3. IsFiniteSet(WantedBefore(bs, m)) /\ Cardinality(WantedBefore(bs, m)) \in Nat
      BY <1>2, <3>1, BeforeGrows
    <3>4. Cardinality(Picked) = Cardinality(WantedBefore(bs, m)) + 1
      BY <3>2, <3>3, FS_AddElement
    <3>5. QED
      BY <1>1, <3>1, <3>3, <3>4
  <2>3. QED
    BY <2>1, <2>2
<1>6. ASSUME NEW k \in DOMAIN bs, bs[k].wanted, k \notin Picked
      PROVE  Cardinality(Picked) = Limit /\ \A i \in Picked : i < k
  <2> DEFINE LeftOut == {j \in DOMAIN bs : bs[j].wanted /\ j \notin Picked}
  <2>1. PICK j \in LeftOut : \A i \in LeftOut : j <= i
    <3>1. LeftOut \in SUBSET Nat /\ LeftOut # {}
      BY <1>2, <1>6
    <3> HIDE DEF LeftOut
    <3>2. QED
      BY <3>1, LeastNumber
  <2>2. \A i \in Picked : i < j
    BY <1>2, <1>4, <2>1
  <2>3. Picked = WantedBefore(bs, j)
    <3>1. Picked \subseteq WantedBefore(bs, j)
      BY <1>0, <1>1, <1>2, <2>1, <2>2
    <3>2. WantedBefore(bs, j) \subseteq Picked
      BY <1>0, <1>2, <2>1
    <3>3. QED
      BY <3>1, <3>2
  <2>4. Cardinality(Picked) >= Limit
    BY <1>1, <1>5, <2>1, <2>3
  <2>5. QED
    BY <1>2, <1>5, <2>1, <2>2, <2>4, <1>6
<1>7. QED
  BY <1>1, <1>3, <1>5, <1>6 DEF Picked

-----------------------------------------------------------------------------
(* The options, and the lookups that follow from them.                      *)
LEMMA Options ==
    ASSUME run \in Runs
    PROVE  /\ Limit \in Nat \ {0} /\ run.num \in Nat \ {0}
           /\ Job \in {"none"} \union DOMAIN Jobs
BY RunsAssumption DEF Limit, Job, JobArg, Debug

LEMMA CurrentIsListed ==
    ASSUME TypeOK, chosen # {}
    PROVE  /\ Min(chosen) \in chosen /\ Min(chosen) \in DOMAIN listing
           /\ \A k \in chosen : Min(chosen) <= k
           /\ Current \in ListedType
<1>1. chosen \subseteq DOMAIN listing /\ listing \in Seq(ListedType)
  BY DEF TypeOK
<1>2. chosen \in SUBSET Nat
  BY <1>1
<1>3. Min(chosen) \in chosen /\ \A k \in chosen : Min(chosen) <= k
  BY <1>2, MinIsLeast
<1>4. QED
  BY <1>1, <1>3 DEF Current

LEMMA ChosenIsFinite ==
    ASSUME TypeOK
    PROVE  IsFiniteSet(chosen) /\ Cardinality(chosen) \in Nat
<1>1. chosen \subseteq 1..Len(listing) /\ Len(listing) \in Nat
  BY DEF TypeOK
<1>2. IsFiniteSet(1..Len(listing))
  BY <1>1, FS_Interval
<1>3. QED
  BY <1>1, <1>2, FS_Subset, FS_CardinalityType

(* Jobs: how often one was started only grows, and one that has finished    *)
(* stays so until it is started again.                                      *)
JobsGrow ==
    /\ jobs' \in [DOMAIN Jobs -> JobType]
    /\ \A j \in DOMAIN Jobs :
         /\ LogIsOfARun(jobs'[j])
         /\ jobs'[j].runs >= jobs[j].runs
         /\ (jobs'[j].runs = jobs[j].runs /\ jobs[j].state = "finished")
              => jobs'[j].state = "finished"

LEMMA JobMoves ==
    ASSUME TypeOK, NEW j \in DOMAIN Jobs, NEW job \in JobType, Becomes(j, job),
           LogIsOfARun(job), job.runs >= jobs[j].runs,
           (job.runs = jobs[j].runs /\ jobs[j].state = "finished") => job.state = "finished"
    PROVE  JobsGrow
<1>1. jobs \in [DOMAIN Jobs -> JobType] /\ \A i \in DOMAIN Jobs : LogIsOfARun(jobs[i])
  BY DEF TypeOK
<1>2. jobs' \in [DOMAIN Jobs -> JobType]
  BY <1>1 DEF Becomes
<1>3. ASSUME NEW i \in DOMAIN Jobs
      PROVE  /\ LogIsOfARun(jobs'[i]) /\ jobs'[i].runs >= jobs[i].runs
             /\ (jobs'[i].runs = jobs[i].runs /\ jobs[i].state = "finished")
                  => jobs'[i].state = "finished"
  <2>1. CASE i = j
    BY <1>1, <2>1 DEF Becomes
  <2>2. CASE i # j
    <3>1. jobs'[i] = jobs[i] /\ jobs[i].runs \in Nat
      BY <1>1, <2>2 DEF JobType, Becomes
    <3>2. QED
      BY <1>1, <3>1
  <2>3. QED
    BY <2>1, <2>2
<1>4. QED
  BY <1>2, <1>3 DEF JobsGrow

LEMMA JobSteps ==
    ASSUME TypeOK, NEW j \in DOMAIN Jobs, JobEnds(j) \/ LogMoves(j) \/ Restart(j)
    PROVE  JobsGrow
<1>1. /\ jobs[j] \in JobType /\ jobs[j].log \in LogType /\ LogIsOfARun(jobs[j])
      /\ jobs[j].runs \in Nat /\ jobs[j].log.run \in Nat
  BY DEF TypeOK, JobType, LogType
<1>2. CASE JobEnds(j)
  <2>1. PICK s \in {"none", "0", "1"}, text \in {"text", "address"} :
          Becomes(j, [jobs[j] EXCEPT !.state = "finished", !.status = s,
                        !.log = [run |-> jobs[j].runs, ended |-> TRUE, content |-> text]])
    BY <1>2 DEF JobEnds
  <2> DEFINE log == [run |-> jobs[j].runs, ended |-> TRUE, content |-> text]
             job == [jobs[j] EXCEPT !.state = "finished", !.status = s, !.log = log]
  <2>2. log \in LogType /\ log.run = jobs[j].runs /\ log.ended
    BY <1>1 DEF JobType, LogType
  <2>3. Becomes(j, job)
    BY <2>1
  <2> HIDE DEF log
  <2>4. job \in JobType /\ job.runs = jobs[j].runs /\ job.state = "finished" /\ job.log = log
    BY <1>1, <2>2 DEF JobType
  <2> HIDE DEF job
  <2>5. LogIsOfARun(job) /\ job.runs >= jobs[j].runs
    BY <1>1, <2>2, <2>4 DEF LogIsOfARun
  <2>6. QED
    BY <2>3, <2>4, <2>5, JobMoves
<1>3. CASE LogMoves(j)
  <2>1. PICK log \in LogType :
          Becomes(j, [jobs[j] EXCEPT !.log = log]) /\ log.run = jobs[j].runs
    <3> DEFINE log == IF jobs[j].log.run # jobs[j].runs
                      THEN [run |-> jobs[j].runs, content |-> "empty", ended |-> FALSE]
                      ELSE [jobs[j].log EXCEPT !.content = IF @ = "empty" THEN "text" ELSE "address"]
    <3>1. log \in LogType /\ log.run = jobs[j].runs
      BY <1>1 DEF LogType
    <3>2. Becomes(j, [jobs[j] EXCEPT !.log = log])
      BY <1>3 DEF LogMoves
    <3> HIDE DEF log
    <3>3. QED
      BY <3>1, <3>2
  <2> DEFINE job == [jobs[j] EXCEPT !.log = log]
  <2>2. jobs[j].state = "started" /\ Becomes(j, job)
    BY <1>3, <2>1 DEF LogMoves
  <2>3. job \in JobType /\ job.runs = jobs[j].runs /\ job.state = "started" /\ job.log = log
    BY <1>1, <2>1, <2>2 DEF JobType
  <2> HIDE DEF job
  <2>4. LogIsOfARun(job) /\ job.runs >= jobs[j].runs
    BY <1>1, <2>1, <2>3 DEF LogIsOfARun
  <2>5. QED
    BY <2>2, <2>3, <2>4, JobMoves
<1>4. CASE Restart(j)
  <2> DEFINE job == [jobs[j] EXCEPT !.state = "started", !.runs = @ + 1, !.debug = FALSE]
  <2>1. jobs[j].state = "finished" /\ Becomes(j, job)
    BY <1>4 DEF Restart
  <2>2. job \in JobType /\ job.runs = jobs[j].runs + 1 /\ job.log = jobs[j].log
    <3> DEFINE runs == jobs[j].runs + 1
    <3>1. runs \in Nat
      BY <1>1
    <3>2. job = [jobs[j] EXCEPT !.state = "started", !.debug = FALSE, !.runs = runs]
      BY <1>1 DEF JobType
    <3> HIDE DEF runs, job
    <3>3. job \in JobType /\ job.runs = runs /\ job.log = jobs[j].log
      BY <1>1, <3>1, <3>2 DEF JobType
    <3>4. QED
      BY <3>3 DEF runs
  <2> HIDE DEF job
  <2>3. LogIsOfARun(job) /\ job.runs >= jobs[j].runs /\ job.runs # jobs[j].runs
    BY <1>1, <2>1, <2>2 DEF LogIsOfARun, LogType
  <2>4. QED
    BY <2>1, <2>2, <2>3, JobMoves
<1>5. QED
  BY <1>2, <1>3, <1>4

LEMMA Launches ==
    ASSUME TypeOK, LaunchJob
    PROVE  JobsGrow
<1>1. /\ jobs \in [DOMAIN Jobs -> JobType] /\ job_id \in DOMAIN Jobs
      /\ jobs[job_id] \in JobType /\ jobs[job_id].log \in LogType
      /\ jobs[job_id].runs \in Nat /\ jobs[job_id].log.run \in Nat
      /\ \A i \in DOMAIN Jobs : LogIsOfARun(jobs[i]) /\ jobs[i].runs \in Nat
  BY DEF TypeOK, JobType, LogType, LaunchJob
<1>2. CASE jobs[job_id].state = "started"
  BY <1>1, <1>2 DEF LaunchJob, JobsGrow
<1>3. CASE jobs[job_id].state # "started"
  <2> DEFINE job == [jobs[job_id] EXCEPT !.state = "started", !.debug = TRUE, !.runs = @ + 1]
  <2>1. jobs[job_id].state = "finished" /\ Becomes(job_id, job)
    BY <1>1, <1>3 DEF LaunchJob, JobType
  <2>2. job \in JobType /\ job.runs = jobs[job_id].runs + 1 /\ job.log = jobs[job_id].log
    <3> DEFINE runs == jobs[job_id].runs + 1
    <3>1. runs \in Nat
      BY <1>1
    <3>2. job = [jobs[job_id] EXCEPT !.state = "started", !.debug = TRUE, !.runs = runs]
      BY <1>1 DEF JobType
    <3> HIDE DEF runs, job
    <3>3. job \in JobType /\ job.runs = runs /\ job.log = jobs[job_id].log
      BY <1>1, <3>1, <3>2 DEF JobType
    <3>4. QED
      BY <3>3 DEF runs
  <2> HIDE DEF job
  <2>3. LogIsOfARun(job) /\ job.runs >= jobs[job_id].runs /\ job.runs # jobs[job_id].runs
    BY <1>1, <2>1, <2>2 DEF LogIsOfARun, LogType
  <2>4. QED
    BY <1>1, <2>1, <2>2, <2>3, JobMoves
<1>4. QED
  BY <1>2, <1>3

(* Travis CI leaves the program alone, and all else leaves Travis CI alone. *)
LEMMA WhoMoves ==
    ASSUME TypeOK, [Next]_vars
    PROVE  /\ JobsGrow
           /\ builds' \in Seq(BuildType) /\ changes' \in 0..MaxTravis
           /\ run' = run
           /\ \/ UNCHANGED <<pc, search, output, tries, address, exit>>
              \/ Program \/ RequestFails \/ Alarm
<1>1. builds \in Seq(BuildType) /\ changes \in 0..MaxTravis
  BY DEF TypeOK
<1>2. ASSUME UNCHANGED jobs PROVE JobsGrow
  BY <1>2 DEF TypeOK, JobsGrow, JobType
<1>3. CASE Program \/ RequestFails \/ Alarm
  <2>1. builds' = builds /\ changes' = changes /\ run' = run
    BY <1>3 DEF Program, ProcessOptions, NoBuilds, GetBuilds, Build, GetJob, JobsDone, PrintLog,
       LaunchJob, Poll, GiveUp, RequestFails, Alarm, travis
  <2>2. JobsGrow
    <3>1. CASE LaunchJob
      BY <3>1, Launches
    <3>2. CASE ~LaunchJob
      BY <1>2, <1>3, <3>2 DEF Program, ProcessOptions, NoBuilds, GetBuilds, Build, GetJob, JobsDone,
         PrintLog, Poll, GiveUp, RequestFails, Alarm, travis
    <3>3. QED
      BY <3>1, <3>2
  <2>3. QED
    BY <1>1, <1>3, <2>1, <2>2
<1>4. ASSUME NEW j \in UNION {{b.jobs[k] : k \in DOMAIN b.jobs} : b \in {builds[i] : i \in DOMAIN builds}},
             JobEnds(j) \/ LogMoves(j) \/ Restart(j)
      PROVE  /\ JobsGrow /\ builds' = builds /\ changes' \in 0..MaxTravis /\ run' = run
             /\ UNCHANGED <<pc, search, output, tries, address, exit>>
  <2>1. j \in DOMAIN Jobs
    <3>1. PICK i \in DOMAIN builds : j \in {builds[i].jobs[k] : k \in DOMAIN builds[i].jobs}
      BY <1>4
    <3>2. builds[i] \in BuildType
      BY <1>1
    <3>3. builds[i].jobs \in Seq(DOMAIN Jobs)
      BY <3>2 DEF BuildType
    <3>4. QED
      BY <3>1, <3>3
  <2>2. builds' = builds /\ TravisMoves
    BY <1>4 DEF JobEnds, LogMoves, Restart
  <2>3. QED
    BY <1>1, <1>4, <2>1, <2>2, JobSteps, BoundsAssumption DEF TravisMoves
<1>5. CASE BuildStarts
  <2>1. builds' \in Seq(BuildType)
    <3>1. builds' = <<NewBuild>> \o builds /\ NewBuild \in BuildType
      BY <1>5, TravisAssumption DEF BuildStarts
    <3>2. <<NewBuild>> \in Seq(BuildType)
      BY <3>1
    <3>3. QED
      BY <1>1, <3>1, <3>2, ConcatProperties
  <2>2. QED
    BY <1>1, <1>2, <1>5, <2>1, BoundsAssumption DEF BuildStarts, TravisMoves
<1>6. CASE UNCHANGED vars
  BY <1>1, <1>2, <1>6 DEF vars, travis
<1>7. QED
  BY <1>1, <1>3, <1>4, <1>5, <1>6 DEF Next

-----------------------------------------------------------------------------
(* Types.  ParseBuilds picks positions of the listing, and at most as many  *)
(* as asked for; the rest follows action by action.                         *)
LEMMA GetBuildsTypes ==
    ASSUME TypeOK, GetBuilds
    PROVE  /\ listing' \in Seq(ListedType) /\ DOMAIN listing' = DOMAIN builds
           /\ chosen' = ParseBuilds(listing') /\ chosen' \subseteq DOMAIN listing'
           /\ IsFiniteSet(chosen') /\ Cardinality(chosen') <= Limit
<1>1. builds \in Seq(BuildType) /\ Limit \in Nat \ {0}
  BY Options DEF TypeOK
<1>2. /\ listing' = [k \in DOMAIN builds |-> [number |-> builds[k].number, jobs |-> builds[k].jobs,
                                             wanted |-> Wanted(builds[k])]]
      /\ chosen' = ParseBuilds(listing')
  BY DEF GetBuilds
<1>3. ASSUME NEW k \in DOMAIN builds
      PROVE  [number |-> builds[k].number, jobs |-> builds[k].jobs, wanted |-> Wanted(builds[k])]
               \in ListedType
  <2>1. builds[k] \in BuildType
    BY <1>1
  <2>2. Wanted(builds[k]) \in BOOLEAN
    <3>1. CASE run.completed /\ ~Debug
      BY <3>1 DEF Wanted
    <3>2. CASE ~(run.completed /\ ~Debug)
      BY <3>2 DEF Wanted
    <3>3. QED
      BY <3>1, <3>2
  <2>3. QED
    BY <2>1, <2>2 DEF BuildType, ListedType
<1>4. listing' \in Seq(ListedType) /\ DOMAIN listing' = DOMAIN builds
  <2>1. DOMAIN builds = 1..Len(builds) /\ Len(builds) \in Nat
    BY <1>1
  <2>2. listing' \in [1..Len(builds) -> ListedType]
    BY <1>2, <1>3, <2>1
  <2>3. QED
    BY <2>1, <2>2, SeqDef
<1>5. QED
  BY <1>1, <1>2, <1>4, PicksTheNewest

LEMMA TypeStep == TypeOK /\ [Next]_vars => TypeOK'
<1> SUFFICES ASSUME TypeOK, [Next]_vars PROVE TypeOK'
  OBVIOUS
<1>0. /\ run' \in Runs /\ builds' \in Seq(BuildType) /\ changes' \in 0..MaxTravis
      /\ jobs' \in [DOMAIN Jobs -> JobType] /\ \A j \in DOMAIN Jobs : LogIsOfARun(jobs'[j])
      /\ Debug' = Debug /\ Limit' = Limit /\ Limit \in Nat \ {0}
  BY WhoMoves, Options DEF JobsGrow, Debug, Limit, TypeOK
<1>1. CASE UNCHANGED <<pc, search, output, tries, address, exit>>
  BY <1>0, <1>1 DEF TypeOK, search
<1>2. CASE ProcessOptions
  BY <1>0, <1>2, Options DEF ProcessOptions, Goto, End, TypeOK
<1>3. CASE NoBuilds
  BY <1>0, <1>3 DEF NoBuilds, End, TypeOK, search
<1>4. CASE GetBuilds
  BY <1>0, <1>4, GetBuildsTypes DEF GetBuilds, Goto, End, TypeOK
<1>5. CASE Build
  <2>1. left' \in Seq(DOMAIN Jobs) /\ job_id' \in {"none"} \union DOMAIN Jobs
    BY <1>5, CurrentIsListed DEF Build, TypeOK, ListedType
  <2>2. QED
    BY <1>0, <1>5, <2>1 DEF Build, Goto, End, TypeOK
<1>6. CASE GetJob
  <2>1. Head(left) \in DOMAIN Jobs /\ left' \in Seq(DOMAIN Jobs)
    BY <1>6 DEF GetJob, TypeOK
  <2>2. jobs[Head(left)].runs \in Nat /\ jobs[Head(left)].log \in LogType
    BY <2>1 DEF TypeOK, JobType
  <2>3. content' = <<>> \/ content' \in [{1} -> LogType]
    BY <1>6, <2>2 DEF GetJob, TypeOK
  <2>4. QED
    BY <1>0, <1>6, <2>1, <2>2, <2>3 DEF GetJob, Goto, TypeOK
<1>7. CASE JobsDone
  BY <1>0, <1>7 DEF JobsDone, Goto, End, TypeOK, search
<1>8. CASE PrintLog
  <2>1. job_id \in DOMAIN Jobs /\ jobs[job_id].log \in LogType
    BY <1>8 DEF PrintLog, TypeOK, JobType
  <2>2. PICK log \in LogType, number \in Nat :
          output' = Append(output, [number |-> number, job |-> job_id, seen |-> seen, log |-> log])
    <3>1. content # <<>> => content[1] \in LogType
      BY DEF TypeOK
    <3>2. chosen # {} => Current.number \in Nat
      BY CurrentIsListed DEF ListedType
    <3>3. QED
      BY <1>8, <2>1, <3>1, <3>2 DEF PrintLog
  <2>3. output' \in Seq(OutputType)
    BY <2>1, <2>2 DEF TypeOK, OutputType
  <2>4. chosen' \subseteq chosen /\ Cardinality(chosen') <= Limit
    <3>1. chosen' \subseteq chosen
      BY <1>8 DEF PrintLog
    <3>2. Cardinality(chosen') \in Nat /\ Cardinality(chosen') <= Cardinality(chosen)
      BY <3>1, ChosenIsFinite, FS_Subset, FS_CardinalityType
    <3>3. QED
      BY <1>0, <3>1, <3>2, ChosenIsFinite DEF TypeOK
  <2>5. QED
    BY <1>0, <1>8, <2>3, <2>4 DEF PrintLog, Goto, End, TypeOK
<1>9. CASE LaunchJob
  BY <1>0, <1>9 DEF LaunchJob, Goto, End, TypeOK, search
<1>10. CASE Poll
  <2>1. jobs[job_id].log.run \in Nat /\ jobs[job_id].runs \in Nat
    BY <1>10 DEF Poll, TypeOK, JobType, LogType
  <2>2. address' \in [run : Nat, current : Nat] /\ tries' \in 0..MaxTries
    BY <1>10, <2>1, BoundsAssumption DEF Poll, TypeOK
  <2>3. QED
    BY <1>0, <1>10, <2>2 DEF Poll, Goto, End, TypeOK, search
<1>11. CASE GiveUp
  BY <1>0, <1>11 DEF GiveUp, End, TypeOK, search
<1>12. CASE RequestFails \/ Alarm
  BY <1>0, <1>12 DEF RequestFails, Alarm, End, TypeOK, search
<1>13. QED
  BY <1>1, <1>2, <1>3, <1>4, <1>5, <1>6, <1>7, <1>8, <1>9, <1>10, <1>11, <1>12, WhoMoves
     DEF Program

LEMMA TypeInit == Init => TypeOK
<1> SUFFICES ASSUME Init PROVE TypeOK
  OBVIOUS
<1>1. Limit \in Nat \ {0}
  BY Options DEF Init
<1>2. Cardinality(chosen) = 0
  BY FS_EmptySet DEF Init
<1>3. builds \in Seq(BuildType) /\ jobs \in [DOMAIN Jobs -> JobType]
      /\ \A j \in DOMAIN Jobs : LogIsOfARun(jobs[j])
  BY TravisAssumption DEF Init
<1>4. QED
  BY <1>1, <1>2, <1>3, BoundsAssumption DEF Init, TypeOK

-----------------------------------------------------------------------------
(* The parts of the inductive invariant, one by one.                        *)
LEMMA PhasesStep == TypeOK /\ Phases /\ [Next]_vars => Phases'
<1> SUFFICES ASSUME TypeOK, Phases, [Next]_vars PROVE Phases'
  OBVIOUS
<1>0. run' = run /\ Debug' = Debug
  BY WhoMoves DEF Debug
<1>1. CASE UNCHANGED <<pc, search, output, tries, address, exit>>
  BY <1>0, <1>1 DEF Phases, search
<1>2. CASE ProcessOptions
  BY <1>0, <1>2 DEF ProcessOptions, Goto, End, Phases, TypeOK
<1>3. CASE GetBuilds
  <2>1. chosen' # {} => listing' # <<>>
    BY <1>3, GetBuildsTypes
  <2>2. QED
    BY <1>0, <1>3, <2>1 DEF GetBuilds, Goto, End, Phases, TypeOK
<1>4. CASE Build
  BY <1>0, <1>4 DEF Build, Goto, End, Phases, TypeOK
<1>5. CASE GetJob
  BY <1>0, <1>5 DEF GetJob, Goto, Phases, TypeOK
<1>6. CASE JobsDone
  BY <1>0, <1>6 DEF JobsDone, Goto, End, Phases, TypeOK, search
<1>7. CASE PrintLog
  BY <1>0, <1>7 DEF PrintLog, Goto, End, Phases, TypeOK
<1>8. CASE NoBuilds \/ LaunchJob \/ Poll \/ GiveUp \/ RequestFails \/ Alarm
  BY <1>0, <1>8 DEF NoBuilds, LaunchJob, Poll, GiveUp, RequestFails, Alarm, Goto, End, Phases,
     TypeOK, search
<1>9. QED
  BY <1>1, <1>2, <1>3, <1>4, <1>5, <1>6, <1>7, <1>8, WhoMoves DEF Program

(* One more log: of the newest of the builds still to come.                 *)
LEMMA PrintsTheNext ==
    ASSUME TypeOK, Phases, InOrder, PrintLog, chosen # {}
    PROVE  /\ chosen' = chosen \ {Min(chosen)}
           /\ Min(chosen) \in ParseBuilds(listing) \ Printed
           /\ Len(output') = Len(output) + 1
           /\ \A n \in DOMAIN output : output'[n] = output[n]
           /\ output'[Len(output')].number = listing[Min(chosen)].number
           /\ \A k \in Printed : listing[Min(chosen)].number < listing[k].number
<1>1. /\ Min(chosen) \in chosen /\ Min(chosen) \in DOMAIN listing
      /\ \A k \in chosen : Min(chosen) <= k
  BY CurrentIsListed
<1>2. pc = "log" /\ listing # <<>>
  BY DEF PrintLog, Phases
<1>3. PICK log :
        output' = Append(output, [number |-> Current.number, job |-> job_id, seen |-> seen, log |-> log])
  BY DEF PrintLog
<1>4. output \in Seq(OutputType) /\ listing \in Seq(ListedType)
  BY DEF TypeOK
<1>5. /\ Len(output') = Len(output) + 1
      /\ \A n \in DOMAIN output : output'[n] = output[n]
      /\ output'[Len(output')].number = listing[Min(chosen)].number
  BY <1>3, <1>4 DEF Current
<1>6. chosen' = chosen \ {Min(chosen)}
  BY DEF PrintLog
<1>7. \A k \in Printed : k < Min(chosen) /\ k \in DOMAIN listing
  BY <1>1, <1>2 DEF InOrder, Printed, ParseBuilds
<1>8. Min(chosen) \in ParseBuilds(listing) \ Printed
  BY <1>1, <1>2 DEF InOrder, Printed
<1>9. QED
  BY <1>1, <1>2, <1>5, <1>6, <1>7, <1>8 DEF InOrder, Descending

LEMMA InOrderStep == TypeOK /\ Phases /\ InOrder /\ [Next]_vars => InOrder'
<1> SUFFICES ASSUME TypeOK, Phases, InOrder, [Next]_vars PROVE InOrder'
  OBVIOUS
<1>0. Limit' = Limit
  BY WhoMoves DEF Limit, Debug
<1>1. ASSUME UNCHANGED <<listing, chosen, output>>,
             \/ pc' \notin {"build", "job", "log"} /\ (exit' = "0" => listing' = <<>>)
             \/ pc \in {"build", "job", "log"}
             \/ exit = "0" /\ listing # <<>>
      PROVE  InOrder'
  <2>1. ParseBuilds(listing)' = ParseBuilds(listing)
    BY <1>0, <1>1 DEF ParseBuilds
  <2>2. Printed' = Printed /\ Descending(listing)' = Descending(listing)
    BY <1>1, <2>1 DEF Printed, Descending
  <2>3. CASE pc' \notin {"build", "job", "log"} /\ (exit' = "0" => listing' = <<>>)
    BY <2>3 DEF InOrder
  <2>4. CASE pc \in {"build", "job", "log"} \/ (exit = "0" /\ listing # <<>>)
    BY <1>1, <2>1, <2>2, <2>4 DEF InOrder
  <2>5. QED
    BY <1>1, <2>3, <2>4
<1>2. CASE UNCHANGED <<pc, search, output, tries, address, exit>>
  BY <1>1, <1>2 DEF search
<1>3. CASE ProcessOptions
  <2>1. listing' = <<>> /\ chosen' = {}
    BY <1>3 DEF ProcessOptions, Phases
  <2>2. QED
    BY <2>1 DEF InOrder, Descending
<1>4. CASE GetBuilds
  <2>1. CASE pc' = "done"
    BY <1>4, <2>1 DEF GetBuilds, End, Goto, InOrder, TypeOK
  <2>2. CASE pc' # "done"
    <3>1. Descending(builds) /\ output' = <<>> /\ output = <<>>
      BY <1>4, <2>2 DEF GetBuilds, End, Goto, Phases
    <3>2. Descending(listing')
      BY <1>4, <3>1 DEF GetBuilds, Descending
    <3>3. chosen' = ParseBuilds(listing)'
      BY <1>0, <1>4 DEF GetBuilds, ParseBuilds
    <3>4. Printed' = {}
      BY <3>3 DEF Printed
    <3>5. QED
      BY <3>1, <3>2, <3>3, <3>4, FS_EmptySet DEF InOrder, Descending
  <2>3. QED
    BY <2>1, <2>2
<1>5. CASE Build \/ GetJob \/ JobsDone
  BY <1>1, <1>5 DEF Build, GetJob, JobsDone, search
<1>6. CASE PrintLog /\ chosen = {}
  <2>1. listing' = <<>> /\ chosen' = {}
    BY <1>6 DEF PrintLog, Phases
  <2>2. QED
    BY <2>1 DEF InOrder, Descending
<1>7. CASE PrintLog /\ chosen # {}
  <2>1. /\ pc = "log" /\ listing # <<>> /\ listing' = listing
        /\ ParseBuilds(listing)' = ParseBuilds(listing)
    BY <1>0, <1>7 DEF PrintLog, Phases, ParseBuilds
  <2>2. /\ chosen' = chosen \ {Min(chosen)}
        /\ Min(chosen) \in ParseBuilds(listing) \ Printed
        /\ Len(output') = Len(output) + 1
        /\ \A n \in DOMAIN output : output'[n] = output[n]
        /\ output'[Len(output')].number = listing[Min(chosen)].number
        /\ \A k \in Printed : listing[Min(chosen)].number < listing[k].number
    BY <1>7, PrintsTheNext
  <2>3. Printed' = Printed \union {Min(chosen)}
    BY <2>1, <2>2 DEF Printed, InOrder
  <2>4. Len(output') = Cardinality(Printed')
    <3>1. IsFiniteSet(Printed)
      BY PicksTheNewest, Options, FS_Difference DEF Printed, TypeOK
    <3>2. Cardinality(Printed') = Cardinality(Printed) + 1
      BY <2>2, <2>3, <3>1, FS_AddElement
    <3>3. QED
      BY <2>1, <2>2, <3>2 DEF InOrder
  <2>5. /\ DOMAIN output = 1..Len(output) /\ DOMAIN output' = 1..Len(output')
        /\ Len(output) \in Nat
    BY TypeStep DEF TypeOK
  <2>6. {output'[n].number : n \in DOMAIN output'} = {listing[k].number : k \in Printed'}
    <3>1. {output[n].number : n \in DOMAIN output} = {listing[k].number : k \in Printed}
      BY <2>1 DEF InOrder
    <3>2. {output'[n].number : n \in DOMAIN output'}
            = {output[n].number : n \in DOMAIN output} \union {listing[Min(chosen)].number}
      BY <2>2, <2>5
    <3>3. QED
      BY <2>3, <3>1, <3>2
  <2>7. \A i, k \in DOMAIN output' : i < k => output'[k].number < output'[i].number
    <3>1. {output[n].number : n \in DOMAIN output} = {listing[k].number : k \in Printed}
      BY <2>1 DEF InOrder
    <3>2. \A n \in DOMAIN output : listing[Min(chosen)].number < output[n].number
      <4>1. ASSUME NEW n \in DOMAIN output PROVE \E k \in Printed : output[n].number = listing[k].number
        BY <3>1
      <4>2. QED
        BY <2>2, <4>1
    <3>3. \A i, k \in DOMAIN output : i < k => output[k].number < output[i].number
      BY <2>1 DEF InOrder
    <3>4. QED
      BY <2>2, <2>5, <3>2, <3>3
  <2>8. \A i \in Printed', k \in chosen' : i < k
    <3>1. \A k \in chosen : Min(chosen) <= k /\ k \in Nat /\ Min(chosen) \in Nat
      BY <1>7, CurrentIsListed DEF TypeOK
    <3>2. \A i \in Printed, k \in chosen : i < k
      BY <2>1 DEF InOrder
    <3>3. QED
      BY <2>2, <2>3, <3>1, <3>2
  <2>9. Descending(listing)' /\ chosen' \subseteq ParseBuilds(listing)'
    BY <2>1, <2>2 DEF InOrder, Descending
  <2>10. QED
    BY <2>1, <2>4, <2>6, <2>7, <2>8, <2>9 DEF InOrder
<1>8. CASE NoBuilds \/ LaunchJob \/ Poll \/ GiveUp \/ RequestFails \/ Alarm
  BY <1>1, <1>8 DEF NoBuilds, LaunchJob, Poll, GiveUp, RequestFails, Alarm, Goto, End, TypeOK, search
<1>9. QED
  BY <1>2, <1>3, <1>4, <1>5, <1>6, <1>7, <1>8, WhoMoves DEF Program

(* Once the program is through, all that was picked has been printed.       *)
LEMMA NewestFollows == TypeOK /\ Phases /\ InOrder => NewestWanted
<1> SUFFICES ASSUME TypeOK, Phases, InOrder, exit = "0", listing # <<>>
             PROVE  /\ \A i, k \in DOMAIN output : i < k => output[k].number < output[i].number
                    /\ {output[k].number : k \in DOMAIN output} \subseteq
                         {listing[k].number : k \in {i \in DOMAIN listing : listing[i].wanted}}
                    /\ \A n \in {listing[k].number : k \in {i \in DOMAIN listing : listing[i].wanted}}
                                  \ {output[k].number : k \in DOMAIN output} :
                         /\ Len(output) = run.num
                         /\ \A p \in {output[k].number : k \in DOMAIN output} : n < p
  BY DEF NewestWanted
<1>1. /\ listing \in Seq(ListedType) /\ Limit \in Nat \ {0} /\ Limit = run.num
      /\ Printed = ParseBuilds(listing)
  BY Options DEF TypeOK, Phases, Printed, Limit
<1>2. /\ Descending(listing) /\ Len(output) = Cardinality(Printed)
      /\ {output[n].number : n \in DOMAIN output} = {listing[k].number : k \in Printed}
      /\ \A i, k \in DOMAIN output : i < k => output[k].number < output[i].number
  BY DEF InOrder
<1>3. \A k \in Printed : k \in DOMAIN listing /\ listing[k].wanted
  BY <1>1 DEF ParseBuilds
<1>4. ASSUME NEW k \in DOMAIN listing, listing[k].wanted, k \notin Printed
      PROVE  Len(output) = run.num /\ \A i \in Printed : listing[k].number < listing[i].number
  <2>1. Cardinality(Printed) = Limit /\ \A i \in Printed : i < k
    BY <1>1, <1>4, PicksTheNewest
  <2>2. QED
    BY <1>1, <1>2, <1>3, <2>1 DEF Descending
<1> DEFINE numbers == {output[n].number : n \in DOMAIN output}
           wanted == {listing[k].number : k \in {i \in DOMAIN listing : listing[i].wanted}}
<1>5. numbers \subseteq wanted
  BY <1>2, <1>3
<1>6. ASSUME NEW n \in wanted \ numbers
      PROVE  Len(output) = run.num /\ \A p \in numbers : n < p
  <2>1. PICK k \in DOMAIN listing : listing[k].wanted /\ n = listing[k].number
    BY <1>6
  <2>2. k \notin Printed
    BY <1>2, <1>6, <2>1
  <2>3. ASSUME NEW p \in numbers PROVE \E i \in Printed : p = listing[i].number
    BY <1>2
  <2>4. QED
    BY <1>4, <2>1, <2>2, <2>3
<1>7. QED
  BY <1>2, <1>5, <1>6

(* The job kept with --failed.                                              *)
LEMMA KeptStep == TypeOK /\ Phases /\ KeptHadFailed /\ [Next]_vars => KeptHadFailed'
<1> SUFFICES ASSUME TypeOK, Phases, KeptHadFailed, [Next]_vars, run'.failed
             PROVE  /\ \A k \in DOMAIN content' : content'[k].ended
                    /\ (chosen' # {} /\ pc' \in {"job", "log"} /\ job_id' # "none") =>
                         \/ jobs'[job_id'].runs > seen'
                         \/ jobs'[job_id'].runs = seen' /\ jobs'[job_id'].state = "finished"
  BY DEF KeptHadFailed
<1>0. run' = run /\ run.failed /\ JobsGrow
  BY WhoMoves
<1>1. /\ \A k \in DOMAIN content : content[k].ended
      /\ (chosen # {} /\ pc \in {"job", "log"} /\ job_id # "none") =>
           \/ jobs[job_id].runs > seen
           \/ jobs[job_id].runs = seen /\ jobs[job_id].state = "finished"
  BY <1>0 DEF KeptHadFailed
<1>2. \A j \in DOMAIN Jobs : jobs[j].runs \in Nat /\ jobs'[j].runs \in Nat
  BY <1>0 DEF TypeOK, JobType, JobsGrow
<1>3. ASSUME UNCHANGED search,
             pc \in {"job", "log"} \/ pc' \notin {"job", "log"}
      PROVE  /\ \A k \in DOMAIN content' : content'[k].ended
             /\ (chosen' # {} /\ pc' \in {"job", "log"} /\ job_id' # "none") =>
                  \/ jobs'[job_id'].runs > seen'
                  \/ jobs'[job_id'].runs = seen' /\ jobs'[job_id'].state = "finished"
  BY <1>0, <1>1, <1>2, <1>3 DEF search, JobsGrow, TypeOK
<1>4. CASE UNCHANGED <<pc, search, output, tries, address, exit>>
  BY <1>3, <1>4
<1>5. CASE ProcessOptions
  BY <1>1, <1>5 DEF ProcessOptions, Phases
<1>6. CASE GetBuilds
  BY <1>1, <1>6 DEF GetBuilds, Goto, End
<1>7. CASE Build
  BY <1>1, <1>7 DEF Build, Goto, End
<1>8. CASE GetJob
  <2> DEFINE j == Head(left)
  <2>1. j \in DOMAIN Jobs /\ jobs' = jobs /\ chosen' = chosen /\ pc = "job"
    BY <1>8 DEF GetJob, TypeOK, travis
  <2>2. CASE Fits(j)
    <3>1. jobs[j].state = "finished"
      BY <1>0, <2>2 DEF Fits, Failing
    <3>2. jobs[j].log.ended
      BY <2>1, <3>1 DEF TypeOK, LogIsOfARun
    <3>3. job_id' = j /\ seen' = jobs[j].runs /\ content' \in {<<>>, <<jobs[j].log>>}
      BY <1>8, <2>2 DEF GetJob
    <3>4. QED
      BY <2>1, <3>1, <3>2, <3>3
  <2>3. CASE ~Fits(j)
    <3>1. UNCHANGED <<job_id, seen, content>>
      BY <1>8, <2>3 DEF GetJob
    <3>2. QED
      BY <1>1, <2>1, <3>1
  <2>4. QED
    BY <2>2, <2>3
<1>9. CASE PrintLog
  BY <1>9 DEF PrintLog, Goto, End
<1>10. CASE JobsDone
  BY <1>3, <1>10 DEF JobsDone, Goto, End
<1>11. CASE NoBuilds \/ LaunchJob \/ Poll \/ GiveUp \/ RequestFails \/ Alarm
  BY <1>3, <1>11 DEF NoBuilds, LaunchJob, Poll, GiveUp, RequestFails, Alarm, Goto, End
<1>12. QED
  BY <1>4, <1>5, <1>6, <1>7, <1>8, <1>9, <1>10, <1>11, WhoMoves DEF Program

(* The log that PrintLog prints for a build, with --failed.                 *)
LEMMA FailedLogStep ==
    TypeOK /\ Phases /\ KeptHadFailed /\ FailedLogIsWhole /\ [Next]_vars => FailedLogIsWhole'
<1> SUFFICES ASSUME TypeOK, Phases, KeptHadFailed, FailedLogIsWhole, [Next]_vars
             PROVE  FailedLogIsWhole'
  OBVIOUS
<1>0. run' = run
  BY WhoMoves
<1>1. CASE output' = output
  BY <1>0, <1>1 DEF FailedLogIsWhole
<1>2. CASE PrintLog
  <2> DEFINE log == IF content = <<>> \/ content[1].content = "empty" THEN jobs[job_id].log ELSE content[1]
             number == IF chosen = {} THEN 0 ELSE Current.number
  <2>1. output' = Append(output, [number |-> number, job |-> job_id, seen |-> seen, log |-> log])
    BY <1>2 DEF PrintLog
  <2>2. ASSUME run.failed, number # 0
        PROVE  log.run > seen \/ log.ended
    <3>1. chosen # {} /\ pc = "log" /\ job_id \in DOMAIN Jobs /\ job_id # "none"
      BY <1>2, <2>2 DEF PrintLog, TypeOK, Phases
    <3>2. /\ \A k \in DOMAIN content : content[k].ended
          /\ \/ jobs[job_id].runs > seen
             \/ jobs[job_id].runs = seen /\ jobs[job_id].state = "finished"
      BY <2>2, <3>1 DEF KeptHadFailed
    <3>3. jobs[job_id].log.run > seen \/ jobs[job_id].log.ended
      BY <3>1, <3>2 DEF TypeOK, LogIsOfARun
    <3>4. content # <<>> => content[1].ended
      BY <3>2 DEF TypeOK
    <3>5. QED
      BY <3>3, <3>4
  <2> HIDE DEF log, number
  <2>3. output \in Seq(OutputType)
    BY DEF TypeOK
  <2>4. QED
    BY <1>0, <2>1, <2>2, <2>3 DEF FailedLogIsWhole
<1>3. CASE ~PrintLog
  BY <1>1, <1>3, WhoMoves DEF Program, ProcessOptions, NoBuilds, GetBuilds, Build, GetJob, JobsDone,
     LaunchJob, Poll, GiveUp, RequestFails, Alarm
<1>4. QED
  BY <1>2, <1>3

(* An address is only taken from a log that has not ended.                  *)
LEMMA AddressStep == TypeOK /\ AddressIsLive /\ [Next]_vars => AddressIsLive'
<1> SUFFICES ASSUME TypeOK, AddressIsLive, [Next]_vars, exit' = "ssh"
             PROVE  address'.run = address'.current
  BY DEF AddressIsLive
<1>1. CASE Poll
  <2>1. job_id \in DOMAIN Jobs /\ LogIsOfARun(jobs[job_id]) /\ exit = "running"
    BY <1>1 DEF Poll, TypeOK
  <2>2. /\ jobs[job_id].log.content = "address" /\ ~jobs[job_id].log.ended
        /\ address' = [run |-> jobs[job_id].log.run, current |-> jobs[job_id].runs]
    BY <1>1, <2>1 DEF Poll, End, Goto
  <2>3. QED
    BY <2>1, <2>2 DEF LogIsOfARun
<1>2. CASE ~Poll
  <2>1. exit = "ssh" /\ address' = address
    BY <1>2, WhoMoves DEF Program, ProcessOptions, NoBuilds, GetBuilds, Build, GetJob, JobsDone,
       PrintLog, LaunchJob, GiveUp, RequestFails, Alarm, End, Goto, TypeOK
  <2>2. QED
    BY <2>1 DEF AddressIsLive
<1>3. QED
  BY <1>1, <1>2

-----------------------------------------------------------------------------
LEMMA IInvInit == Init => IInv
<1> SUFFICES ASSUME Init PROVE IInv
  OBVIOUS
<1>1. TypeOK
  BY TypeInit
<1>2. Phases /\ InOrder /\ AddressIsLive
  BY DEF Init, Phases, InOrder, AddressIsLive
<1>3. KeptHadFailed /\ FailedLogIsWhole
  <2>1. content = <<>> /\ output = <<>> /\ chosen = {}
    BY DEF Init
  <2>2. QED
    BY <2>1 DEF KeptHadFailed, FailedLogIsWhole
<1>4. QED
  BY <1>1, <1>2, <1>3 DEF IInv

LEMMA IInvStep == IInv /\ [Next]_vars => IInv'
BY TypeStep, PhasesStep, InOrderStep, KeptStep, AddressStep, FailedLogStep DEF IInv

(* The inductive invariant of a program and of Travis CI beside it.         *)
THEOREM Invariance == Spec => []IInv
BY IInvInit, IInvStep, PTL DEF Spec

(* The variables have their types, and a log is always that of a run of its *)
(* job.                                                                     *)
THEOREM TypeCorrect == Spec => []TypeOK
BY Invariance, PTL DEF IInv

(* ssh is executed with the address of the run in progress.                 *)
(* (get_ssh_address_attempt)                                                *)
THEOREM AddressTheorem == Spec => []AddressIsLive
BY Invariance, PTL DEF IInv

(* The newest builds wanted have a log printed each, in order.              *)
(* (parse_builds)                                                           *)
THEOREM NewestTheorem == Spec => []NewestWanted
BY Invariance, NewestFollows, PTL DEF IInv

(* A log printed with --failed is whole.  (print_log, print_job_log)        *)
THEOREM FailedLogTheorem == Spec => []FailedLogIsWhole
BY Invariance, PTL DEF IInv
=============================================================================
