--------------------------- MODULE ActiveServer ---------------------------
(* find_active_server.py and its find_active_* subclasses: the main thread *)
(* hands one check per host to a thread pool, each worker puts its result  *)
(* on a queue, and the main thread takes one result per host until one is  *)
(* truthy, while the alarm of the CLI base class counts down.              *)
(*                                                                         *)
(* A host is named by its position in self.host_list after uniq_list_      *)
(* ordered and the optional shuffle, so i < j reads "i is preferred to j". *)
EXTENDS Naturals, Sequences, FiniteSets

CONSTANTS
    NumHosts,       \* Len(self.host_list)
    Confs           \* the option settings a run may have been started with

Hosts == 1..NumHosts

(* What main() was configured with; https is checked exactly like http.    *)
(* alarm is FALSE for --timeout 0, which sets no alarm.                    *)
ConfType ==
    [protocol : {"http", "ping", "socket"},
     regex    : BOOLEAN,
     threads  : Nat \ {0},
     quiet    : BOOLEAN,
     python   : {2, 3},
     alarm    : BOOLEAN]

ASSUME HostsAssumption == NumHosts \in Nat \ {0}    \* else usage('no hosts specified')
ASSUME ConfsAssumption == Confs \subseteq ConfType  \* validate_int(num_threads, 1, 100)

VARIABLES
    conf,       \* the options of this run
    launched,   \* hosts 1..launched were given to pool.apply_async
    started,    \* hosts 1..started were taken from the pool's FIFO task queue
    hold,       \* worker -> the host it is checking, 0 when idle
    alive,      \* the worker threads that exist
    response,   \* host -> how its check ended, "none" before that
    results,    \* every host whose result was put on self.queue, in put order
    got,        \* how many results were taken: self.queue is results[got+1..]
    pc,         \* where the main thread is
    printed,    \* what is on stdout: "nothing" | "server" | "nobody"
    answer,     \* the host printed by finish()
    exit        \* "running", or the exit code of the process

vars == <<conf, launched, started, hold, alive, response, results, got,
          pc, printed, answer, exit>>

pool == <<started, hold, alive, response>>
main == <<launched, got, pc, printed, answer, exit>>

Workers == 1..conf.threads

-----------------------------------------------------------------------------
(* The three checks.  A response is what the network or the host did, the  *)
(* value is what the check function returned for it, as a Python truth     *)
(* value, or how it failed to return: "raised" is an exception the pool    *)
(* swallows, "died" is die() whose SystemExit ends the worker thread, and  *)
(* "stuck" is a body that keeps trickling in (the timeout given to         *)
(* requests.get bounds each wait, not the whole request).                  *)
Responses(c) ==
    CASE c.protocol = "http"   -> {"error", "not200", "nomatch", "match", "trickle"}
      [] c.protocol = "ping"   -> {"match", "nomatch", "noping"}
      [] c.protocol = "socket" -> {"match", "error"}

CheckPing(r) ==
    CASE r = "match"   -> "passed"
      [] r = "nomatch" -> "falsy"
      [] r = "noping"  -> "died"

CheckSocket(r) == IF r = "match" THEN "passed" ELSE "falsy"

(* A compiled str pattern cannot search req.content, which is bytes under  *)
(* Python 3: the search raises TypeError, whatever the page holds.         *)
Search(c, r) ==
    IF c.python = 3 THEN "raised" ELSE IF r = "match" THEN "passed" ELSE "falsy"

(* Mutant: the status code is not looked at.                               *)
CheckHttpAnyStatus(c, r) ==
    CASE r = "trickle"                       -> "stuck"
      [] r = "error"                         -> "falsy"
      [] r \in {"not200", "nomatch", "match"} -> IF c.regex THEN Search(c, r) ELSE "passed"

CheckHttp(c, r) ==
    CASE r = "trickle"             -> "stuck"
      [] r \in {"error", "not200"}  -> "falsy"
      [] r \in {"nomatch", "match"} -> IF c.regex THEN Search(c, r) ELSE "passed"

Value(c, r) ==
    IF r = "none" THEN "pending"
    ELSE CASE c.protocol = "http"   -> CheckHttp(c, r)
           [] c.protocol = "ping"   -> CheckPing(r)
           [] c.protocol = "socket" -> CheckSocket(r)

(* The test criteria as the documentation gives them.                      *)
Qualifies(c, r) ==
    \/ r = "match"
    \/ c.protocol = "http" /\ ~c.regex /\ r = "nomatch"

-----------------------------------------------------------------------------
Init ==
    /\ conf \in Confs
    /\ launched = 0
    /\ started = 0
    /\ hold = [w \in Workers |-> 0]
    /\ alive = Workers
    /\ response = [h \in Hosts |-> "none"]
    /\ results = <<>>
    /\ got = 0
    /\ pc = "launch"
    /\ printed = "nothing"
    /\ answer = 0
    /\ exit = "running"

(* run(): launch_thread for the next host; after the last, collect_results *)
Launch ==
    /\ pc = "launch"
    /\ launched < NumHosts
    /\ launched' = launched + 1
    /\ pc' = IF launched' = NumHosts THEN "collect" ELSE "launch"
    /\ UNCHANGED <<conf, pool, results, got, printed, answer, exit>>

(* Mutant: a worker takes a task before launch_thread has queued it.       *)
StartEarly(w) ==
    /\ w \in alive
    /\ hold[w] = 0
    /\ started < NumHosts
    /\ started' = started + 1
    /\ hold' = [hold EXCEPT ![w] = started']
    /\ UNCHANGED <<conf, main, alive, response, results>>

(* A worker takes the oldest task of the pool.                             *)
Start(w) ==
    /\ w \in alive
    /\ hold[w] = 0
    /\ started < launched
    /\ started' = started + 1
    /\ hold' = [hold EXCEPT ![w] = started']
    /\ UNCHANGED <<conf, main, alive, response, results>>

(* The check function of the worker's host returns, raises, or dies.  Only *)
(* a returned value is put on the queue later.                             *)
Respond(w, r) ==
    /\ hold[w] # 0
    /\ response[hold[w]] = "none"
    /\ response' = [response EXCEPT ![hold[w]] = r]
    /\ hold' = IF Value(conf, r) \in {"raised", "died"}
               THEN [hold EXCEPT ![w] = 0]
               ELSE hold
    /\ alive' = IF Value(conf, r) = "died" THEN alive \ {w} ELSE alive
    /\ UNCHANGED <<conf, main, started, results>>

(* Mutant: a falsy result is not put on the queue.                         *)
PutTruthyOnly(w) ==
    /\ hold[w] # 0
    /\ Value(conf, response[hold[w]]) \in {"passed", "falsy"}
    /\ results' = IF Value(conf, response[hold[w]]) = "passed"
                  THEN Append(results, hold[w])
                  ELSE results
    /\ hold' = [hold EXCEPT ![w] = 0]
    /\ UNCHANGED <<conf, main, started, alive, response>>

(* self.queue.put(func(..)), after which the worker is free again.         *)
Put(w) ==
    /\ hold[w] # 0
    /\ Value(conf, response[hold[w]]) \in {"passed", "falsy"}
    /\ results' = Append(results, hold[w])
    /\ hold' = [hold EXCEPT ![w] = 0]
    /\ UNCHANGED <<conf, main, started, alive, response>>

(* Mutant: a dead worker is not replaced.                                  *)
RespawnNever(w) == FALSE /\ UNCHANGED vars

(* The pool replaces a worker thread that ended.                           *)
Respawn(w) ==
    /\ w \notin alive
    /\ alive' = alive \union {w}
    /\ UNCHANGED <<conf, main, started, hold, response, results>>

-----------------------------------------------------------------------------
Taken == results[got + 1]   \* the head of self.queue

(* Mutant: the loop ends one result early.                                 *)
CollectOneShort ==
    /\ pc = "collect"
    /\ got < Len(results)
    /\ got' = got + 1
    /\ pc' = IF Value(conf, response[Taken]) = "passed" THEN "finish"
             ELSE IF got' >= NumHosts - 1 THEN "nobody" ELSE "collect"
    /\ UNCHANGED <<conf, pool, launched, results, printed, answer, exit>>

(* Mutant: no break on a truthy result.                                    *)
CollectNoBreak ==
    /\ pc = "collect"
    /\ got < Len(results)
    /\ got' = got + 1
    /\ pc' = IF got' < NumHosts THEN "collect"
             ELSE IF Value(conf, response[Taken]) = "passed" THEN "finish" ELSE "nobody"
    /\ UNCHANGED <<conf, pool, launched, results, printed, answer, exit>>

(* One iteration of collect_results: the blocking self.queue.get(), and    *)
(* break on the first truthy value.                                        *)
Collect ==
    /\ pc = "collect"
    /\ got < Len(results)
    /\ got' = got + 1
    /\ pc' = IF Value(conf, response[Taken]) = "passed" THEN "finish"
             ELSE IF got' = NumHosts THEN "nobody" ELSE "collect"
    /\ UNCHANGED <<conf, pool, launched, results, printed, answer, exit>>

(* finish() prints the host taken last; sys.exit(0) follows.               *)
Finish ==
    /\ pc = "finish"
    /\ answer' = results[got]
    /\ printed' = "server"
    /\ pc' = "exit0"
    /\ UNCHANGED <<conf, pool, launched, results, got, exit>>

(* No truthy result: print NO_AVAILABLE_SERVER unless --quiet, sys.exit(1) *)
NoAvailableServer ==
    /\ pc = "nobody"
    /\ printed' = IF conf.quiet THEN "nothing" ELSE "nobody"
    /\ pc' = "exit1"
    /\ UNCHANGED <<conf, pool, launched, results, got, answer, exit>>

Exit ==
    /\ pc \in {"exit0", "exit1"}
    /\ exit' = IF pc = "exit0" THEN "0" ELSE "1"
    /\ UNCHANGED <<conf, pool, launched, results, got, pc, printed, answer>>

(* Mutant: a blocking get() keeps the signal handler from running.         *)
AlarmOutsideGet ==
    /\ conf.alarm
    /\ pc # "collect"
    /\ exit' = "3"
    /\ UNCHANGED <<conf, pool, launched, results, got, pc, printed, answer>>

(* The alarm set by CLI.main(): its handler ends the process with UNKNOWN  *)
(* wherever the main thread is.  Python 2 runs no handler while a          *)
(* Queue.get() without a timeout is blocked on an empty queue.             *)
Alarm ==
    /\ conf.alarm
    /\ ~(conf.python = 2 /\ pc = "collect" /\ got = Len(results))
    /\ exit' = "3"
    /\ UNCHANGED <<conf, pool, launched, results, got, pc, printed, answer>>

-----------------------------------------------------------------------------
Main == Launch \/ Collect \/ Finish \/ NoAvailableServer \/ Exit \/ Alarm

Worker(w) ==
    \/ Start(w)
    \/ \E r \in Responses(conf) : Respond(w, r)
    \/ Put(w)
    \/ Respawn(w)

(* The workers are daemon threads: nothing runs once the process is gone.  *)
Next ==
    /\ exit = "running"
    /\ Main \/ \E w \in Workers : Worker(w)

(* Threads are scheduled fairly, a request that does not trickle ends      *)
(* within its --request-timeout, and the alarm, if set, does go off.       *)
Fairness ==
    /\ WF_vars(exit = "running" /\ (Launch \/ Collect))
    /\ WF_vars(exit = "running" /\ (Finish \/ NoAvailableServer \/ Exit))
    /\ WF_vars(exit = "running" /\ Alarm)
    /\ \A w \in UNION {1..c.threads : c \in Confs} :
         WF_vars(/\ exit = "running"
                 /\ w \in Workers
                 /\ Worker(w))

Spec == Init /\ [][Next]_vars /\ Fairness

-----------------------------------------------------------------------------
(* The type invariant: in particular started never passes launched, and    *)
(* got never passes the number of results put.                             *)
TypeOK ==
    /\ conf \in Confs
    /\ launched \in 0..NumHosts
    /\ started \in 0..launched
    /\ hold \in [Workers -> 0..started]
    /\ alive \in SUBSET Workers
    /\ response \in [Hosts -> {"none"} \union Responses(conf)]
    /\ results \in Seq(Hosts)
    /\ got \in 0..Len(results)
    /\ pc \in {"launch", "collect", "finish", "nobody", "exit0", "exit1"}
    /\ printed \in {"nothing", "server", "nobody"}
    /\ answer \in 0..NumHosts
    /\ exit \in {"running", "0", "1", "3"}

Passed(h) == Value(conf, response[h]) = "passed"
Falsy(h) == Value(conf, response[h]) = "falsy"
Lost(h) == Value(conf, response[h]) \in {"raised", "died"}

(* A printed server really met the test criteria when it was checked, and  *)
(* exit code 0 is never given without one on stdout.  (finish, check_http) *)
AnswerQualifies ==
    /\ printed = "server" => Qualifies(conf, response[answer])
    /\ exit = "0" => printed = "server"

(* Exit code 1 (NO_AVAILABLE_SERVER) is given only after every single host *)
(* was checked to the end and refused: a check that is late, lost or stuck *)
(* never counts as a refusal.  (collect_results, run)                      *)
NobodyOnlyIfAllRefused ==
    exit = "1" => \A h \in Hosts : Falsy(h) /\ ~Qualifies(conf, response[h])

(* The hosts preferred to the answer that did not refuse before it was     *)
(* chosen.  A passing one among them is a host that was overtaken.         *)
Overtaken == {h \in 1..(answer - 1) : ~Falsy(h) /\ ~Lost(h)}

(* Thread races change the documented preference order only so far: fewer  *)
(* than --num-threads hosts listed before the answer can have been passed  *)
(* over, so -n=1 gives the deterministic host preference order its help    *)
(* text promises.  (launch_thread, collect_results)                        *)
PreferenceBound ==
    printed = "server" => Cardinality(Overtaken) < conf.threads

(* The main thread blocks for good in queue.get(): every host was started, *)
(* no worker holds one any more and the queue is empty.                    *)
Starved ==
    /\ pc = "collect"
    /\ got = Len(results)
    /\ started = NumHosts
    /\ \A w \in Workers : hold[w] = 0

(* The main thread can only be left waiting for a result that will never   *)
(* come by a check that raised or died: no returned value is ever lost     *)
(* between the pool, the queue and collect_results.                        *)
StarvedOnlyByLostCheck == Starved => \E h \in Hosts : Lost(h)

Selection ==
    INSTANCE ServerSelection WITH
        verdict <- [h \in Hosts |-> IF Passed(h) THEN "passed"
                                   ELSE IF Falsy(h) THEN "failed" ELSE "unknown"],
        outcome <- IF printed = "server" THEN "found"
                   ELSE IF exit = "1" THEN "nobody"
                   ELSE IF exit = "3" THEN "gaveup" ELSE "open",
        answer  <- IF printed = "server" THEN {answer} ELSE {}

(* The threads, the queue and the alarm together implement the promise of  *)
(* ServerSelection: one decision, taken once, and backed by the verdicts.  *)
Selects == Selection!Spec

(* Every host gets checked, although checks kill their workers, unless the *)
(* run is over before or trickling responses hold all the threads.         *)
EveryHostChecked ==
    \A h \in Hosts :
        <>(\/ response[h] # "none"
           \/ exit # "running"
           \/ \A w \in Workers : hold[w] # 0 /\ response[hold[w]] = "trickle")

(* A host that passed its check always ends the run: neither hosts whose   *)
(* checks are lost or stuck, nor dead workers, can make it wait for ever.  *)
(* And whatever the checks do, a run with an alarm ends (Python 3): the    *)
(* alarm also reaches a main thread blocked in queue.get().                *)
RunEnds ==
    /\ \A h \in Hosts : Passed(h) ~> exit # "running"
    /\ (conf.alarm /\ conf.python = 3) ~> exit # "running"

-----------------------------------------------------------------------------
(* The inductive invariant behind the safety properties.                   *)

(* Where the main thread is says what it has launched and taken.           *)
Progress ==
    /\ pc = "launch" => launched < NumHosts /\ got = 0
    /\ pc # "launch" => launched = NumHosts
    /\ pc = "collect" => got < NumHosts
    /\ pc \in {"finish", "exit0"} => got > 0 /\ Passed(results[got])
    /\ pc \in {"nobody", "exit1"} => got = NumHosts /\ Falsy(results[got])
    /\ \A k \in 1..got : pc \in {"launch", "collect"} \/ k < got => Falsy(results[k])

Announced ==
    /\ printed = "server" <=> pc = "exit0"
    /\ printed = "server" => answer = results[got]
    /\ exit = "0" => pc = "exit0"
    /\ exit = "1" => pc = "exit1"

(* Each started host is in one place: held by one worker, on the results,  *)
(* or lost.  Hosts that were not started have no response.                 *)
OnePlace ==
    /\ \A w1, w2 \in Workers : hold[w1] = hold[w2] /\ hold[w1] # 0 => w1 = w2
    /\ \A w \in Workers : hold[w] # 0 => ~Lost(hold[w])
    /\ \A w \in Workers : w \notin alive => hold[w] = 0
    /\ \A k \in 1..Len(results) :
         /\ results[k] <= started
         /\ Passed(results[k]) \/ Falsy(results[k])
         /\ \A w \in Workers : hold[w] # results[k]
         /\ \A m \in 1..Len(results) : results[m] = results[k] => m = k
    /\ \A h \in Hosts :
         IF h > started
         THEN response[h] = "none"
         ELSE \/ \E w \in Workers : hold[w] = h
              \/ \E k \in 1..Len(results) : results[k] = h
              \/ Lost(h)

(* The hosts preferred to results[k] that were neither put before it nor   *)
(* lost were, when it was put, held by the other threads.                  *)
Passing(k) ==
    {h \in 1..(results[k] - 1) :
        ~Lost(h) /\ \A m \in 1..(k - 1) : results[m] # h}

BoundedPassing ==
    \A k \in 1..Len(results) : Cardinality(Passing(k)) < conf.threads

IInv == TypeOK /\ Progress /\ Announced /\ OnePlace /\ BoundedPassing
=============================================================================
