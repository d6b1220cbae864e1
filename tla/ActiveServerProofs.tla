------------------------ MODULE ActiveServerProofs ------------------------
(* Theorems of ActiveServer, for every number of hosts and threads and for *)
(* every configuration.                                                    *)
EXTENDS ActiveServer, FiniteSetTheorems, TLAPS

(* The number of workers, and of hosts, as the cardinality of an interval. *)
LEMMA CountingInterval ==
    ASSUME NEW n \in Nat
    PROVE  IsFiniteSet(1..n) /\ Cardinality(1..n) = n
<1>1. n \in Int /\ 1 \in Int /\ n - 1 + 1 = n /\ (1 > n => n = 0)
  OBVIOUS
<1>2. QED
  BY <1>1, FS_Interval

(* The value of a check: pending exactly before the response, and truthy   *)
(* only for a host that meets the criteria, falsy only for one that does   *)
(* not.  (check_ping, check_socket, check_http)                            *)
LEMMA ValueFacts ==
    ASSUME NEW c \in ConfType, NEW r \in {"none"} \union Responses(c)
    PROVE  /\ Value(c, r) \in {"pending", "passed", "falsy", "raised", "died", "stuck"}
           /\ Value(c, r) = "pending" <=> r = "none"
           /\ Value(c, r) = "passed" => Qualifies(c, r)
           /\ Value(c, r) = "falsy" => ~Qualifies(c, r)
<1>1. CASE r = "none"
  BY <1>1 DEF Value, Qualifies, ConfType
<1>2. CASE r # "none" /\ c.protocol = "http"
  BY <1>2 DEF Value, CheckHttp, Search, Qualifies, Responses, ConfType
<1>3. CASE r # "none" /\ c.protocol = "ping"
  BY <1>3 DEF Value, CheckPing, Qualifies, Responses, ConfType
<1>4. CASE r # "none" /\ c.protocol = "socket"
  BY <1>4 DEF Value, CheckSocket, Qualifies, Responses, ConfType
<1>5. QED
  BY <1>1, <1>2, <1>3, <1>4 DEF ConfType

-----------------------------------------------------------------------------
(* A response, once given, and with it the fate of its host, never changes *)
(* again.  (Respond)                                                       *)
LEMMA Stable ==
    ASSUME TypeOK, [Next]_vars
    PROVE  /\ conf' = conf
           /\ \A h \in Hosts :
                /\ response[h] # "none" => response'[h] = response[h]
                /\ Passed(h) => Passed(h)'
                /\ Falsy(h) => Falsy(h)'
                /\ Lost(h) => Lost(h)'
<1>1. conf' = conf /\ \A h \in Hosts : response[h] # "none" => response'[h] = response[h]
  <2>1. CASE UNCHANGED response /\ UNCHANGED conf
    BY <2>1
  <2>2. CASE \E w \in Workers, r \in Responses(conf) : Respond(w, r)
    BY <2>2 DEF Respond, TypeOK
  <2>3. QED
    BY <2>1, <2>2 DEF Next, Main, Worker, Launch, Collect, Finish, NoAvailableServer,
       Exit, Alarm, Start, Put, Respawn, vars, pool, main
<1>2. ASSUME NEW h \in Hosts, response[h] = "none"
      PROVE  ~Passed(h) /\ ~Falsy(h) /\ ~Lost(h)
  BY <1>2 DEF Passed, Falsy, Lost, Value
<1>3. QED
  BY <1>1, <1>2 DEF Passed, Falsy, Lost

-----------------------------------------------------------------------------
(* A busy worker holds one of the hosts.                                   *)
LEMMA HeldIsHost ==
    ASSUME TypeOK, NEW w \in Workers, hold[w] # 0
    PROVE  hold[w] \in Hosts
<1>1. hold[w] \in 0..started /\ started \in 0..launched /\ launched \in 0..NumHosts
  BY DEF TypeOK
<1>2. QED
  BY <1>1, HostsAssumption DEF Hosts

(* Every action keeps the variables in their types.                        *)
LEMMA TypeStep == IInv /\ [Next]_vars => TypeOK'
<1> SUFFICES ASSUME IInv, [Next]_vars PROVE TypeOK'
  OBVIOUS
<1> USE HostsAssumption, ConfsAssumption DEF TypeOK, ConfType, pool, main, Workers, Hosts
<1>0. TypeOK
  BY DEF IInv
<1>1. CASE Launch
  BY <1>0, <1>1 DEF Launch
<1>2. CASE Collect
  BY <1>0, <1>2 DEF Collect
<1>3. CASE Finish
  BY <1>0, <1>3 DEF Finish, IInv, Progress
<1>4. CASE NoAvailableServer
  BY <1>0, <1>4 DEF NoAvailableServer
<1>5. CASE Exit
  BY <1>0, <1>5 DEF Exit
<1>6. CASE Alarm
  BY <1>0, <1>6 DEF Alarm
<1>7. ASSUME NEW w \in Workers, Start(w) PROVE TypeOK'
  BY <1>0, <1>7 DEF Start
<1>8. ASSUME NEW w \in Workers, NEW r \in Responses(conf), Respond(w, r) PROVE TypeOK'
  <2>1. hold[w] \in Hosts
    BY <1>0, <1>8, HeldIsHost DEF Respond
  <2>2. response' \in [Hosts -> {"none"} \union Responses(conf)]
    BY <1>0, <1>8, <2>1 DEF Respond
  <2>3. hold' \in [Workers -> 0..started]
    BY <1>0, <1>8 DEF Respond
  <2>4. alive' \in SUBSET Workers
    BY <1>0, <1>8 DEF Respond
  <2>5. UNCHANGED <<conf, launched, started, results, got, pc, printed, answer, exit>>
    BY <1>8 DEF Respond
  <2>6. QED
    BY <1>0, <2>2, <2>3, <2>4, <2>5
<1>9. ASSUME NEW w \in Workers, Put(w) PROVE TypeOK'
  <2>1. hold[w] \in Hosts
    BY <1>0, <1>9, HeldIsHost DEF Put
  <2>2. results' \in Seq(Hosts) /\ Len(results') = Len(results) + 1
    BY <1>0, <1>9, <2>1 DEF Put
  <2>3. got \in 0..Len(results')
    BY <1>0, <2>2
  <2>4. hold' \in [Workers -> 0..started]
    BY <1>0, <1>9 DEF Put
  <2>5. UNCHANGED <<conf, launched, started, alive, response, got, pc, printed, answer, exit>>
    BY <1>9 DEF Put
  <2>6. QED
    BY <1>0, <2>2, <2>3, <2>4, <2>5
<1>10. ASSUME NEW w \in Workers, Respawn(w) PROVE TypeOK'
  BY <1>0, <1>10 DEF Respawn
<1>11. CASE UNCHANGED vars
  BY <1>0, <1>11 DEF vars
<1>12. QED
  BY <1>1, <1>2, <1>3, <1>4, <1>5, <1>6, <1>7, <1>8, <1>9, <1>10, <1>11
     DEF Next, Main, Worker

(* The loops of run() and collect_results() keep their counters in step    *)
(* with where the main thread is.                                          *)
LEMMA ProgressStep == IInv /\ [Next]_vars => Progress'
<1> SUFFICES ASSUME IInv, [Next]_vars PROVE Progress'
  OBVIOUS
<1>0. TypeOK /\ TypeOK' /\ Progress
  BY TypeStep DEF IInv
<1>1. /\ launched \in Nat /\ got \in Nat /\ Len(results) \in Nat /\ got <= Len(results)
      /\ \A k \in 1..Len(results) : results[k] \in Hosts
      /\ pc \in {"launch", "collect", "finish", "nobody", "exit0", "exit1"}
      /\ NumHosts \in Nat \ {0} /\ launched <= NumHosts
  BY <1>0, HostsAssumption DEF TypeOK
<1>2. \A h \in Hosts : (Passed(h) => Passed(h)') /\ (Falsy(h) => Falsy(h)')
  BY <1>0, Stable
<1>3. CASE UNCHANGED <<launched, got, pc>> /\ \A k \in 1..Len(results) : results'[k] = results[k]
  BY <1>0, <1>1, <1>2, <1>3 DEF Progress, Passed, Falsy
<1>4. CASE Launch
  BY <1>0, <1>1, <1>4 DEF Launch, Progress, pool
<1>5. CASE Collect
  <2>1. /\ pc = "collect" /\ got < Len(results) /\ got' = got + 1
        /\ UNCHANGED <<conf, response, launched, results>>
        /\ pc' = IF Passed(results[got + 1]) THEN "finish"
                 ELSE IF got' = NumHosts THEN "nobody" ELSE "collect"
    BY <1>5 DEF Collect, Passed, pool, Taken
  <2>2. Passed(results[got + 1]) \/ Falsy(results[got + 1])
    BY <1>1, <2>1 DEF IInv, OnePlace
  <2>3. \A k \in 1..got : Falsy(results[k])
    BY <1>0, <2>1 DEF Progress
  <2>4. \A k \in 1..got' : k = got' \/ k \in 1..got
    BY <1>1, <2>1
  <2>5. \A k \in 1..got' : k < got' => Falsy(results[k])'
    BY <2>1, <2>3, <2>4 DEF Falsy
  <2>6. CASE Passed(results[got + 1])
    <3>1. Passed(results[got])'
      BY <2>1, <2>6 DEF Passed
    <3>2. QED
      BY <1>0, <1>1, <2>1, <2>5, <2>6, <3>1 DEF Progress
  <2>7. CASE ~Passed(results[got + 1])
    <3>1. Falsy(results[got])'
      BY <2>1, <2>2, <2>7 DEF Falsy
    <3>2. \A k \in 1..got' : Falsy(results[k])'
      BY <2>4, <2>5, <3>1, <1>1, <2>1
    <3>3. got' < NumHosts \/ got' = NumHosts
      BY <1>0, <1>1, <2>1 DEF Progress
    <3>4. QED
      BY <1>0, <1>1, <2>1, <2>7, <3>1, <3>2, <3>3 DEF Progress
  <2>8. QED
    BY <2>6, <2>7
<1>6. CASE Finish \/ NoAvailableServer
  BY <1>0, <1>1, <1>6 DEF Finish, NoAvailableServer, Progress, pool, Passed, Falsy
<1>7. ASSUME NEW w \in Workers, Put(w) PROVE Progress'
  <2>1. hold[w] \in Hosts /\ results' = Append(results, hold[w]) /\ UNCHANGED <<launched, got, pc>>
    BY <1>0, <1>7, HeldIsHost DEF Put, main
  <2>2. \A k \in 1..Len(results) : results'[k] = results[k]
    BY <1>0, <2>1 DEF TypeOK
  <2>3. QED
    BY <2>1, <2>2, <1>3
<1>8. QED
  BY <1>3, <1>4, <1>5, <1>6, <1>7 DEF Next, Main, Worker, Exit, Alarm,
     Start, Respond, Respawn, vars, pool, main

(* Only finish() prints a server, and the exit code follows what was       *)
(* decided before it.                                                      *)
LEMMA AnnouncedStep == IInv /\ [Next]_vars => Announced'
<1> SUFFICES ASSUME IInv, [Next]_vars PROVE Announced'
  OBVIOUS
<1>1. TypeOK /\ Progress /\ Announced
  BY DEF IInv
<1>2. CASE Launch
  BY <1>1, <1>2 DEF Launch, Announced, pool
<1>3. CASE Collect
  BY <1>1, <1>3 DEF Collect, Announced, pool
<1>4. CASE Finish /\ exit = "running"
  BY <1>1, <1>4 DEF Finish, Announced, pool
<1>5. CASE NoAvailableServer /\ exit = "running"
  BY <1>1, <1>5 DEF NoAvailableServer, Announced, pool
<1>6. CASE Exit
  BY <1>1, <1>6 DEF Exit, Announced, pool
<1>7. CASE Alarm
  BY <1>1, <1>7 DEF Alarm, Announced, pool
<1>8. ASSUME NEW w \in Workers, Worker(w) PROVE Announced'
  <2>1. UNCHANGED <<pc, printed, answer, exit, got>>
    BY <1>8 DEF Worker, Start, Respond, Put, Respawn, main
  <2>2. \A k \in 1..Len(results) : results'[k] = results[k]
    <3>1. CASE UNCHANGED results
      BY <3>1
    <3>2. CASE Put(w)
      BY <1>1, <3>2, HeldIsHost DEF Put, TypeOK
    <3>3. QED
      BY <1>8, <3>1, <3>2 DEF Worker, Start, Respond, Respawn
  <2>3. printed = "server" => got \in 1..Len(results)
    BY <1>1 DEF TypeOK, Progress, Announced
  <2>4. QED
    BY <1>1, <2>1, <2>2, <2>3 DEF Announced
<1>9. CASE UNCHANGED vars
  BY <1>1, <1>9 DEF vars, Announced
<1>10. QED
  BY <1>2, <1>3, <1>4, <1>5, <1>6, <1>7, <1>8, <1>9 DEF Next, Main

(* No action of the main thread, the pool or a worker duplicates a host,   *)
(* or drops one except by losing its check.                                *)
LEMMA OnePlaceStep == IInv /\ [Next]_vars => OnePlace'
<1> SUFFICES ASSUME IInv, [Next]_vars PROVE OnePlace'
  OBVIOUS
<1>0. TypeOK /\ OnePlace
  BY DEF IInv
<1>1. /\ conf' = conf
      /\ \A h \in Hosts : /\ Passed(h) => Passed(h)'
                          /\ Falsy(h) => Falsy(h)'
                          /\ Lost(h) => Lost(h)'
  BY <1>0, Stable
<1>2. /\ started \in Nat /\ Len(results) \in Nat
      /\ \A k \in 1..Len(results) : results[k] \in Hosts
      /\ \A h \in Hosts : h \in Nat \ {0}
      /\ \A w \in Workers : hold[w] \in Nat /\ (hold[w] # 0 => hold[w] \in Hosts /\ hold[w] <= started)
      /\ hold \in [Workers -> 0..started] /\ response \in [Hosts -> {"none"} \union Responses(conf)]
  BY <1>0, HeldIsHost, HostsAssumption DEF TypeOK, Hosts
<1>3. Workers' = Workers
  BY <1>1 DEF Workers
<1>4. CASE UNCHANGED <<conf, started, hold, alive, response, results>>
  BY <1>0, <1>4, <1>3 DEF OnePlace, Passed, Falsy, Lost
<1>5. ASSUME NEW w \in Workers, Start(w) PROVE OnePlace'
  <2>1. /\ started' = started + 1 /\ hold' = [hold EXCEPT ![w] = started + 1]
        /\ hold[w] = 0 /\ w \in alive
        /\ UNCHANGED <<conf, alive, response, results>>
    BY <1>5 DEF Start
  <2>2. started + 1 \in Hosts
    BY <1>0, <1>5, HostsAssumption DEF Start, TypeOK, Hosts
  <2>3. response[started + 1] = "none"
    BY <1>0, <1>2, <2>2 DEF OnePlace
  <2>4. \A h \in Hosts : (Passed(h) <=> Passed(h)') /\ (Falsy(h) <=> Falsy(h)') /\ (Lost(h) <=> Lost(h)')
    BY <2>1 DEF Passed, Falsy, Lost
  <2>5. ~Lost(started + 1)
    BY <2>3 DEF Lost, Value
  <2>6. \A u \in Workers : hold'[u] = IF u = w THEN started + 1 ELSE hold[u]
    BY <2>1, <1>2
  <2>7. \A k \in 1..Len(results) : results[k] <= started
    BY <1>0 DEF OnePlace
  <2>8. (\A w1, w2 \in Workers : hold[w1] = hold[w2] /\ hold[w1] # 0 => w1 = w2)'
    BY <1>0, <1>2, <1>3, <2>6 DEF OnePlace
  <2>9. (\A u \in Workers : hold[u] # 0 => ~Lost(hold[u]))'
    <3> SUFFICES ASSUME NEW u \in Workers, hold'[u] # 0 PROVE (~Lost(hold[u]))'
      BY <1>3
    <3>1. ~Lost(hold'[u])
      BY <1>0, <2>5, <2>6 DEF OnePlace
    <3>2. QED
      BY <3>1, <2>1 DEF Lost
  <2>10. (\A u \in Workers : u \notin alive => hold[u] = 0)'
    BY <1>0, <1>3, <2>1, <2>6 DEF OnePlace
  <2>11. (\A k \in 1..Len(results) :
           /\ results[k] <= started
           /\ Passed(results[k]) \/ Falsy(results[k])
           /\ \A u \in Workers : hold[u] # results[k]
           /\ \A m \in 1..Len(results) : results[m] = results[k] => m = k)'
    <3> SUFFICES ASSUME NEW k \in 1..Len(results)
                 PROVE  /\ results[k] <= started + 1
                        /\ (Passed(results[k]) \/ Falsy(results[k]))'
                        /\ \A u \in Workers : hold'[u] # results[k]
                        /\ \A m \in 1..Len(results) : results[m] = results[k] => m = k
      BY <2>1, <1>3
    <3>1. (Passed(results[k]) \/ Falsy(results[k]))'
      BY <1>0, <2>1 DEF OnePlace, Passed, Falsy
    <3>2. results[k] <= started + 1 /\ \A u \in Workers : hold'[u] # results[k]
      BY <1>0, <1>2, <2>6, <2>7 DEF OnePlace
    <3>3. QED
      BY <1>0, <3>1, <3>2 DEF OnePlace
  <2>12. (\A h \in Hosts : IF h > started THEN response[h] = "none"
           ELSE \/ \E u \in Workers : hold[u] = h
                \/ \E k \in 1..Len(results) : results[k] = h
                \/ Lost(h))'
    <3> SUFFICES ASSUME NEW h \in Hosts
                 PROVE  IF h > started + 1 THEN response[h] = "none"
                        ELSE \/ \E u \in Workers : hold'[u] = h
                             \/ \E k \in 1..Len(results) : results[k] = h
                             \/ Lost(h)
      BY <2>1, <1>3, <2>4
    <3>1. CASE h > started + 1
      BY <3>1, <1>0, <1>2 DEF OnePlace
    <3>2. CASE h = started + 1
      BY <3>2, <2>6, <1>2
    <3>3. CASE h <= started
      <4>1. \A u \in Workers : hold[u] = h => u # w
        BY <2>1, <1>2
      <4>2. QED
        BY <3>3, <4>1, <2>6, <1>0, <1>2 DEF OnePlace
    <3>4. QED
      BY <3>1, <3>2, <3>3, <1>2
  <2>13. QED
    BY <2>8, <2>9, <2>10, <2>11, <2>12 DEF OnePlace
<1>6. ASSUME NEW w \in Workers, NEW r \in Responses(conf), Respond(w, r) PROVE OnePlace'
  <2> DEFINE i == hold[w]
             gone == Value(conf, r) \in {"raised", "died"}
  <2>1. /\ i \in Hosts /\ i # 0 /\ i <= started /\ response[i] = "none"
        /\ response' = [response EXCEPT ![i] = r]
        /\ hold' = IF gone THEN [hold EXCEPT ![w] = 0] ELSE hold
        /\ alive' = IF Value(conf, r) = "died" THEN alive \ {w} ELSE alive
        /\ UNCHANGED <<conf, started, results>>
    BY <1>2, <1>6 DEF Respond
  <2>2. ~Passed(i) /\ ~Falsy(i) /\ ~Lost(i)
    BY <2>1 DEF Passed, Falsy, Lost, Value
  <2>3. gone <=> Value(conf, response'[i]) \in {"raised", "died"}
    <3>1. response'[i] = r
      BY <2>1, <1>2
    <3>2. QED
      BY <3>1, <2>1
  <2>4. \A h \in Hosts : h # i => /\ Passed(h) <=> Passed(h)'
                                  /\ Falsy(h) <=> Falsy(h)'
                                  /\ Lost(h) <=> Lost(h)'
    BY <2>1, <1>2 DEF Passed, Falsy, Lost
  <2>5. \A u \in Workers : hold'[u] = IF u = w /\ gone THEN 0 ELSE hold[u]
    BY <2>1, <1>2
  <2>6. \A u \in Workers : hold[u] = i => u = w
    BY <1>0, <1>6, <2>1 DEF OnePlace
  <2>7. (\A w1, w2 \in Workers : hold[w1] = hold[w2] /\ hold[w1] # 0 => w1 = w2)'
    BY <1>0, <1>3, <2>5 DEF OnePlace
  <2>8. (\A u \in Workers : hold[u] # 0 => ~Lost(hold[u]))'
    <3> SUFFICES ASSUME NEW u \in Workers, hold'[u] # 0 PROVE (~Lost(hold[u]))'
      BY <1>3
    <3>1. hold'[u] = hold[u] /\ hold[u] \in Hosts
      BY <2>5, <1>2
    <3>2. CASE u = w
      BY <3>1, <3>2, <2>1, <2>3, <2>5 DEF Lost
    <3>3. CASE u # w
      <4>1. ~Lost(hold[u]) /\ hold[u] # i
        BY <1>0, <3>1, <3>3, <2>6 DEF OnePlace
      <4>2. QED
        BY <4>1, <3>1, <2>4 DEF Lost
    <3>4. QED
      BY <3>2, <3>3
  <2>9. (\A u \in Workers : u \notin alive => hold[u] = 0)'
    BY <1>0, <1>3, <2>1, <2>5 DEF OnePlace
  <2>10. (\A k \in 1..Len(results) :
           /\ results[k] <= started
           /\ Passed(results[k]) \/ Falsy(results[k])
           /\ \A u \in Workers : hold[u] # results[k]
           /\ \A m \in 1..Len(results) : results[m] = results[k] => m = k)'
    <3> SUFFICES ASSUME NEW k \in 1..Len(results)
                 PROVE  /\ results[k] <= started
                        /\ (Passed(results[k]) \/ Falsy(results[k]))'
                        /\ \A u \in Workers : hold'[u] # results[k]
                        /\ \A m \in 1..Len(results) : results[m] = results[k] => m = k
      BY <2>1, <1>3
    <3>1. results[k] # i /\ results[k] \in Hosts
      BY <1>0, <1>2, <2>2 DEF OnePlace
    <3>2. (Passed(results[k]) \/ Falsy(results[k]))'
      BY <1>0, <2>1, <3>1, <1>2 DEF OnePlace, Passed, Falsy
    <3>3. results[k] # 0
      BY <3>1, <1>2
    <3>4. QED
      BY <1>0, <2>5, <3>2, <3>3 DEF OnePlace
  <2>11. (\A h \in Hosts : IF h > started THEN response[h] = "none"
           ELSE \/ \E u \in Workers : hold[u] = h
                \/ \E k \in 1..Len(results) : results[k] = h
                \/ Lost(h))'
    <3> SUFFICES ASSUME NEW h \in Hosts
                 PROVE  IF h > started THEN response'[h] = "none"
                        ELSE \/ \E u \in Workers : hold'[u] = h
                             \/ \E k \in 1..Len(results) : results[k] = h
                             \/ Lost(h)'
      BY <2>1, <1>3
    <3>1. CASE h = i
      <4>1. CASE gone
        BY <3>1, <4>1, <2>1, <2>3, <1>2 DEF Lost
      <4>2. CASE ~gone
        BY <3>1, <4>2, <2>1, <2>5, <1>2
      <4>3. QED
        BY <4>1, <4>2
    <3>2. CASE h # i
      <4>1. \A u \in Workers : hold[u] = h => hold'[u] = h
        BY <3>2, <2>5
      <4>2. QED
        BY <3>2, <4>1, <1>0, <1>2, <2>1, <2>4 DEF OnePlace
    <3>3. QED
      BY <3>1, <3>2
  <2>12. QED
    BY <2>7, <2>8, <2>9, <2>10, <2>11 DEF OnePlace
<1>7. ASSUME NEW w \in Workers, Put(w) PROVE OnePlace'
  <2> DEFINE i == hold[w]
  <2>1. /\ i \in Hosts /\ i # 0 /\ i <= started
        /\ Passed(i) \/ Falsy(i)
        /\ results' = Append(results, i)
        /\ hold' = [hold EXCEPT ![w] = 0]
        /\ UNCHANGED <<conf, started, alive, response>>
    BY <1>2, <1>7 DEF Put, Passed, Falsy
  <2>2. \A u \in Workers : hold'[u] = IF u = w THEN 0 ELSE hold[u]
    BY <2>1, <1>2
  <2>3. /\ Len(results') = Len(results) + 1
        /\ \A k \in 1..Len(results) : results'[k] = results[k]
        /\ results'[Len(results) + 1] = i
    BY <1>0, <2>1 DEF TypeOK
  <2>4. \A k \in 1..Len(results') : k \in 1..Len(results) \/ k = Len(results) + 1
    BY <2>3, <1>2
  <2>5. \A k \in 1..Len(results) : results[k] # i
    BY <1>0, <1>7 DEF OnePlace
  <2>6. \A u \in Workers : hold[u] = i => u = w
    BY <1>0, <1>7, <2>1 DEF OnePlace
  <2>7. (\A w1, w2 \in Workers : hold[w1] = hold[w2] /\ hold[w1] # 0 => w1 = w2)'
    BY <1>0, <1>3, <2>2 DEF OnePlace
  <2>8. (\A u \in Workers : hold[u] # 0 => ~Lost(hold[u]))'
    BY <1>0, <1>3, <2>1, <2>2 DEF OnePlace, Lost
  <2>9. (\A u \in Workers : u \notin alive => hold[u] = 0)'
    BY <1>0, <1>3, <2>1, <2>2 DEF OnePlace
  <2>10. ASSUME NEW k \in 1..Len(results')
         PROVE  /\ results'[k] <= started
                /\ (Passed(results[k]) \/ Falsy(results[k]))'
                /\ \A u \in Workers : hold'[u] # results'[k]
                /\ \A m \in 1..Len(results') : results'[m] = results'[k] => m = k
    <3>1. CASE k = Len(results) + 1
      <4>1. (Passed(results[k]) \/ Falsy(results[k]))'
        BY <2>1, <2>3, <3>1 DEF Passed, Falsy
      <4>2. \A u \in Workers : hold'[u] # i
        BY <2>1, <2>2, <2>6
      <4>3. \A m \in 1..Len(results') : results'[m] = i => m = k
        BY <2>3, <2>4, <2>5, <3>1
      <4>4. QED
        BY <2>1, <2>3, <3>1, <4>1, <4>2, <4>3
    <3>2. CASE k \in 1..Len(results)
      <4>1. (Passed(results[k]) \/ Falsy(results[k]))'
        BY <1>0, <2>1, <2>3, <3>2 DEF OnePlace, Passed, Falsy
      <4>2. results[k] # 0
        BY <1>2, <3>2
      <4>3. \A u \in Workers : hold'[u] # results[k]
        BY <1>0, <2>2, <3>2, <4>2 DEF OnePlace
      <4>4. \A m \in 1..Len(results') : results'[m] = results[k] => m = k
        BY <1>0, <2>3, <2>4, <2>5, <3>2 DEF OnePlace
      <4>5. results[k] <= started
        BY <1>0, <3>2 DEF OnePlace
      <4>6. QED
        BY <2>3, <3>2, <4>1, <4>3, <4>4, <4>5
    <3>3. QED
      BY <2>4, <3>1, <3>2
  <2>11. ASSUME NEW h \in Hosts
         PROVE  IF h > started THEN response[h] = "none"
                ELSE \/ \E u \in Workers : hold'[u] = h
                     \/ \E k \in 1..Len(results') : results'[k] = h
                     \/ Lost(h)
    <3>1. CASE h = i
      <4>1. Len(results) + 1 \in 1..Len(results') /\ results'[Len(results) + 1] = h
        BY <2>3, <3>1, <1>2
      <4>2. QED
        BY <4>1, <3>1, <2>1, <1>2
    <3>2. CASE h # i
      <4>1. \A u \in Workers : hold[u] = h => hold'[u] = h
        BY <3>2, <2>2
      <4>2. \A k \in 1..Len(results) : k \in 1..Len(results') /\ results'[k] = results[k]
        BY <2>3, <1>2
      <4>3. QED
        BY <4>1, <4>2, <1>0 DEF OnePlace
    <3>3. QED
      BY <3>1, <3>2
  <2>12. \A h \in Hosts : Lost(h)' <=> Lost(h)
    BY <2>1 DEF Lost
  <2>13. QED
    BY <1>3, <2>1, <2>7, <2>8, <2>9, <2>10, <2>11, <2>12 DEF OnePlace
<1>8. ASSUME NEW w \in Workers, Respawn(w) PROVE OnePlace'
  <2>1. alive' = alive \union {w} /\ UNCHANGED <<conf, started, hold, response, results>>
    BY <1>8 DEF Respawn
  <2>2. (\A u \in Workers : u \notin alive => hold[u] = 0)'
    BY <1>0, <1>3, <2>1 DEF OnePlace
  <2>3. QED
    BY <1>0, <1>3, <2>1, <2>2 DEF OnePlace, Passed, Falsy, Lost
<1>9. QED
  BY <1>4, <1>5, <1>6, <1>7, <1>8 DEF Next, Main, Worker, Launch, Collect, Finish,
     NoAvailableServer, Exit, Alarm, vars, pool, main

-----------------------------------------------------------------------------
(* The sets that BoundedPassing counts are finite.                         *)
LEMMA PassingFinite ==
    ASSUME TypeOK, NEW k \in 1..Len(results)
    PROVE  IsFiniteSet(Passing(k)) /\ Passing(k) \subseteq Hosts
<1>1. results[k] \in Hosts
  BY DEF TypeOK
<1>2. Passing(k) \subseteq Hosts
  BY <1>1, HostsAssumption DEF Passing, Hosts
<1>3. IsFiniteSet(Hosts)
  BY FS_Interval, HostsAssumption DEF Hosts
<1>4. QED
  BY <1>2, <1>3, FS_Subset

(* A set of hosts that are all held by workers other than w is smaller     *)
(* than the pool.                                                          *)
LEMMA HeldByOthers ==
    ASSUME TypeOK, NEW w \in Workers, NEW S,
           \A h \in S : \E u \in Workers \ {w} : hold[u] = h
    PROVE  Cardinality(S) < conf.threads
<1> DEFINE f == [h \in S |-> CHOOSE u \in Workers \ {w} : hold[u] = h]
<1>1. \A h \in S : f[h] \in Workers \ {w} /\ hold[f[h]] = h
  OBVIOUS
<1>2. f \in Injection(S, Workers \ {w})
  BY <1>1 DEF Injection, IsInjective
<1>3. conf.threads \in Nat \ {0}
  BY ConfsAssumption DEF TypeOK, ConfType
<1>4. IsFiniteSet(Workers) /\ Cardinality(Workers) = conf.threads
  BY <1>3, CountingInterval DEF Workers
<1>5. IsFiniteSet(Workers \ {w}) /\ Cardinality(Workers \ {w}) = conf.threads - 1
  BY <1>4, FS_RemoveElement
<1>6. IsFiniteSet(S) /\ Cardinality(S) <= Cardinality(Workers \ {w})
  BY <1>2, <1>5, FS_Injection
<1>7. QED
  BY <1>3, <1>5, <1>6, FS_CardinalityType

(* What a put result can have overtaken was in the hands of the other      *)
(* workers at that moment (Put), and stays so.                             *)
LEMMA BoundedPassingStep == IInv /\ [Next]_vars => BoundedPassing'
<1> SUFFICES ASSUME IInv, [Next]_vars PROVE BoundedPassing'
  OBVIOUS
<1>0. TypeOK /\ OnePlace /\ BoundedPassing /\ conf' = conf
  BY Stable DEF IInv
<1>1. /\ \A h \in Hosts : Lost(h) => Lost(h)'
      /\ \A h \in Hosts : h \in Nat \ {0}
      /\ started \in Nat /\ Len(results) \in Nat
      /\ \A k \in 1..Len(results) : results[k] \in Hosts
  BY <1>0, Stable, HostsAssumption DEF TypeOK, Hosts
<1>2. ASSUME NEW k \in 1..Len(results), \A m \in 1..k : results'[m] = results[m]
      PROVE  Cardinality(Passing(k))' < conf.threads
  <2>1. IsFiniteSet(Passing(k)) /\ Passing(k) \subseteq Hosts
    BY <1>0, PassingFinite
  <2>2. Passing(k)' \subseteq Passing(k)
    <3> SUFFICES ASSUME NEW h \in Passing(k)' PROVE h \in Passing(k)
      OBVIOUS
    <3>1. k \in 1..k /\ k \in Nat /\ \A m \in 1..(k - 1) : m \in 1..k
      BY <1>1
    <3>2. results'[k] = results[k] /\ \A m \in 1..(k - 1) : results'[m] = results[m]
      BY <1>2, <3>1
    <3>3. h \in 1..(results[k] - 1) /\ ~Lost(h)' /\ \A m \in 1..(k - 1) : results[m] # h
      BY <3>2 DEF Passing
    <3>4. results[k] \in Hosts
      BY <1>1
    <3>5. h \in Hosts
      BY <3>3, <3>4, <1>1, HostsAssumption DEF Hosts
    <3>6. QED
      BY <3>3, <3>5, <1>1 DEF Passing
  <2>3. Cardinality(Passing(k)') <= Cardinality(Passing(k)) /\ Cardinality(Passing(k)') \in Nat
        /\ Cardinality(Passing(k)) \in Nat
    BY <2>1, <2>2, FS_Subset, FS_CardinalityType
  <2>4. Cardinality(Passing(k)) < conf.threads /\ conf.threads \in Nat
    BY <1>0, ConfsAssumption DEF BoundedPassing, TypeOK, ConfType
  <2>5. QED
    BY <2>3, <2>4
<1>3. CASE UNCHANGED results
  BY <1>0, <1>1, <1>2, <1>3 DEF BoundedPassing
<1>4. ASSUME NEW w \in Workers, Put(w) PROVE BoundedPassing'
  <2>0. PICK n : n = Len(results) + 1
    OBVIOUS
  <2>1. /\ hold[w] \in Hosts /\ hold[w] <= started
        /\ results' = Append(results, hold[w])
        /\ UNCHANGED <<conf, response>>
    BY <1>0, <1>4, HeldIsHost DEF Put, TypeOK
  <2>2. /\ Len(results') = n /\ results'[n] = hold[w]
        /\ \A k \in 1..Len(results) : results'[k] = results[k]
    BY <1>0, <2>0, <2>1 DEF TypeOK
  <2>3. \A h \in Passing(n)' : \E u \in Workers \ {w} : hold[u] = h
    <3> SUFFICES ASSUME NEW h \in Passing(n)' PROVE \E u \in Workers \ {w} : hold[u] = h
      OBVIOUS
    <3>1. h \in 1..(hold[w] - 1) /\ ~Lost(h) /\ \A m \in 1..(n - 1) : results'[m] # h
      BY <2>1, <2>2 DEF Passing, Lost
    <3>2. h \in Hosts /\ h <= started /\ h # hold[w]
      BY <3>1, <2>1, <1>1, HostsAssumption DEF Hosts
    <3>3. \A k \in 1..Len(results) : results[k] # h
      BY <3>1, <2>0, <2>2, <1>1
    <3>4. \E u \in Workers : hold[u] = h
      BY <3>1, <3>2, <3>3, <1>0, <1>1 DEF OnePlace
    <3>5. QED
      BY <3>2, <3>4
  <2>4. Cardinality(Passing(n)') < conf.threads
    BY <2>3, <1>0, HeldByOthers
  <2>5. ASSUME NEW k \in 1..Len(results') PROVE Cardinality(Passing(k))' < conf.threads
    <3>1. CASE k \in 1..Len(results)
      <4>1. \A m \in 1..k : results'[m] = results[m]
        BY <3>1, <2>2, <1>1
      <4>2. QED
        BY <3>1, <4>1, <1>2
    <3>2. CASE k = n
      BY <3>2, <2>4
    <3>3. QED
      BY <3>1, <3>2, <2>0, <2>2, <1>1
  <2>6. QED
    BY <2>5, <1>0 DEF BoundedPassing
<1>5. QED
  BY <1>3, <1>4 DEF Next, Main, Worker, Launch, Collect, Finish, NoAvailableServer,
     Exit, Alarm, Start, Respond, Respawn, vars, pool, main

-----------------------------------------------------------------------------
(* IInv holds initially and every step of the main thread, of a worker and *)
(* of the pool preserves it.                                               *)
THEOREM Invariance == Spec => []IInv
<1>1. Init => IInv
  <2> SUFFICES ASSUME Init PROVE IInv
    OBVIOUS
  <2>1. TypeOK
    BY HostsAssumption, ConfsAssumption DEF Init, TypeOK, ConfType, Workers, Hosts
  <2>2. Progress /\ Announced
    BY HostsAssumption DEF Init, Progress, Announced
  <2>3. OnePlace
    BY DEF Init, OnePlace, Hosts
  <2>4. BoundedPassing
    BY DEF Init, BoundedPassing
  <2>5. QED
    BY <2>1, <2>2, <2>3, <2>4 DEF IInv
<1>2. IInv /\ [Next]_vars => IInv'
  BY TypeStep, ProgressStep, AnnouncedStep, OnePlaceStep, BoundedPassingStep DEF IInv
<1>3. QED
  BY <1>1, <1>2, PTL DEF Spec

(* The variables stay in their types, for every number of hosts, threads   *)
(* and every set of configurations.                                        *)
THEOREM TypeCorrect == Spec => []TypeOK
<1>1. IInv => TypeOK
  BY DEF IInv
<1>2. QED
  BY Invariance, <1>1, PTL

(* ValueFacts for the host of a state.                                     *)
LEMMA ResponseValue ==
    ASSUME TypeOK, NEW h \in Hosts
    PROVE  /\ Passed(h) => Qualifies(conf, response[h])
           /\ Falsy(h) => ~Qualifies(conf, response[h])
           /\ ~(Passed(h) /\ Falsy(h))
<1>1. conf \in ConfType /\ response[h] \in {"none"} \union Responses(conf)
  BY ConfsAssumption DEF TypeOK
<1>2. QED
  BY <1>1, ValueFacts DEF Passed, Falsy

(* A server is printed only if it met the test criteria when checked, and  *)
(* exit code 0 implies that one was printed.                               *)
THEOREM AnswerTheorem == Spec => []AnswerQualifies
<1>1. IInv => AnswerQualifies
  <2> SUFFICES ASSUME IInv PROVE AnswerQualifies
    OBVIOUS
  <2>1. TypeOK /\ Progress /\ Announced
    BY DEF IInv
  <2>2. ASSUME printed = "server" PROVE Qualifies(conf, response[answer])
    <3>1. pc = "exit0" /\ answer = results[got]
      BY <2>1, <2>2 DEF Announced
    <3>2. got \in 1..Len(results) /\ Passed(results[got])
      BY <2>1, <3>1 DEF Progress, TypeOK
    <3>3. results[got] \in Hosts
      BY <2>1, <3>2 DEF TypeOK
    <3>4. QED
      BY <2>1, <3>1, <3>2, <3>3, ResponseValue
  <2>3. exit = "0" => printed = "server"
    BY <2>1 DEF Announced
  <2>4. QED
    BY <2>2, <2>3 DEF AnswerQualifies
<1>2. QED
  BY Invariance, <1>1, PTL

(* NumHosts distinct results are all the hosts.                            *)
LEMMA AllHostsTaken ==
    ASSUME IInv, got = NumHosts, NEW h \in Hosts
    PROVE  \E k \in 1..got : results[k] = h
<1> DEFINE f == [k \in Hosts |-> results[k]]
<1>1. /\ NumHosts \in Nat \ {0} /\ got <= Len(results) /\ Len(results) \in Nat
      /\ \A k \in 1..Len(results) : results[k] \in Hosts
      /\ \A k, m \in 1..Len(results) : results[m] = results[k] => m = k
  BY HostsAssumption DEF IInv, TypeOK, OnePlace
<1>2. \A k \in Hosts : k \in 1..Len(results)
  BY <1>1 DEF Hosts
<1>3. f \in Injection(Hosts, Hosts)
  BY <1>1, <1>2 DEF Injection, IsInjective
<1>4. IsFiniteSet(Hosts)
  BY <1>1, FS_Interval DEF Hosts
<1>5. f \in Surjection(Hosts, Hosts)
  BY <1>3, <1>4, FS_Injection
<1>6. QED
  BY <1>5 DEF Surjection, Hosts

(* The state invariant behind NobodyTheorem, also used for the refinement. *)
LEMMA NobodyFromIInv == IInv => NobodyOnlyIfAllRefused
<1> SUFFICES ASSUME IInv, exit = "1", NEW h \in Hosts
             PROVE  Falsy(h) /\ ~Qualifies(conf, response[h])
  BY DEF NobodyOnlyIfAllRefused
<1>1. TypeOK /\ Progress /\ Announced
  BY DEF IInv
<1>2. pc = "exit1" /\ got = NumHosts /\ Falsy(results[got])
  BY <1>1 DEF Announced, Progress
<1>3. PICK k \in 1..got : results[k] = h
  BY <1>2, AllHostsTaken
<1>4. Falsy(h)
  <2>1. CASE k = got
    BY <1>2, <1>3, <2>1
  <2>2. CASE k < got
    BY <1>1, <1>3, <2>2 DEF Progress
  <2>3. QED
    BY <1>1, <2>1, <2>2 DEF TypeOK
<1>5. QED
  BY <1>1, <1>4, ResponseValue

(* NO_AVAILABLE_SERVER (exit code 1) is the verdict only when each host    *)
(* was checked and refused.                                                *)
THEOREM NobodyTheorem == Spec => []NobodyOnlyIfAllRefused
  BY Invariance, NobodyFromIInv, PTL

(* Fewer than --num-threads hosts that did not refuse can have been passed *)
(* over for the answer; with one thread the first that passes is it.       *)
THEOREM PreferenceTheorem == Spec => []PreferenceBound
<1>1. IInv => PreferenceBound
  <2> SUFFICES ASSUME IInv, printed = "server"
               PROVE  Cardinality(Overtaken) < conf.threads
    BY DEF PreferenceBound
  <2>1. TypeOK /\ Progress /\ Announced /\ BoundedPassing
    BY DEF IInv
  <2>2. pc = "exit0" /\ answer = results[got] /\ got \in 1..Len(results)
    BY <2>1 DEF Announced, Progress, TypeOK
  <2>3. \A m \in 1..(got - 1) : Falsy(results[m])
    BY <2>1, <2>2 DEF Progress, TypeOK
  <2>4. Overtaken \subseteq Passing(got)
    BY <2>2, <2>3 DEF Overtaken, Passing
  <2>5. IsFiniteSet(Passing(got)) /\ Cardinality(Passing(got)) < conf.threads
    BY <2>1, <2>2, PassingFinite DEF BoundedPassing
  <2>6. /\ Cardinality(Overtaken) <= Cardinality(Passing(got))
        /\ Cardinality(Overtaken) \in Nat /\ Cardinality(Passing(got)) \in Nat
    BY <2>4, <2>5, FS_Subset, FS_CardinalityType
  <2>7. conf.threads \in Nat
    BY <2>1, ConfsAssumption DEF TypeOK, ConfType
  <2>8. QED
    BY <2>5, <2>6, <2>7
<1>2. QED
  BY Invariance, <1>1, PTL

(* Only a check that raised or died can leave the main thread blocked in   *)
(* queue.get() for good.                                                   *)
THEOREM StarvationTheorem == Spec => []StarvedOnlyByLostCheck
<1>1. IInv => StarvedOnlyByLostCheck
  <2> SUFFICES ASSUME IInv, Starved, \A h \in Hosts : ~Lost(h)
               PROVE  FALSE
    BY DEF StarvedOnlyByLostCheck
  <2> DEFINE f == [k \in 1..got |-> results[k]]
  <2>1. TypeOK /\ Progress /\ OnePlace
    BY DEF IInv
  <2>2. /\ got = Len(results) /\ got \in Nat /\ got < NumHosts /\ NumHosts \in Nat
        /\ \A k \in 1..got : results[k] \in Hosts
    BY <2>1, HostsAssumption DEF Starved, Progress, TypeOK
  <2>3. \A h \in Hosts : \E k \in 1..got : results[k] = h
    <3> SUFFICES ASSUME NEW h \in Hosts PROVE \E k \in 1..got : results[k] = h
      OBVIOUS
    <3>1. h # 0 /\ ~(h > started)
      BY HostsAssumption DEF Starved, Hosts
    <3>2. QED
      BY <2>1, <2>2, <3>1 DEF OnePlace, Starved
  <2>4. f \in Surjection(1..got, Hosts)
    BY <2>2, <2>3 DEF Surjection
  <2>5. IsFiniteSet(1..got) /\ Cardinality(1..got) = got
    BY <2>2, CountingInterval
  <2>6. Cardinality(Hosts) = NumHosts
    BY HostsAssumption, CountingInterval DEF Hosts
  <2>7. Cardinality(Hosts) <= Cardinality(1..got)
    BY <2>4, <2>5, FS_Surjection
  <2>8. QED
    BY <2>2, <2>5, <2>6, <2>7
<1>2. QED
  BY Invariance, <1>1, PTL

-----------------------------------------------------------------------------
(* The threads, the queue and the alarm implement ServerSelection.         *)
THEOREM Refinement == Spec => Selects
<1>1. Init => Selection!Init
  <2> SUFFICES ASSUME Init PROVE Selection!Init
    OBVIOUS
  <2>1. \A h \in Hosts : ~Passed(h) /\ ~Falsy(h)
    BY DEF Init, Passed, Falsy, Value
  <2>2. printed # "server" /\ exit = "running"
    BY DEF Init
  <2>3. QED
    BY <2>1, <2>2 DEF Selection!Init
<1>2. IInv /\ IInv' /\ [Next]_vars => [Selection!Next]_Selection!vars
  <2> SUFFICES ASSUME IInv, IInv', [Next]_vars PROVE [Selection!Next]_Selection!vars
    OBVIOUS
  <2>1. TypeOK /\ Progress /\ Announced /\ OnePlace /\ conf' = conf
    BY Stable DEF IInv
  <2> DEFINE Verdict == [h \in Hosts |-> IF Passed(h) THEN "passed"
                                         ELSE IF Falsy(h) THEN "failed" ELSE "unknown"]
  <2>2. ASSUME UNCHANGED <<conf, response>> PROVE Verdict' = Verdict
    BY <2>2 DEF Passed, Falsy
  <2>3. CASE UNCHANGED <<conf, response, printed, answer, exit>>
    BY <2>2, <2>3 DEF Selection!vars
  <2>4. CASE Finish /\ exit = "running"
    <3>1. /\ printed' = "server" /\ answer' = results[got] /\ pc = "finish"
          /\ UNCHANGED <<conf, response, exit>>
      BY <2>4 DEF Finish, pool
    <3>2. printed # "server"
      BY <2>1, <3>1 DEF Announced
    <3>3. got \in 1..Len(results) /\ Passed(results[got])
      BY <2>1, <3>1 DEF Progress, TypeOK
    <3>4. results[got] \in Hosts /\ Verdict[results[got]] = "passed"
      BY <2>1, <3>3 DEF TypeOK
    <3>5. Selection!Announce(results[got])
      BY <2>2, <2>4, <3>1, <3>2, <3>4 DEF Selection!Announce
    <3>6. QED
      BY <3>4, <3>5 DEF Selection!Next
  <2>5. CASE NoAvailableServer /\ exit = "running"
    <3>1. printed # "server" /\ printed' # "server" /\ UNCHANGED <<conf, response, answer, exit>>
      BY <2>1, <2>5 DEF NoAvailableServer, Announced, pool
    <3>2. QED
      BY <2>2, <3>1 DEF Selection!vars
  <2>6. CASE Exit /\ exit = "running"
    <3>1. UNCHANGED <<conf, response, printed, answer, pc>>
      BY <2>6 DEF Exit, pool
    <3>2. CASE pc = "exit0"
      <4>1. printed = "server"
        BY <2>1, <3>2 DEF Announced
      <4>2. QED
        BY <2>2, <3>1, <4>1 DEF Selection!vars
    <3>3. CASE pc = "exit1"
      <4>1. printed # "server" /\ exit' = "1"
        BY <2>1, <2>6, <3>3 DEF Announced, Exit
      <4>2. NobodyOnlyIfAllRefused'
        BY NobodyFromIInv, PTL
      <4>3. \A h \in Hosts : Falsy(h)
        BY <3>1, <4>1, <4>2 DEF NobodyOnlyIfAllRefused, Falsy
      <4>4. \A h \in Hosts : Verdict[h] = "failed"
        BY <2>1, <4>3, ResponseValue
      <4>5. Selection!AnnounceNobody
        BY <2>2, <2>6, <3>1, <4>1, <4>4 DEF Selection!AnnounceNobody
      <4>6. QED
        BY <4>5 DEF Selection!Next
    <3>4. QED
      BY <2>6, <3>2, <3>3 DEF Exit
  <2>7. CASE Alarm /\ exit = "running"
    <3>1. exit' = "3" /\ UNCHANGED <<conf, response, printed, answer>>
      BY <2>7 DEF Alarm, pool
    <3>2. CASE printed = "server"
      BY <2>2, <3>1, <3>2 DEF Selection!vars
    <3>3. CASE printed # "server"
      <4>1. Selection!GiveUp
        BY <2>2, <2>7, <3>1, <3>3 DEF Selection!GiveUp
      <4>2. QED
        BY <4>1 DEF Selection!Next
    <3>4. QED
      BY <3>2, <3>3
  <2>8. ASSUME NEW w \in Workers, NEW r \in Responses(conf), Respond(w, r)
        PROVE  [Selection!Next]_Selection!vars
    <3>1. PICK i \in Hosts : i = hold[w]
      BY <2>1, <2>8, HeldIsHost DEF Respond
    <3>2. /\ response[i] = "none" /\ response' = [response EXCEPT ![i] = r]
          /\ UNCHANGED <<conf, printed, answer, exit>>
      BY <2>8, <3>1 DEF Respond, main
    <3>3. Verdict[i] = "unknown"
      BY <3>2 DEF Passed, Falsy, Value
    <3>4. Verdict' = [Verdict EXCEPT ![i] = Verdict'[i]]
      <4>1. \A h \in Hosts : h # i => Verdict'[h] = Verdict[h]
        BY <2>1, <3>2 DEF TypeOK, Passed, Falsy
      <4>2. QED
        BY <4>1
    <3>5. Verdict'[i] \in {"passed", "failed", "unknown"}
      OBVIOUS
    <3>6. CASE Verdict'[i] = "unknown"
      <4>1. Verdict' = Verdict
        BY <3>3, <3>4, <3>6
      <4>2. QED
        BY <3>2, <4>1 DEF Selection!vars
    <3>7. CASE Verdict'[i] # "unknown"
      <4>1. Selection!Judge(i)
        BY <3>2, <3>3, <3>4, <3>5, <3>7 DEF Selection!Judge
      <4>2. QED
        BY <4>1 DEF Selection!Next
    <3>8. QED
      BY <3>6, <3>7
  <2>9. QED
    BY <2>3, <2>4, <2>5, <2>6, <2>7, <2>8 DEF Next, Main, Worker, Launch, Collect,
       Start, Put, Respawn, vars, pool, main
<1>3. QED
  BY <1>1, <1>2, Invariance, PTL DEF Spec, Selects, Selection!Spec
=============================================================================
