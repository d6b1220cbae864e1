-------------------------- MODULE BlueprintsProofs ---------------------------
(* Proofs about Blueprints: what is registered is whole and has its name,   *)
(* and no file is left empty but by being cut short, for any server, files, *)
(* runs and changes by others.                                              *)
EXTENDS Blueprints, FiniteSetTheorems, SequenceTheorems, TLAPS

(* Documents.                                                               *)
LEMMA StripsToDocument ==
    ASSUME NEW doc \in Document
    PROVE  Strip(doc) \in Document /\ Strip(doc).href = doc.href
<1>1. CASE ~run.strip \/ ~doc.top
  BY <1>1 DEF Strip
<1>2. CASE ~(~run.strip \/ ~doc.top)
  <2> DEFINE groups == [k \in DOMAIN doc.groups |-> doc.groups[k] /\ \E j \in 1..k : ~doc.groups[j]]
  <2>1. doc.groups \in Seq(BOOLEAN)
    BY DEF Document
  <2>2. groups \in Seq(BOOLEAN)
    <3>1. Len(doc.groups) \in Nat /\ groups \in [1..Len(doc.groups) -> BOOLEAN]
      BY <2>1
    <3> DEFINE n == Len(doc.groups)
    <3>2. n \in Nat /\ groups \in [1..n -> BOOLEAN]
      BY <3>1
    <3> HIDE DEF groups, n
    <3>3. QED
      BY <3>2, SeqDef
  <2>3. Strip(doc) = [doc EXCEPT !.top = FALSE, !.groups = groups]
    BY <1>2 DEF Strip
  <2> HIDE DEF groups
  <2>4. [doc EXCEPT !.top = FALSE, !.groups = groups] \in Document
    BY <2>2 DEF Document
  <2>5. [doc EXCEPT !.top = FALSE, !.groups = groups].href = doc.href
    BY DEF Document
  <2>6. QED
    BY <2>3, <2>4, <2>5
<1>3. QED
  BY <1>1, <1>2

LEMMA FetchesDocument ==
    ASSUME NEW doc \in Document
    PROVE  Strip([doc EXCEPT !.href = FALSE]) \in Document /\ ~Strip([doc EXCEPT !.href = FALSE]).href
<1>1. [doc EXCEPT !.href = FALSE] \in Document /\ [doc EXCEPT !.href = FALSE].href = FALSE
  BY DEF Document
<1>2. QED
  BY <1>1, StripsToDocument

LEMMA Renamed ==
    ASSUME NEW doc \in Document, NEW name \in Option
    PROVE  /\ [doc EXCEPT !.name = name] \in Document
           /\ [doc EXCEPT !.name = name].name = name
           /\ [doc EXCEPT !.name = name].section = doc.section
BY DEF Document, Option

(* What the server has: one more document, or one less.                     *)
LEMMA ServerGrows ==
    ASSUME NEW docs, OnServer(docs), NEW n \in Names, NEW doc \in Document
    PROVE  OnServer(With(docs, n, doc))
BY DEF OnServer, With

LEMMA ServerShrinks ==
    ASSUME NEW docs, OnServer(docs), NEW n
    PROVE  OnServer(Without(docs, n))
BY DEF OnServer, Without

(* The list of items of one kind.                                           *)
LEMMA ItemsType ==
    ASSUME NEW kind \in {"blueprint", "cluster"}, NEW names \in SUBSET Names
    PROVE  Items(kind, names) \in Seq(Item)
<1>1. IsFiniteSet(names)
  BY ServerAssumption, FS_Subset
<1>2. Cardinality(names) \in Nat /\ ExistsBijection(1..Cardinality(names), names)
  BY <1>1, FS_CardinalityType
<1> DEFINE n == Cardinality(names)
<1>3. \E f \in [1..n -> names] : IsInjective(f)
  BY <1>2 DEF ExistsBijection, Bijection, Injection, IsInjective
<1>4. SetToSeq(names) \in [1..n -> names]
  BY <1>3 DEF SetToSeq
<1>5. \A k \in 1..n : [kind |-> kind, name |-> SetToSeq(names)[k]] \in Item
  BY <1>4 DEF Item
<1>6. Items(kind, names) = [k \in 1..n |-> [kind |-> kind, name |-> SetToSeq(names)[k]]]
  BY <1>4 DEF Items
<1>7. Items(kind, names) \in [1..n -> Item]
  BY <1>5, <1>6
<1>8. QED
  BY <1>2, <1>7, SeqDef

-----------------------------------------------------------------------------
(* The item being saved, and its file.                                      *)
LEMMA Saving ==
    ASSUME TypeOK, pc \in {"fetch", "open", "write"}
    PROVE  /\ Head(todo) \in Item /\ Head(todo) \in found /\ Tail(todo) \in Seq(Item)
           /\ Path \in Names /\ PathOf(Head(todo)) = Path
           /\ ToSet(todo) = ToSet(Tail(todo)) \union {Head(todo)}
<1>1. todo \in Seq(Item) /\ todo # <<>> /\ ToSet(todo) \subseteq found
  BY DEF TypeOK
<1>2. Head(todo) \in Item /\ Tail(todo) \in Seq(Item)
  BY <1>1
<1>3. run.file \in Option
  BY RunsAssumption DEF TypeOK
<1>4. Path \in Names /\ PathOf(Head(todo)) = Path
  BY <1>2, <1>3, SuffixAssumption DEF Path, PathOf, Item, Option
<1>5. ToSet(todo) = ToSet(Tail(todo)) \union {Head(todo)}
  <2>1. /\ Len(todo) \in Nat \ {0} /\ DOMAIN todo = 1..Len(todo) /\ Head(todo) = todo[1]
        /\ DOMAIN Tail(todo) = 1..(Len(todo) - 1)
        /\ \A k \in 1..(Len(todo) - 1) : Tail(todo)[k] = todo[k + 1]
    BY <1>1
  <2>2. ASSUME NEW k \in DOMAIN todo
        PROVE  todo[k] \in ToSet(Tail(todo)) \union {Head(todo)}
    <3>1. CASE k = 1
      BY <2>1, <3>1
    <3>2. CASE k # 1
      <4>1. k - 1 \in DOMAIN Tail(todo) /\ Tail(todo)[k - 1] = todo[k]
        BY <2>1, <3>2
      <4>2. QED
        BY <4>1 DEF ToSet
    <3>3. QED
      BY <3>1, <3>2
  <2>3. ASSUME NEW k \in DOMAIN Tail(todo) PROVE Tail(todo)[k] \in ToSet(todo)
    <3>1. k + 1 \in DOMAIN todo /\ Tail(todo)[k] = todo[k + 1]
      BY <2>1
    <3>2. QED
      BY <3>1 DEF ToSet
  <2>4. Head(todo) \in ToSet(todo)
    BY <2>1 DEF ToSet
  <2>5. QED
    BY <2>2, <2>3, <2>4 DEF ToSet
<1>6. QED
  BY <1>1, <1>2, <1>4, <1>5 DEF ToSet

LEMMA ToSetType == ASSUME NEW S, NEW s \in Seq(S) PROVE ToSet(s) \subseteq S
BY DEF ToSet

(* What is listed is saved.                                                 *)
LEMMA Listing ==
    ASSUME TypeOK, GetBlueprints \/ GetClusters
    PROVE  todo' \in Seq(Item)
<1>1. todo \in Seq(Item) /\ DOMAIN blueprints \subseteq Names /\ DOMAIN clusters \subseteq Names
  BY DEF TypeOK, OnServer
<1>2. CASE GetBlueprints
  BY <1>1, <1>2, ItemsType DEF GetBlueprints
<1>3. CASE GetClusters
  <2>1. Items("cluster", DOMAIN clusters) \in Seq(Item)
    BY <1>1, ItemsType
  <2>2. QED
    BY <1>1, <1>3, <2>1, ConcatProperties DEF GetClusters
<1>4. QED
  BY <1>2, <1>3

(* What is read, and what is posted.                                        *)
LEMMA Reading ==
    ASSUME TypeOK, Phases, Read
    PROVE  /\ data' \in Document \union {Absent}
           /\ pc' \in {"check", "post"} =>
                /\ data' \in Document
                /\ run.mode = "push" => data'.section /\ data'.name = run.blueprint
           /\ pc' \in {"check", "post", "done"} /\ (pc' = "check" => run.mode = "push")
           /\ exit' \in {"running", "1", "2", "3"} /\ (exit' = "running" <=> pc' # "done")
<1> DEFINE file == files[run.file]
<1>1. run.blueprint \in Option /\ run.file \in Names
  BY RunsAssumption DEF TypeOK, Phases, Read, Option
<1>2. file \in Document \union {Absent, Torn} /\ exit = "running" /\ data \in Document \union {Absent}
  BY <1>1 DEF TypeOK, Read
<1>3. CASE file = Absent
  BY <1>2, <1>3 DEF Read, End
<1>4. CASE file # Absent /\ file = Torn
  BY <1>2, <1>4 DEF Read, End, ReadBlueprint, ReadMapping
<1>5. CASE file # Absent /\ file # Torn
  <2>1. file \in Document
    BY <1>2, <1>5
  <2>2. CASE run.mode = "push"
    <3>1. ReadBlueprint(file)
      BY <1>5, <2>2 DEF Read
    <3>2. CASE ~file.section
      BY <1>2, <1>5, <3>1, <3>2 DEF ReadBlueprint, End
    <3>3. CASE file.section
      <4>1. data' = [file EXCEPT !.name = run.blueprint] /\ pc' = "check" /\ exit' = exit
        BY <1>5, <3>1, <3>3 DEF ReadBlueprint, Goto
      <4>2. data' \in Document /\ data'.name = run.blueprint /\ data'.section = file.section
        BY <1>1, <2>1, <4>1, Renamed
      <4>3. QED
        BY <1>2, <2>2, <3>3, <4>1, <4>2
    <3>4. QED
      BY <3>2, <3>3
  <2>3. CASE run.mode # "push"
    <3>1. ReadMapping(file)
      BY <1>5, <2>3 DEF Read
    <3>2. PICK name \in Option : data' = [file EXCEPT !.name = name]
      BY <1>1, <1>5, <2>1, <3>1 DEF ReadMapping, Document, Option
    <3>3. QED
      BY <1>2, <1>5, <2>1, <2>3, <3>1, <3>2, Renamed DEF ReadMapping, Goto
  <2>4. QED
    BY <2>2, <2>3
<1>6. QED
  BY <1>3, <1>4, <1>5

LEMMA Posting ==
    ASSUME TypeOK, Phases, Post
    PROVE  OnServer(blueprints') /\ OnServer(clusters')
<1>1. OnServer(blueprints) /\ OnServer(clusters) /\ data \in Document
      /\ run.mode \in Sends /\ (run.mode = "push" => run.blueprint \in Names)
      /\ (run.mode = "create_cluster" => run.cluster \in Names)
  BY RunsAssumption DEF TypeOK, Phases, Post, Option
<1>2. CASE UNCHANGED server
  BY <1>1, <1>2 DEF server
<1>3. CASE Accepted /\ run.mode = "push" /\ blueprints' = With(blueprints, run.blueprint, data)
           /\ UNCHANGED clusters
  BY <1>1, <1>3, ServerGrows
<1>4. CASE /\ Accepted /\ run.mode # "push" /\ UNCHANGED blueprints
           /\ clusters' = With(clusters, run.cluster, [blueprints[data.name] EXCEPT !.name = "none"])
  <2>1. blueprints[data.name] \in Document
    BY <1>1, <1>4 DEF Accepted, OnServer
  <2>2. [blueprints[data.name] EXCEPT !.name = "none"] \in Document
    BY <2>1, Renamed DEF Option
  <2>3. run.cluster \in Names
    BY <1>1, <1>4 DEF Sends
  <2>4. QED
    BY <1>1, <1>4, <2>2, <2>3, ServerGrows
<1>5. QED
  BY <1>2, <1>3, <1>4 DEF Post

LEMMA OthersFacts ==
    ASSUME TypeOK, Others
    PROVE  /\ OnServer(blueprints') /\ OnServer(clusters')
           /\ \/ UNCHANGED <<files, kept, cut>>
              \/ \E n \in Names : /\ pc = "write" => n # Path
                                  /\ files' = [files EXCEPT ![n] = Absent]
                                  /\ kept' = [kept EXCEPT ![n] = Nothing]
                                  /\ cut' = cut \ {n}
           /\ changes' \in 0..MaxChanges
           /\ UNCHANGED <<run, runs, pc, todo, data, found, registered, exit>>
<1>1. OnServer(blueprints) /\ OnServer(clusters) /\ OnServer(Clusters)
  BY ServerAssumption DEF TypeOK
<1>2. PICK n \in Names :
         \/ /\ blueprints' = Without(blueprints, n)
            /\ UNCHANGED <<clusters, files, kept, cut>>
         \/ /\ n \in DOMAIN Clusters
            /\ blueprints' = With(blueprints, n, [Clusters[n] EXCEPT !.name = n])
            /\ UNCHANGED <<clusters, files, kept, cut>>
         \/ /\ clusters' = Without(clusters, n)
            /\ UNCHANGED <<blueprints, files, kept, cut>>
         \/ /\ (pc = "write" => n # Path)
            /\ files' = [files EXCEPT ![n] = Absent]
            /\ kept' = [kept EXCEPT ![n] = Nothing]
            /\ cut' = cut \ {n}
            /\ UNCHANGED server
  BY DEF Others
<1>3. n \in DOMAIN Clusters => [Clusters[n] EXCEPT !.name = n] \in Document
  BY <1>1, Renamed DEF OnServer, Option
<1>4. OnServer(blueprints') /\ OnServer(clusters')
  BY <1>1, <1>2, <1>3, ServerGrows, ServerShrinks DEF server
<1>5. changes' \in 0..MaxChanges /\ UNCHANGED <<run, runs, pc, todo, data, found, registered, exit>>
  BY BoundsAssumption DEF Others, TypeOK
<1>6. QED
  BY <1>2, <1>4, <1>5

LEMMA TypeStep == TypeOK /\ Phases /\ [Next]_vars => TypeOK'
<1> SUFFICES ASSUME TypeOK, Phases, [Next]_vars PROVE TypeOK'
  OBVIOUS
<1> USE DEF Goto, End, server, history
<1>1. CASE ProcessArgs
  BY <1>1 DEF ProcessArgs, TypeOK
<1>2. CASE Connection
  <2> DEFINE fetches == run.mode = "get" /\ (run.blueprint # "none" \/ run.cluster # "none")
  <2>1. CASE fetches /\ Dispatch
    <3>1. PICK item \in Item : todo' = <<item>> /\ found' = ToSet(todo')
      BY <2>1, RunsAssumption DEF Dispatch, Sends, TypeOK, Item, Option
    <3>2. todo' \in Seq(Item) /\ todo' # <<>> /\ found' \subseteq Item
      BY <3>1 DEF ToSet
    <3>3. pc' = "fetch" /\ exit' = exit
      BY <2>1 DEF Dispatch, Sends
    <3>4. QED
      BY <1>2, <3>1, <3>2, <3>3 DEF Connection, TypeOK
  <2>2. CASE ~(fetches /\ Dispatch)
    <3>1. /\ UNCHANGED <<todo, found>>
          /\ \/ pc' = "done" /\ exit' \in {"1", "2", "3"}
             \/ pc' \in {"read", "clusters", "blueprints"} /\ exit' = exit
      BY <1>2, <2>2 DEF Connection, Dispatch
    <3>2. QED
      BY <1>2, <3>1 DEF Connection, TypeOK
  <2>3. QED
    BY <2>1, <2>2
<1>3. CASE RequestFails
  BY <1>3 DEF RequestFails, TypeOK
<1>4. CASE GetBlueprints
  BY <1>4, Listing DEF GetBlueprints, TypeOK
<1>5. CASE GetClusters
  BY <1>5, Listing, ToSetType DEF GetClusters, SaveAll, PrintList, TypeOK
<1>6. CASE Fetch
  <2>1. Head(todo) \in Item
    BY <1>6, Saving DEF Fetch
  <2>2. CASE Head(todo).name \in DOMAIN Get(Head(todo).kind)
    <3>1. Get(Head(todo).kind)[Head(todo).name] \in Document
      BY <2>1, <2>2 DEF TypeOK, OnServer, Get
    <3>2. data' \in Document /\ ~data'.href
      BY <1>6, <2>2, <3>1, FetchesDocument DEF Fetch
    <3>3. QED
      BY <1>6, <2>2, <3>2 DEF Fetch, TypeOK
  <2>3. CASE Head(todo).name \notin DOMAIN Get(Head(todo).kind)
    BY <1>6, <2>3 DEF Fetch, TypeOK
  <2>4. QED
    BY <2>2, <2>3
<1>7. CASE Open
  BY <1>7 DEF Open, TypeOK
<1>8. CASE Write
  <2>1. /\ Head(todo) \in Item /\ Tail(todo) \in Seq(Item) /\ Path \in Names
        /\ ToSet(Tail(todo)) \subseteq found
    BY <1>8, Saving DEF Write, TypeOK
  <2>2. data \in Document
    BY <1>8 DEF Write, TypeOK
  <2>3. QED
    BY <1>8, <2>1, <2>2 DEF Write, Cut, TypeOK
<1>9. CASE Read
  BY <1>9, Reading DEF Read, TypeOK
<1>10. CASE Check
  BY <1>10 DEF Check, TypeOK
<1>11. CASE Post
  BY <1>11, Posting DEF Post, TypeOK
<1>12. CASE Alarm
  <2>1. cut' \subseteq Names
    BY <1>12, Saving DEF Alarm, Cut, TypeOK
  <2>2. QED
    BY <1>12, <2>1 DEF Alarm, TypeOK
<1>13. CASE NextRun
  BY <1>13, BoundsAssumption DEF NextRun, TypeOK
<1>14. CASE Others
  <2>1. /\ files' \in [Names -> Document \union {Absent, Torn}]
        /\ kept' \in [Names -> Item \union {Nothing}] /\ cut' \subseteq Names
    BY <1>14, OthersFacts DEF TypeOK
  <2>2. QED
    BY <1>14, <2>1, OthersFacts DEF TypeOK
<1>15. CASE UNCHANGED vars
  BY <1>15 DEF vars, TypeOK
<1>16. QED
  BY <1>1, <1>2, <1>3, <1>4, <1>5, <1>6, <1>7, <1>8, <1>9, <1>10, <1>11, <1>12, <1>13, <1>14,
     <1>15 DEF Next

-----------------------------------------------------------------------------
(* The options stay what they were when they were validated.                *)
LEMMA PhasesStep == TypeOK /\ Phases /\ [Next]_vars => Phases'
<1> SUFFICES ASSUME TypeOK, Phases, [Next]_vars PROVE Phases'
  OBVIOUS
<1> USE DEF Goto, End, server, history
<1>1. CASE ProcessArgs
  <2>1. CASE Usage
    BY <1>1, <2>1 DEF ProcessArgs, Phases
  <2>2. CASE ~Usage
    BY <1>1, <2>2 DEF ProcessArgs, Phases, Usage, TypeOK
  <2>3. QED
    BY <2>1, <2>2
<1>2. CASE Connection
  BY <1>2 DEF Connection, Dispatch, Sends, Phases, TypeOK
<1>3. CASE RequestFails
  BY <1>3 DEF RequestFails, Phases
<1>4. CASE GetBlueprints
  BY <1>4 DEF GetBlueprints, Phases, TypeOK
<1>5. CASE GetClusters
  BY <1>5 DEF GetClusters, SaveAll, PrintList, Phases, TypeOK
<1>6. CASE Fetch
  BY <1>6 DEF Fetch, Phases, TypeOK
<1>7. CASE Open
  BY <1>7 DEF Open, Phases, TypeOK
<1>8. CASE Write
  BY <1>8 DEF Write, Phases, TypeOK
<1>9. CASE Read
  <2>1. /\ UNCHANGED <<run, todo>> /\ pc = "read"
        /\ run.mode \in Sends /\ run.file # "none" /\ run.mode # "get"
    BY <1>9 DEF Read, Phases, Sends
  <2>2. QED
    BY <1>9, <2>1, Reading DEF Phases
<1>10. CASE Check
  BY <1>10 DEF Check, Phases, TypeOK
<1>11. CASE Post
  BY <1>11 DEF Post, Phases, Sends
<1>12. CASE Alarm
  BY <1>12 DEF Alarm, Phases
<1>13. CASE NextRun
  BY <1>13 DEF NextRun, Phases
<1>14. CASE Others
  BY <1>14 DEF Others, Phases
<1>15. CASE UNCHANGED vars
  BY <1>15 DEF vars, Phases
<1>16. QED
  BY <1>1, <1>2, <1>3, <1>4, <1>5, <1>6, <1>7, <1>8, <1>9, <1>10, <1>11, <1>12, <1>13, <1>14,
     <1>15 DEF Next

(* Only what was read is sent.                                              *)
LEMMA RegisteredStep == Phases /\ RegisteredIsWhole /\ [Next]_vars => RegisteredIsWhole'
<1> SUFFICES ASSUME Phases, RegisteredIsWhole, [Next]_vars PROVE RegisteredIsWhole'
  OBVIOUS
<1> USE DEF RegisteredIsWhole
<1>1. CASE Post
  <2>1. data \in Document /\ (run.mode = "push" => data.section /\ data.name = run.blueprint)
    BY <1>1 DEF Post, Phases
  <2>2. \/ registered' = registered
        \/ /\ run.mode = "push"
           /\ registered' = registered \union {[name |-> run.blueprint, doc |-> data]}
    BY <1>1 DEF Post
  <2>3. QED
    BY <2>1, <2>2
<1>2. CASE UNCHANGED registered
  BY <1>2
<1>3. QED
  BY <1>1, <1>2 DEF Next, ProcessArgs, Connection, RequestFails, GetBlueprints, GetClusters, Fetch,
     Open, Write, Read, Check, Alarm, NextRun, Others, history, vars

-----------------------------------------------------------------------------
(* An item is in its file, or has lost it to someone else.                  *)
LEMMA SavedSoFarStep == TypeOK /\ Phases /\ SavedSoFar /\ [Next]_vars => SavedSoFar'
<1> SUFFICES ASSUME TypeOK, Phases, SavedSoFar, [Next]_vars PROVE SavedSoFar'
  OBVIOUS
<1> USE DEF Goto, End, server, history
<1>1. CASE pc' \notin {"fetch", "open", "write"} /\ ~(exit' = "0" /\ run'.mode = "get")
  BY <1>1 DEF SavedSoFar
<1>2. CASE found' = ToSet(todo')
  BY <1>2 DEF SavedSoFar
<1>3. CASE /\ UNCHANGED <<run, todo, found, files, kept, exit>>
           /\ pc \in {"fetch", "open", "write"} /\ (pc = "write" => pc' = "write")
  BY <1>3 DEF SavedSoFar, PathOf, Path
<1>4. CASE Open /\ pc' = "write"
  <2>1. Path \in Names /\ UNCHANGED <<Path, run, todo, found, kept>>
        /\ files' = [files EXCEPT ![Path] = Torn]
    BY <1>4, Saving DEF Open, Path, PathOf
  <2>2. ASSUME NEW item \in found \ ToSet(todo), PathOf(item) # Path
        PROVE  files'[PathOf(item)] = files[PathOf(item)]
    BY <2>1, <2>2 DEF TypeOK
  <2>3. QED
    BY <1>4, <2>1, <2>2 DEF Open, SavedSoFar, PathOf
<1>5. CASE Write /\ files' = [files EXCEPT ![Path] = data] /\ kept' = [kept EXCEPT ![Path] = Head(todo)]
           /\ todo' = Tail(todo)
  <2>1. /\ Head(todo) \in found /\ PathOf(Head(todo)) = Path /\ Path \in Names
        /\ ToSet(todo) = ToSet(todo') \union {Head(todo)}
    BY <1>5, Saving DEF Write
  <2>2. data # Torn /\ UNCHANGED <<run, found>>
    BY <1>5, FilesAssumption DEF Write, TypeOK
  <2>3. files'[Path] # Torn /\ kept'[Path] = Head(todo)
    BY <1>5, <2>1, <2>2 DEF TypeOK
  <2>4. ASSUME NEW item \in found \ ToSet(todo'), PathOf(item) # Path
        PROVE  /\ item \notin ToSet(todo)
               /\ files'[PathOf(item)] = files[PathOf(item)]
               /\ kept'[PathOf(item)] = kept[PathOf(item)]
    BY <1>5, <2>1, <2>4 DEF TypeOK
  <2>5. QED
    BY <1>5, <2>1, <2>2, <2>3, <2>4 DEF Write, SavedSoFar, PathOf
<1>6. CASE Others
  <2>1. UNCHANGED <<run, pc, todo, found, exit, Path>>
    BY <1>6 DEF Others, Path, PathOf
  <2>2. CASE UNCHANGED <<files, kept, cut>>
    BY <2>1, <2>2 DEF SavedSoFar, PathOf
  <2>3. CASE ~UNCHANGED <<files, kept, cut>>
    <3>1. PICK n \in Names : /\ files' = [files EXCEPT ![n] = Absent]
                             /\ kept' = [kept EXCEPT ![n] = Nothing]
      BY <1>6, <2>3, OthersFacts
    <3>2. files'[n] = Absent
      BY <3>1 DEF TypeOK
    <3>3. ASSUME NEW m, m # n PROVE files'[m] = files[m] /\ kept'[m] = kept[m]
      BY <3>1, <3>3 DEF TypeOK
    <3>4. QED
      BY <2>1, <3>2, <3>3 DEF SavedSoFar, PathOf
  <2>4. QED
    BY <2>2, <2>3
<1>7. CASE UNCHANGED vars
  BY <1>7 DEF vars, SavedSoFar, PathOf, Path
<1>8. CASE Connection
  BY <1>1, <1>2, <1>8 DEF Connection, Dispatch, TypeOK
<1>9. CASE GetClusters
  BY <1>2, <1>9 DEF GetClusters
<1>10. CASE Fetch \/ Open \/ Write
  BY <1>1, <1>3, <1>4, <1>5, <1>10 DEF Fetch, Open, Write, TypeOK
<1>11. CASE Post
  BY <1>1, <1>11 DEF Post, Phases, Sends
<1>12. CASE Read
  BY <1>1, <1>12, Reading
<1>13. CASE ProcessArgs \/ RequestFails \/ GetBlueprints \/ Check \/ Alarm \/ NextRun
  BY <1>1, <1>13 DEF ProcessArgs, RequestFails, GetBlueprints, Check, Alarm, NextRun, TypeOK
<1>14. QED
  BY <1>6, <1>7, <1>8, <1>9, <1>10, <1>11, <1>12, <1>13 DEF Next

(* A file is left empty only by a step that notes it was cut short.         *)
EmptyIsCut == \A n \in Names : files[n] = Torn => n \in cut \/ (pc = "write" /\ n = Path)

LEMMA EmptyIsCutStep == TypeOK /\ EmptyIsCut /\ [Next]_vars => EmptyIsCut'
<1> SUFFICES ASSUME TypeOK, EmptyIsCut, [Next]_vars PROVE EmptyIsCut'
  OBVIOUS
<1> USE DEF Goto, End, server, history
<1>1. CASE UNCHANGED <<files, cut>> /\ pc # "write"
  BY <1>1 DEF EmptyIsCut
<1>2. CASE Open
  BY <1>1, <1>2 DEF Open, EmptyIsCut, TypeOK, Path, PathOf
<1>3. CASE Write
  <2>1. CASE cut' = Cut /\ UNCHANGED files
    BY <1>3, <2>1 DEF Write, Cut, EmptyIsCut
  <2>2. CASE files' = [files EXCEPT ![Path] = data] /\ cut' = cut \ {Path}
    <3>1. data # Torn /\ Path \in Names
      BY <1>3, FilesAssumption, Saving DEF Write, TypeOK
    <3>2. QED
      BY <2>2, <3>1 DEF EmptyIsCut, TypeOK
  <2>3. QED
    BY <1>3, <2>1, <2>2 DEF Write
<1>4. CASE Alarm
  BY <1>4 DEF Alarm, Cut, EmptyIsCut
<1>5. CASE Others
  <2>1. UNCHANGED <<pc, Path>>
    BY <1>5 DEF Others, Path, PathOf
  <2>2. CASE UNCHANGED <<files, cut>>
    BY <2>1, <2>2 DEF EmptyIsCut
  <2>3. CASE ~UNCHANGED <<files, cut>>
    <3>1. PICK n \in Names : files' = [files EXCEPT ![n] = Absent] /\ cut' = cut \ {n}
      BY <1>5, <2>3, OthersFacts
    <3>2. QED
      BY <2>1, <3>1, FilesAssumption DEF EmptyIsCut, TypeOK
  <2>4. QED
    BY <2>2, <2>3
<1>6. CASE UNCHANGED vars
  BY <1>6 DEF vars, EmptyIsCut, Path, PathOf
<1>7. CASE ProcessArgs \/ Connection \/ RequestFails \/ GetBlueprints \/ GetClusters \/ Fetch
           \/ Read \/ Check \/ Post \/ NextRun
  BY <1>1, <1>7 DEF ProcessArgs, Connection, RequestFails, GetBlueprints, GetClusters, Fetch,
     Read, Check, Post, NextRun
<1>8. QED
  BY <1>2, <1>3, <1>4, <1>5, <1>6, <1>7 DEF Next

(* When it ends with 0 there is nothing left to save or to write.           *)
LEMMA SavedWhenDone == TypeOK /\ Phases /\ SavedSoFar /\ EmptyIsCut => SavedIsWhole
<1> SUFFICES ASSUME TypeOK, Phases, SavedSoFar, EmptyIsCut PROVE SavedIsWhole
  OBVIOUS
<1>1. ASSUME exit = "0", run.mode = "get" PROVE found \ ToSet(todo) = found /\ pc # "write"
  <2>1. todo = <<>>
    BY <1>1 DEF Phases
  <2>2. QED
    BY <1>1, <2>1 DEF ToSet, TypeOK
<1>2. QED
  BY <1>1 DEF SavedIsWhole, SavedSoFar, EmptyIsCut

-----------------------------------------------------------------------------
LEMMA InitEstablishes == Init => IInv
<1> SUFFICES ASSUME Init PROVE IInv
  OBVIOUS
<1>1. TypeOK
  BY ServerAssumption, FilesAssumption, BoundsAssumption DEF Init, Start, TypeOK, Nothing
<1>2. Phases /\ RegisteredIsWhole /\ SavedSoFar /\ SavedIsWhole
  BY DEF Init, Start, Phases, RegisteredIsWhole, SavedSoFar, SavedIsWhole
<1>3. QED
  BY <1>1, <1>2 DEF IInv

LEMMA NextPreserves == IInv /\ [Next]_vars => IInv'
<1> SUFFICES ASSUME IInv, [Next]_vars PROVE IInv'
  OBVIOUS
<1>1. TypeOK' /\ Phases' /\ RegisteredIsWhole' /\ SavedSoFar'
  BY TypeStep, PhasesStep, RegisteredStep, SavedSoFarStep DEF IInv
<1>2. EmptyIsCut
  BY DEF IInv, SavedIsWhole, EmptyIsCut
<1>3. EmptyIsCut'
  BY <1>2, EmptyIsCutStep DEF IInv
<1>4. SavedIsWhole'
  BY <1>1, <1>3, SavedWhenDone, PTL
<1>5. QED
  BY <1>1, <1>4 DEF IInv

(* The inductive invariant holds in every run of the program, however often *)
(* it is run, whatever the server and the directory have to begin with and  *)
(* whatever others do to them.                                              *)
THEOREM Invariance == Spec => []IInv
<1>1. Init => IInv
  BY InitEstablishes
<1>2. IInv /\ [Next]_vars => IInv'
  BY NextPreserves
<1>3. QED
  BY <1>1, <1>2, PTL DEF Spec

(* What is on the server and what is read from or written to a file is a    *)
(* document, and what is written does not say where it comes from (lines    *)
(* 186-226).                                                                *)
THEOREM TypeCorrect == Spec => []TypeOK
<1>1. IInv => TypeOK
  BY DEF IInv
<1>2. QED
  BY <1>1, Invariance, PTL

(* Whatever file is pushed, saved whole, cut short or of another blueprint: *)
(* only a whole one is registered, and under its own name (lines 309-335).  *)
THEOREM RegisteredTheorem == Spec => []RegisteredIsWhole
<1>1. IInv => RegisteredIsWhole
  BY DEF IInv
<1>2. QED
  BY <1>1, Invariance, PTL

(* No failure before the file is written loses what was saved before, and   *)
(* a clean end of --get means that all is saved, also where two items of    *)
(* one name, or --file, share a file (lines 200-242).                       *)
THEOREM SavedTheorem == Spec => []SavedIsWhole
<1>1. IInv => SavedIsWhole
  BY DEF IInv
<1>2. QED
  BY <1>1, Invariance, PTL
=============================================================================
