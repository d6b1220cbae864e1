----------------------------- MODULE Blueprints -----------------------------
(* ambari_blueprints.py, run several times in a row: it saves the blueprints *)
(* of an Ambari server to files, with or without their configurations, and  *)
(* pushes them, or clusters made from them, to a server again.  Others      *)
(* create and delete blueprints and clusters and remove files meanwhile;    *)
(* a run may be cut short between any two steps, by its alarm too.          *)
EXTENDS Naturals, Sequences, FiniteSets, SequencesExt

CONSTANTS
    Names,      \* of blueprints and clusters, and of files
    Suffixed,   \* a name with .json at its end: itself, or .json is appended
    Runs,       \* how the program may be started, see RunsAssumption
    Blueprints, \* the blueprints on the server at first: name -> Document
    Clusters,   \* likewise the clusters, as blueprints
    Absent,     \* a file that is not there
    Torn,       \* one that was opened for writing, and that was all
    Files,      \* the files at first: name -> Document, Torn or Absent
    MaxRuns,    \* bound: how often the program is run
    MaxChanges  \* bound: what others do

(* A JSON document.  section: it has the field Blueprints, and under it the *)
(* name (in a host mapping, the blueprint it is for); href: the server's    *)
(* address of it; top, groups: whether it has the section configurations,   *)
(* and which of its host groups have; id: all the rest.                     *)
Document == [section : BOOLEAN, name : Names \union {"none"}, href : BOOLEAN,
             top : BOOLEAN, groups : Seq(BOOLEAN), id : Names]
OnServer(docs) == \A n \in DOMAIN docs : n \in Names /\ docs[n] \in Document
ASSUME ServerAssumption == OnServer(Blueprints) /\ OnServer(Clusters) /\ IsFiniteSet(Names)
ASSUME FilesAssumption ==
    /\ Files \in [Names -> Document \union {Absent, Torn}]
    /\ Absent \notin Document /\ Torn \notin Document /\ Absent # Torn
ASSUME SuffixAssumption ==
    Suffixed \in [Names -> Names] /\ \A n \in Names : Suffixed[Suffixed[n]] = Suffixed[n]
ASSUME BoundsAssumption == MaxRuns \in Nat \ {0} /\ MaxChanges \in Nat

(* blueprint, cluster, file: options, "none" if not given.                  *)
Option == Names \union {"none"}
ASSUME RunsAssumption ==
    \A r \in Runs :
        /\ r.mode \in {"list_blueprints", "list_clusters", "list_hosts", "get", "push",
                       "create_cluster", "none"}
        /\ {r.blueprint, r.cluster, r.file} \subseteq Option
        /\ r.strip \in BOOLEAN

VARIABLES
    blueprints, clusters,   \* the server: name -> document
    files,                  \* the blueprint directory: name -> document, ...
    run, runs, changes,     \* how the program was started; bounds
    pc,                     \* "options", "connect", "blueprints", "clusters",
                            \* "fetch", "open", "write", "read", "check",
                            \* "post", "done"
    todo,                   \* the items to save: [kind, name]
    data,                   \* the document fetched or read
    found,                  \* history: all items to save
    kept,                   \* history: file -> the item whose document is in it
    cut,                    \* history: files whose writing was cut short
    registered,             \* history: [name, doc] of what was sent
    exit                    \* the exit code

server == <<blueprints, clusters>>
history == <<found, kept, cut, registered>>
vars == <<server, files, run, runs, changes, pc, todo, data, history, exit>>

Item == [kind : {"blueprint", "cluster"}, name : Names]
Nothing == [kind |-> "none", name |-> "none"]

Start ==
    /\ pc = "options" /\ todo = <<>> /\ data = Absent
    /\ found = {} /\ exit = "running"

Init ==
    /\ blueprints = Blueprints /\ clusters = Clusters /\ files = Files
    /\ run \in Runs /\ runs = 1 /\ changes = 0
    /\ Start
    /\ kept = [f \in Names |-> Nothing]
    /\ cut = {n \in Names : Files[n] = Torn}
    /\ registered = {}

Goto(label) == pc' = label /\ UNCHANGED exit
End(code) == pc' = "done" /\ exit' = code

(* save: what is written to is --file or named after the item, and .json is *)
(* appended to a path without it.                                           *)
PathOf(item) == Suffixed[IF run.file # "none" THEN run.file ELSE item.name]
Path == PathOf(Head(todo))

(* Whoever ends while a file is open leaves it as it is.                    *)
Cut == IF pc = "write" THEN cut \union {Path} ELSE cut

-----------------------------------------------------------------------------
(* process_args and run.                                                    *)
Usage ==
    \/ run.mode = "get" /\ run.blueprint # "none" /\ run.cluster # "none"
    \/ run.mode = "create_cluster" /\ run.cluster = "none"
    \/ run.mode = "get" /\ run.file # "none" /\ run.blueprint = "none" /\ run.cluster = "none"
    \/ run.mode = "push" /\ run.file # "none" /\ run.blueprint = "none"
    \/ run.mode \in {"push", "create_cluster"} /\ run.file # "none" /\ files[run.file] = Absent

ProcessArgs ==
    /\ pc = "options"
    /\ IF Usage THEN End("3") ELSE Goto("connect")
    /\ UNCHANGED <<server, files, run, runs, changes, todo, data, history>>

Sends == {"push", "create_cluster"}

(* run: what the options ask for.                                           *)
Dispatch ==
    IF run.mode = "none" \/ (run.mode \in Sends /\ run.file = "none")
    THEN End("3") /\ UNCHANGED <<todo, found>>
    ELSE IF run.mode \in Sends THEN Goto("read") /\ UNCHANGED <<todo, found>>
    ELSE IF run.mode = "get" /\ (run.blueprint # "none" \/ run.cluster # "none")
    THEN /\ Goto("fetch")
         /\ todo' = <<IF run.blueprint # "none" THEN [kind |-> "blueprint", name |-> run.blueprint]
                      ELSE [kind |-> "cluster", name |-> run.cluster]>>
         /\ found' = ToSet(todo')
    ELSE /\ Goto(IF run.mode \in {"list_clusters", "list_hosts"} THEN "clusters" ELSE "blueprints")
         /\ UNCHANGED <<todo, found>>

(* The address or the directory may be refused, or not be created.          *)
Connection ==
    /\ pc = "connect"
    /\ \/ Dispatch
       \/ \E code \in {"1", "2", "3"} : End(code) /\ UNCHANGED <<todo, found>>
    /\ UNCHANGED <<server, files, run, runs, changes, data, kept, cut, registered>>

(* qquit('CRITICAL') on a request that fails; an answer that is no JSON is  *)
(* an exception nothing catches.                                            *)
RequestFails ==
    /\ pc \in {"blueprints", "clusters", "fetch", "check"}
    /\ \E code \in {"1", "2"} : End(code)
    /\ UNCHANGED <<server, files, run, runs, changes, todo, data, history>>

Items(kind, names) ==
    LET listed == SetToSeq(names) IN [k \in DOMAIN listed |-> [kind |-> kind, name |-> listed[k]]]

(* print_blueprints and save_all list blueprints first, then clusters;      *)
(* print_hosts lists the hosts, of which there is nothing to say.           *)
GetBlueprints ==
    /\ pc = "blueprints"
    /\ todo' = Items("blueprint", DOMAIN blueprints)
    /\ Goto("clusters")
    /\ UNCHANGED <<server, files, run, runs, changes, data, history>>

PrintList == End("0")

SaveAll == IF todo' = <<>> THEN End("3") ELSE Goto("fetch")

GetClusters ==
    /\ pc = "clusters"
    /\ todo' = todo \o Items("cluster", DOMAIN clusters)
    /\ found' = ToSet(todo')
    /\ IF run.mode = "get" THEN SaveAll ELSE PrintList
    /\ UNCHANGED <<server, files, run, runs, changes, data, kept, cut, registered>>

-----------------------------------------------------------------------------
(* fetch with --strip-config: the first section that is not there ends the  *)
(* stripping, with what comes after it left in.                             *)
Strip(doc) ==
    IF ~run.strip \/ ~doc.top THEN doc
    ELSE [doc EXCEPT !.top = FALSE,
            !.groups = [k \in DOMAIN doc.groups |->
                          doc.groups[k] /\ \E j \in 1..k : ~doc.groups[j]]]

(* get_blueprint, or get_cluster_blueprint.                                 *)
Get(kind) == IF kind = "blueprint" THEN blueprints ELSE clusters

(* Mutant: the file is opened first.                                        *)
FetchOpensFirst ==
    /\ pc = "fetch"
    /\ LET on == Get(Head(todo).kind) IN
       /\ files' = [files EXCEPT ![Path] = Torn]
       /\ IF Head(todo).name \in DOMAIN on
          THEN data' = Strip([on[Head(todo).name] EXCEPT !.href = FALSE]) /\ Goto("open")
          ELSE End("2") /\ UNCHANGED data
    /\ UNCHANGED <<server, run, runs, changes, todo, history>>

(* Mutant: the address stays in.                                            *)
FetchKeepsHref ==
    /\ pc = "fetch"
    /\ LET on == Get(Head(todo).kind) IN
       IF Head(todo).name \in DOMAIN on
       THEN data' = Strip(on[Head(todo).name]) /\ Goto("open")
       ELSE End("2") /\ UNCHANGED data
    /\ UNCHANGED <<server, files, run, runs, changes, todo, history>>

(* save_blueprint, save_cluster: what was listed may be gone by now.        *)
Fetch ==
    /\ pc = "fetch"
    /\ LET on == Get(Head(todo).kind) IN
       IF Head(todo).name \in DOMAIN on
       THEN data' = Strip([on[Head(todo).name] EXCEPT !.href = FALSE]) /\ Goto("open")
       ELSE End("2") /\ UNCHANGED data
    /\ UNCHANGED <<server, files, run, runs, changes, todo, history>>

(* save: open(path, 'w') empties the file.                                  *)
Open ==
    /\ pc = "open"
    /\ \/ files' = [files EXCEPT ![Path] = Torn] /\ Goto("write")
       \/ End("2") /\ UNCHANGED files
    /\ UNCHANGED <<server, run, runs, changes, todo, data, history>>

Write ==
    /\ pc = "write"
    /\ \/ /\ files' = [files EXCEPT ![Path] = data]
          /\ kept' = [kept EXCEPT ![Path] = Head(todo)]
          /\ cut' = cut \ {Path}
          /\ todo' = Tail(todo)
          /\ IF todo' = <<>> THEN End("0") ELSE Goto("fetch")
       \/ End("2") /\ cut' = Cut /\ UNCHANGED <<files, kept, todo>>
    /\ UNCHANGED <<server, run, runs, changes, data, found, registered>>

-----------------------------------------------------------------------------
(* Mutant: the name in the file is left as it is.                           *)
ReadBlueprintKeepsName(file) ==
    IF file = Torn THEN End("2") /\ UNCHANGED data
    ELSE IF ~file.section THEN End("1") /\ UNCHANGED data
    ELSE data' = file /\ Goto("check")

(* send_blueprint_file.  A file without the section is only warned about,   *)
(* and then there is no data to send.                                       *)
ReadBlueprint(file) ==
    IF file = Torn THEN End("2") /\ UNCHANGED data
    ELSE IF ~file.section THEN End("1") /\ UNCHANGED data
    ELSE data' = [file EXCEPT !.name = run.blueprint] /\ Goto("check")

(* create_cluster.                                                          *)
ReadMapping(file) ==
    IF file = Torn THEN End("2") /\ UNCHANGED data
    ELSE /\ data' = [file EXCEPT !.name = IF run.blueprint = "none" THEN @ ELSE run.blueprint]
         /\ Goto("post")

(* validate_file, again, and open: the file may be gone by now.             *)
Read ==
    /\ pc = "read"
    /\ LET file == files[run.file] IN
       IF file = Absent THEN (End("2") \/ End("3")) /\ UNCHANGED data
       ELSE IF run.mode = "push" THEN ReadBlueprint(file)
       ELSE ReadMapping(file)
    /\ UNCHANGED <<server, files, run, runs, changes, todo, history>>

(* send_blueprint: a blueprint of the name is only warned about.            *)
Check ==
    /\ pc = "check"
    /\ Goto("post")
    /\ UNCHANGED <<server, files, run, runs, changes, todo, data, history>>

With(docs, n, doc) == [m \in DOMAIN docs \union {n} |-> IF m = n THEN doc ELSE docs[m]]
Without(docs, n) == [m \in DOMAIN docs \ {n} |-> docs[m]]

(* The server refuses what it has already, and clusters whose blueprint it  *)
(* does not have.  The answer may be lost.                                  *)
Accepted ==
    IF run.mode = "push" THEN run.blueprint \notin DOMAIN blueprints
    ELSE run.cluster \notin DOMAIN clusters /\ data.name \in DOMAIN blueprints

Post ==
    /\ pc = "post"
    /\ \/ /\ Accepted
          /\ \E code \in {"0", "2"} : End(code)
          /\ IF run.mode = "push"
             THEN /\ blueprints' = With(blueprints, run.blueprint, data)
                  /\ registered' = registered \union {[name |-> run.blueprint, doc |-> data]}
                  /\ UNCHANGED clusters
             ELSE /\ clusters' = With(clusters, run.cluster, [blueprints[data.name] EXCEPT !.name = "none"])
                  /\ UNCHANGED <<blueprints, registered>>
       \/ End("2") /\ UNCHANGED <<server, registered>>
    /\ UNCHANGED <<files, run, runs, changes, todo, data, found, kept, cut>>

-----------------------------------------------------------------------------
(* The alarm, or death.                                                     *)
Alarm ==
    /\ pc # "done"
    /\ End("3")
    /\ cut' = Cut
    /\ UNCHANGED <<server, files, run, runs, changes, todo, data, found, kept, registered>>

(* The program is run again.                                                *)
NextRun ==
    /\ pc = "done" /\ runs < MaxRuns
    /\ runs' = runs + 1
    /\ run' \in Runs
    /\ pc' = "options" /\ todo' = <<>> /\ data' = Absent /\ found' = {} /\ exit' = "running"
    /\ UNCHANGED <<server, files, changes, kept, cut, registered>>

Others ==
    /\ changes < MaxChanges
    /\ changes' = changes + 1
    /\ \E n \in Names :
         \/ /\ n \in DOMAIN blueprints
            /\ blueprints' = Without(blueprints, n)
            /\ UNCHANGED <<clusters, files, kept, cut>>
         \/ /\ n \notin DOMAIN blueprints /\ n \in DOMAIN Clusters
            /\ blueprints' = With(blueprints, n, [Clusters[n] EXCEPT !.name = n])
            /\ UNCHANGED <<clusters, files, kept, cut>>
         \/ /\ n \in DOMAIN clusters
            /\ clusters' = Without(clusters, n)
            /\ UNCHANGED <<blueprints, files, kept, cut>>
         \/ /\ files[n] # Absent /\ (pc = "write" => n # Path)
            /\ files' = [files EXCEPT ![n] = Absent]
            /\ kept' = [kept EXCEPT ![n] = Nothing]
            /\ cut' = cut \ {n}
            /\ UNCHANGED server
    /\ UNCHANGED <<run, runs, pc, todo, data, found, registered, exit>>

Next ==
    \/ ProcessArgs \/ Connection \/ RequestFails
    \/ GetBlueprints \/ GetClusters
    \/ Fetch \/ Open \/ Write
    \/ Read \/ Check \/ Post
    \/ Alarm \/ NextRun \/ Others

Spec == Init /\ [][Next]_vars

-----------------------------------------------------------------------------
(* The type invariant; what is saved has been listed, what is written has  *)
(* been fetched and does not say where from.                                *)
TypeOK ==
    /\ OnServer(blueprints) /\ OnServer(clusters)
    /\ files \in [Names -> Document \union {Absent, Torn}]
    /\ run \in Runs /\ runs \in 1..MaxRuns /\ changes \in 0..MaxChanges
    /\ pc \in {"options", "connect", "blueprints", "clusters", "fetch", "open", "write",
               "read", "check", "post", "done"}
    /\ todo \in Seq(Item)
    /\ pc \in {"fetch", "open", "write"} => todo # <<>> /\ ToSet(todo) \subseteq found
    /\ data \in Document \union {Absent}
    /\ pc \in {"open", "write"} => data \in Document /\ ~data.href
    /\ found \subseteq Item /\ kept \in [Names -> Item \union {Nothing}]
    /\ cut \subseteq Names
    /\ exit \in {"running", "0", "1", "2", "3"}
    /\ exit = "running" <=> pc # "done"

(* What is registered as a blueprint is a whole document that has the name  *)
(* it is registered under, whatever file it comes from: one that an earlier *)
(* run was cut short in writing is refused, and a name saved with it, of a  *)
(* blueprint or of none, gives way to --blueprint (lines 309-335).          *)
RegisteredIsWhole ==
    \A r \in registered : r.doc \in Document /\ r.doc.section /\ r.doc.name = r.name

(* A file is emptied only when what it is to hold has been fetched and is   *)
(* written at once: only being cut short there leaves it empty, nothing     *)
(* that fails earlier loses what was saved before; and when --get ends with *)
(* 0 each file it should have written is whole and one it wrote.            *)
SavedIsWhole ==
    /\ \A n \in Names : files[n] = Torn => n \in cut \/ (pc = "write" /\ n = Path)
    /\ (exit = "0" /\ run.mode = "get") =>
         \A item \in found :
            \/ files[PathOf(item)] = Absent
            \/ /\ files[PathOf(item)] # Torn
               /\ kept[PathOf(item)] \in {i \in found : PathOf(i) = PathOf(item)}

-----------------------------------------------------------------------------
(* What the invariants rest on.  The options have been validated, and what  *)
(* is to be sent has been read.                                             *)
Phases ==
    /\ pc \notin {"options", "done"} =>
         /\ run.mode = "push" /\ run.file # "none" => run.blueprint # "none"
         /\ run.mode = "create_cluster" => run.cluster # "none"
    /\ pc = "check" => run.mode = "push"
    /\ pc \in {"read", "check", "post"} => run.mode \in Sends /\ run.file # "none"
    /\ pc \in {"check", "post"} =>
         /\ data \in Document
         /\ run.mode = "push" => data.section /\ data.name = run.blueprint
    /\ pc \in {"fetch", "open", "write"} => run.mode = "get"
    /\ exit = "0" /\ run.mode = "get" => todo = <<>>

(* What is not to be saved any more is in its file, unless that was removed *)
(* or is being written again: files of one name may be saved twice.         *)
SavedSoFar ==
    (pc \in {"fetch", "open", "write"} \/ (exit = "0" /\ run.mode = "get")) =>
        \A item \in found \ ToSet(todo) :
            \/ files[PathOf(item)] = Absent
            \/ /\ files[PathOf(item)] # Torn
               /\ kept[PathOf(item)] \in {i \in found : PathOf(i) = PathOf(item)}
            \/ pc = "write" /\ PathOf(item) = Path

IInv == TypeOK /\ Phases /\ RegisteredIsWhole /\ SavedSoFar /\ SavedIsWhole
=============================================================================
