----------------------------- MODULE Validators -----------------------------
(* The validate_*.py programs, and those that convert JSON, YAML and XML.  *)
(* They are one program many times over: look at every argument, then      *)
(* check (and convert) the files given and those found below the           *)
(* directories given, and end with 2 when one of them is invalid.  They    *)
(* differ in the settings stated first and in the checks of validate_json  *)
(* and json_docs_to_bulk_multiline.                                        *)
(*                                                                         *)
(* Files may be rewritten in place or removed while a program runs;        *)
(* directories stay.                                                       *)
EXTENDS Naturals, Sequences, FiniteSets, SequencesExt, TreeWalks

CONSTANTS
    Tree,           \* directory -> its entries
    Suffixed,       \* the files whose names a walk looks for
    Runs,           \* the ways a program may be started: see RunsAssumption
    Documents(_),   \* what may be in a file, as far as a program tells it apart
    Disks           \* what Files and standard input ("-") may hold at first

(* A document: what the parser says of it as a whole, and of each line.    *)
(* "single" would be valid with double quotes for its single quotes; what  *)
(* "raises" makes the check raise an exception that it does not expect.    *)
Verdict == {"ok", "single", "bad", "raises"}
Document == [whole : Verdict, lines : Seq(Verdict \ {"raises"})]
Gone == [whole |-> "gone", lines |-> <<>>]

(* The settings of a program.                                              *)
(*   prints:    never, the text it has checked (content), line by line as  *)
(*              it checks (records), or the file read once more (reread)   *)
(*   stdin:     checked, read with its verdict ignored, or no such thing   *)
(*   carriesOn: --print (--continue) goes on after an invalid file         *)
(*   opens:     it opens the file itself rather than another program       *)
(*   selects:   it finds files with os.walk, a validator with --exclude    *)
(*   converts:  it is a converter; the exit code for what it cannot parse  *)
Yaml      == [prints |-> "content", stdin |-> "checked", carriesOn |-> TRUE,
              opens |-> TRUE, selects |-> TRUE]
Xml       == [prints |-> "content", stdin |-> "checked", carriesOn |-> TRUE,
              opens |-> TRUE, selects |-> TRUE]
Json      == [prints |-> "records", stdin |-> "checked", carriesOn |-> FALSE,
              opens |-> TRUE, selects |-> TRUE]
Ldif      == [prints |-> "reread", stdin |-> "checked", carriesOn |-> FALSE,
              opens |-> TRUE, selects |-> TRUE]
Ini       == [prints |-> "reread", stdin |-> "checked", carriesOn |-> TRUE,
              opens |-> TRUE, selects |-> TRUE]
Ini2      == [prints |-> "reread", stdin |-> "checked", carriesOn |-> TRUE,
              opens |-> TRUE, selects |-> TRUE]
Csv       == [prints |-> "never", stdin |-> "checked", carriesOn |-> FALSE,
              opens |-> TRUE, selects |-> TRUE]
Avro      == [prints |-> "never", stdin |-> "checked", carriesOn |-> FALSE,
              opens |-> TRUE, selects |-> TRUE]
Parquet   == [prints |-> "never", stdin |-> "checked", carriesOn |-> FALSE,
              opens |-> FALSE, selects |-> TRUE]
Toml      == [prints |-> "never", stdin |-> "ignored", carriesOn |-> FALSE,
              opens |-> TRUE, selects |-> TRUE]
Cson      == [prints |-> "never", stdin |-> "ignored", carriesOn |-> FALSE,
              opens |-> TRUE, selects |-> TRUE]
Multimedia == [prints |-> "never", stdin |-> "none", carriesOn |-> TRUE,
              opens |-> FALSE, selects |-> FALSE]

JsonToYaml == [prints |-> "content", stdin |-> "checked", carriesOn |-> FALSE,
              opens |-> TRUE, selects |-> TRUE, converts |-> "2"]
JsonToXml == JsonToYaml
XmlToJson == JsonToYaml
XmlToYaml == JsonToYaml

(* What PyYAML raises for text that is no YAML is not what is caught.      *)
YamlToJson == [JsonToYaml EXCEPT !.converts = "1"]
JsonBulk  == [prints |-> "records", stdin |-> "checked", carriesOn |-> TRUE,
              opens |-> TRUE, selects |-> TRUE, converts |-> "2"]
Filters == {JsonToYaml, JsonToXml, XmlToJson, XmlToYaml, YamlToJson}

(* How a program is started.  lenient is --print, or --continue; excluded  *)
(* is what --exclude matches or --include does not; seekable says whether  *)
(* standard input is a file, locked which directories cannot be listed.    *)
ASSUME RunsAssumption ==
    \A r \in Runs :
        /\ r.tool \in {Yaml, Xml, Json, Ldif, Ini, Ini2, Csv, Avro, Parquet,
                       Toml, Cson, Multimedia, JsonBulk} \union Filters
        /\ r.lenient => r.tool.prints # "never" \/ r.tool.carriesOn
        /\ r.multi => r.tool = Json
        /\ r.single => r.tool \in {Json, JsonBulk}
        /\ r.excluded # {} => r.tool.selects
        /\ r.tool \in Filters => ~r.lenient /\ r.excluded = {}
        /\ r.excluded \subseteq Files \union Dirs
        /\ r.locked \subseteq Dirs
        /\ r.args \in Seq(Files \union Dirs \union {"-", "missing"})
ASSUME TreeAssumption ==
    Tree \in [Dirs -> SUBSET (Files \union Dirs)] /\ Suffixed \subseteq Files
ASSUME DocumentsAssumption ==
    /\ \A r \in Runs : Documents(r.tool) \subseteq Document
    /\ \A d \in Disks : DOMAIN d = Files \union {"-"} /\ d = [p \in DOMAIN d |-> d[p]]

(* disk: file -> its document; "-" is standard input.  pc: "args", "paths", *)
(* "whole", "rewind", "reprint" or "done".                                 *)
VARIABLES
    held,       \* the document that was read from the file at hand
    unlisted,   \* history: files that were gone when their directory was listed
    checks,     \* history: [path, doc, valid] of every check
    out,        \* history: [path, doc, lines], the lines printed with --print
    failure     \* self.failed

program == <<pc, at, todo, held, unlisted, checks, out, failure, exit>>
VVars == <<run, disk, program, changes>>

VInit ==
    /\ run \in Runs
    /\ disk \in Disks
    /\ \A p \in Files \union {"-"} : disk[p] \in Documents(run.tool)
    /\ pc = "args"
    /\ at = 1
    /\ todo = <<>>
    /\ held = Gone
    /\ unlisted = {}
    /\ checks = {}
    /\ out = {}
    /\ failure = FALSE
    /\ exit = "running"
    /\ changes = 0

-----------------------------------------------------------------------------
(* No arguments means standard input; repeated ones are passed over, but   *)
(* not by the converters.                                                  *)
Args == IF run.args = <<>> THEN <<"-">> ELSE run.args
Repeated(k) == run.tool \notin Filters /\ \E j \in 1..(k - 1) : Args[j] = Args[k]

IsFile(p) == p \in Files /\ disk[p] # Gone
IsStdin(p) == p = "-" /\ run.tool.stdin # "none"
IsPath(p) == IsStdin(p) \/ IsFile(p) \/ p \in Dirs
Excluded(p) == p \in run.excluded

(* What a converter has parsed it prints.                                  *)
Shows == run.lenient \/ run.tool \in Filters \union {JsonBulk}
Invalid == IF run.tool \in Filters THEN run.tool.converts ELSE "2"

(* The first loop of run(): a path that does not exist ends the run with 2 *)
(* (also with --continue, whose message is followed by the same die), a    *)
(* converter with 1.                                                       *)
(* The multimedia validator wants an argument: usage().                    *)
CheckArg ==
    /\ pc = "args"
    /\ IF run.args = <<>> /\ run.tool.stdin = "none" THEN End("3") /\ UNCHANGED at
       ELSE IF at > Len(Args) THEN Goto("paths") /\ at' = 1
       ELSE IF Repeated(at) \/ IsPath(Args[at]) THEN Goto("args") /\ at' = at + 1
       ELSE End(IF run.tool \in Filters THEN "1" ELSE "2") /\ UNCHANGED at
    /\ UNCHANGED <<run, disk, todo, held, checks, out, failure, unlisted, changes>>

(* Mutant: a failure is forgotten when the run ends.                       *)
ExitCodeForgets == "0"

ExitCode == IF failure THEN "2" ELSE "0"

(* The second loop of run(), with check_path: the argument may have gone   *)
(* since, which json_docs_to_bulk_multiline does not find out when it is   *)
(* excluded.                                                               *)
CheckPath ==
    /\ pc = "paths"
    /\ todo = <<>>
    /\ IF at > Len(Args) THEN End(ExitCode) /\ UNCHANGED <<at, todo>>
       ELSE IF Repeated(at) \/ (run.tool = JsonBulk /\ Excluded(Args[at]))
       THEN Goto("paths") /\ at' = at + 1 /\ UNCHANGED todo
       ELSE IF IsPath(Args[at]) THEN Goto("paths") /\ at' = at + 1 /\ todo' = <<Args[at]>>
       ELSE End("2") /\ UNCHANGED <<at, todo>>
    /\ UNCHANGED <<run, disk, held, checks, out, failure, unlisted, changes>>

(* os.walk gives the files of a directory and then its directories, the    *)
(* multimedia validator takes the entries as os.listdir has them; neither  *)
(* has the files that are gone.                                            *)
Removed(d) == {f \in Tree[d] \intersect Suffixed : disk[f] = Gone}
Entries(d) == (Tree[d] \intersect (Suffixed \union Dirs)) \ Removed(d)
Earlier(d) == IF run.tool.selects THEN Entries(d) \intersect Suffixed ELSE Entries(d)

(* Mutant: a directory that cannot be listed is a failure to os.walk too.  *)
EnterFails(d) ==
    IF Excluded(d) \/ d \in run.locked
    THEN /\ todo' = Tail(todo)
         /\ failure' = (failure \/ d \in run.locked)
         /\ IF run.tool.selects \/ run.lenient THEN Goto("paths") ELSE End("2")
         /\ UNCHANGED unlisted
    ELSE /\ \E first \in SetToSeqs(Earlier(d)), rest \in SetToSeqs(Entries(d) \ Earlier(d)) :
              todo' = first \o rest \o Tail(todo)
         /\ unlisted' = unlisted \union Removed(d)
         /\ Goto("paths")
         /\ UNCHANGED failure

(* walk(): an excluded directory is not entered; one that cannot be listed *)
(* is passed over by os.walk, and a failure for the multimedia validator.  *)
Enter(d) ==
    IF Excluded(d) \/ d \in run.locked
    THEN /\ todo' = Tail(todo)
         /\ failure' = (failure \/ ~run.tool.selects)
         /\ IF run.tool.selects \/ run.lenient THEN Goto("paths") ELSE End("2")
         /\ UNCHANGED unlisted
    ELSE /\ \E first \in SetToSeqs(Earlier(d)), rest \in SetToSeqs(Entries(d) \ Earlier(d)) :
              todo' = first \o rest \o Tail(todo)
         /\ unlisted' = unlisted \union Removed(d)
         /\ Goto("paths")
         /\ UNCHANGED failure

Walk ==
    /\ pc = "paths"
    /\ todo # <<>>
    /\ Head(todo) \in Dirs
    /\ Enter(Head(todo))
    /\ UNCHANGED <<run, disk, at, held, checks, out, changes>>

-----------------------------------------------------------------------------
(* validate_json: a line is accepted with its single quotes if asked to.   *)
Accepts(v) == v = "ok" \/ (v = "single" /\ run.single)
AllLines(d) == (d.lines # <<>> \/ run.tool = JsonBulk) /\ \A k \in DOMAIN d.lines : Accepts(d.lines[k])

(* The lines check_multirecord_json has printed when it comes to one that  *)
(* it does not accept; json_docs_to_bulk_multiline may go on after it.     *)
LeadingLines(d) ==
    IF run.tool = JsonBulk /\ run.lenient
    THEN {k \in DOMAIN d.lines : Accepts(d.lines[k])}
    ELSE {k \in DOMAIN d.lines : \A j \in 1..k : Accepts(d.lines[j])}
ByLine == pc = "rewind" \/ run.multi

IsAt(p) == pc = "paths" /\ todo # <<>> /\ Head(todo) = p /\ p \notin Dirs
Printed(p, d, ks) == out' = out \union {[path |-> p, doc |-> d, lines |-> ks]}

(* Mutant: the text is printed before it is checked.                       *)
JudgedPrints(p, d, valid) ==
    /\ checks' = checks \union {[path |-> p, doc |-> d, valid |-> valid]}
    /\ IF run.lenient /\ run.tool.prints # "never" THEN Printed(p, d, DOMAIN d.lines) ELSE UNCHANGED out
    /\ todo' = Tail(todo)
    /\ failure' = (failure \/ ~valid)
    /\ IF valid \/ (run.tool.carriesOn /\ run.lenient) THEN Goto("paths") ELSE End("2")

(* What follows a check.  Invalid text on a standard input that is read    *)
(* and ignored changes nothing; any other ends the run, unless the program *)
(* carries on.                                                             *)
Judged(p, d, valid) ==
    /\ checks' = checks \union {[path |-> p, doc |-> d, valid |-> valid]}
    /\ IF run.lenient /\ run.tool.prints = "reread" /\ valid
       THEN Goto("reprint") /\ UNCHANGED <<todo, failure, out>>
       ELSE /\ todo' = Tail(todo)
            /\ failure' = (failure \/ ~(valid \/ (p = "-" /\ run.tool.stdin = "ignored")))
            /\ IF valid \/ (run.tool.carriesOn /\ run.lenient)
                  \/ (p = "-" /\ run.tool.stdin = "ignored")
               THEN Goto("paths") ELSE End(Invalid)
            /\ IF Shows /\ valid /\ run.tool.prints \in {"content", "records"}
               THEN Printed(p, d, DOMAIN d.lines)
               ELSE IF Shows /\ ByLine /\ LeadingLines(d) # {}
               THEN Printed(p, d, LeadingLines(d))
               ELSE UNCHANGED out

(* check_file: excluded, or gone since the directory was listed.  A program *)
(* that is run on the file finds it invalid when it is gone.               *)
SkipFile(p) ==
    /\ IsAt(p)
    /\ Excluded(p)
    /\ todo' = Tail(todo)
    /\ UNCHANGED <<run, disk, pc, at, held, checks, out, failure, exit, unlisted, changes>>

CannotOpen(p) ==
    /\ IsAt(p)
    /\ ~Excluded(p)
    /\ run.tool.opens /\ disk[p] = Gone
    /\ End(IF run.tool \in Filters THEN "1" ELSE "2")
    /\ UNCHANGED <<run, disk, at, todo, held, checks, out, failure, unlisted, changes>>

Opened(p) == IsAt(p) /\ ~Excluded(p) /\ (run.tool.opens => disk[p] # Gone)

(* Exceptions that no check expects end the program with a traceback.      *)
Raises(p) ==
    /\ Opened(p)
    /\ run.tool.opens /\ disk[p].whole = "raises"
    /\ End("1")
    /\ UNCHANGED <<run, disk, at, todo, held, checks, out, failure, unlisted, changes>>

CheckFile(p) ==
    /\ Opened(p)
    /\ run.tool \notin {Json, JsonBulk}
    /\ run.tool.opens => disk[p].whole # "raises"
    /\ held' = disk[p]
    /\ Judged(p, disk[p], disk[p].whole = "ok")
    /\ UNCHANGED <<run, disk, at, unlisted, changes>>

(* Mutant: standard input is rewound like a file.                          *)
CanRewindAll(p) == TRUE
CanRewind(p) == p # "-"

(* check_json: what is no document as a whole may be one document a line;  *)
(* that takes a second reading, which standard input does not have.        *)
CheckJson(p) ==
    /\ Opened(p)
    /\ run.tool = Json /\ disk[p].whole # "raises"
    /\ held' = disk[p]
    /\ IF run.multi
       THEN Judged(p, disk[p], AllLines(disk[p]))
       ELSE IF Accepts(disk[p].whole) THEN Judged(p, disk[p], TRUE)
       ELSE IF CanRewind(p) THEN Goto("rewind") /\ UNCHANGED <<todo, checks, out, failure>>
       ELSE Judged(p, disk[p], FALSE)
    /\ UNCHANGED <<run, disk, at, unlisted, changes>>

(* process_file of json_docs_to_bulk_multiline: a file is taken to be one  *)
(* document a line if any of the first nine lines is one, quoted either    *)
(* way, and to be one document otherwise; it is read again from the start  *)
(* either way.  Standard input is read once, as one document.              *)
CheckBulk(p) ==
    /\ Opened(p)
    /\ run.tool = JsonBulk /\ disk[p].whole # "raises"
    /\ held' = disk[p]
    /\ IF ~CanRewind(p) THEN Judged(p, disk[p], Accepts(disk[p].whole))
       ELSE /\ Goto(IF \E k \in DOMAIN disk[p].lines : k < 10 /\ disk[p].lines[k] # "bad"
                    THEN "rewind" ELSE "whole")
            /\ UNCHANGED <<todo, checks, out, failure>>
    /\ UNCHANGED <<run, disk, at, unlisted, changes>>

(* The second reading, of the open file: as it is now if it was rewritten, *)
(* as it was if it was removed.                                            *)
Again == IF disk[Head(todo)] = Gone THEN held ELSE disk[Head(todo)]

ReadWhole ==
    /\ pc = "whole"
    /\ IF Again.whole = "raises"
       THEN End("1") /\ UNCHANGED <<todo, checks, out, failure>>
       ELSE Judged(Head(todo), Again, Accepts(Again.whole))
    /\ UNCHANGED <<run, disk, at, held, unlisted, changes>>

(* A file that does not fit in memory is taken to be one document a line.  *)
OutOfMemory(p) ==
    /\ \/ Opened(p) /\ run.tool = Json /\ ~run.multi /\ p # "-" /\ held' = disk[p]
       \/ pc = "whole" /\ Head(todo) = p /\ UNCHANGED held
    /\ Goto("rewind")
    /\ UNCHANGED <<run, disk, at, todo, checks, out, failure, unlisted, changes>>

RewindCheckMultirecord ==
    /\ pc = "rewind"
    /\ IF Again.whole = "raises"
       THEN End("1") /\ UNCHANGED <<todo, checks, out, failure>>
       ELSE Judged(Head(todo), Again, AllLines(Again))
    /\ UNCHANGED <<run, disk, at, held, unlisted, changes>>

(* print() of validate_ldap_ldif and check_ini: seek(0), and print what is *)
(* there now; a pipe cannot be rewound.                                    *)
Reprint ==
    /\ pc = "reprint"
    /\ \/ /\ Head(todo) = "-" => run.seekable
          /\ Printed(Head(todo), Again, DOMAIN Again.lines)
          /\ todo' = Tail(todo)
          /\ Goto("paths")
       \/ /\ (Head(todo) = "-" /\ ~run.seekable) \/ Again.whole = "raises"
          /\ End("1")
          /\ UNCHANGED <<out, todo>>
    /\ UNCHANGED <<run, disk, at, held, checks, failure, unlisted, changes>>

(* Somebody rewrites or removes a file.                                    *)
Change ==
    /\ pc # "done"
    /\ changes < MaxChanges
    /\ changes' = changes + 1
    /\ \E f \in Files : /\ disk[f] # Gone
                       /\ \E d \in Documents(run.tool) \union {Gone} : disk' = [disk EXCEPT ![f] = d]
    /\ UNCHANGED <<run, program>>

VNext ==
    \/ CheckArg \/ CheckPath \/ Walk
    \/ \E p \in Files \union {"-"} :
         SkipFile(p) \/ CannotOpen(p) \/ Raises(p) \/ CheckFile(p) \/ CheckJson(p) \/ CheckBulk(p)
         \/ OutOfMemory(p)
    \/ ReadWhole \/ RewindCheckMultirecord \/ Reprint
    \/ Change

VSpec == VInit /\ [][VNext]_VVars

-----------------------------------------------------------------------------
(* The type invariant: what is visited exists in the tree, only what can   *)
(* be read twice is, and what a walk did not find is gone for good.        *)
Rereading == pc \in {"whole", "rewind", "reprint"}
VTypeOK ==
    /\ run \in Runs
    /\ disk \in [Files \union {"-"} -> Documents(run.tool) \union {Gone}]
    /\ disk["-"] # Gone
    /\ pc \in {"args", "paths", "whole", "rewind", "reprint", "done"}
    /\ at \in 1..(Len(Args) + 1)
    /\ todo \in Seq(Files \union Dirs \union {"-"})
    /\ held \in Documents(run.tool) \union {Gone}
    /\ unlisted \in SUBSET {f \in Files : disk[f] = Gone}
    /\ failure \in BOOLEAN
    /\ exit \in {"running", "0", "1", "2", "3"}
    /\ exit = "running" <=> pc # "done"
    /\ Rereading => todo # <<>> /\ Head(todo) \notin Dirs /\ held # Gone
    /\ pc \in {"whole", "rewind"} => run.tool \in {Json, JsonBulk} /\ Head(todo) # "-"
    /\ pc = "reprint" => run.tool.prints = "reread"
    /\ changes \in 0..MaxChanges

SeenPaths == {s.path : s \in checks}

(* What an argument stands for: a directory for the files that are looked  *)
(* for in it and below it, in the directories that are entered.            *)
Entered(d) == d \notin run.excluded \union run.locked
Inside == [d \in Dirs |-> IF Entered(d) THEN Tree[d] \intersect Dirs ELSE {}]
StandsFor(p) ==
    IF p \in Dirs THEN UNION {Tree[d] \intersect Suffixed : d \in {e \in Below(p, Inside) : Entered(e)}}
    ELSE {p}

NamedFiles(n) == {Args[j] : j \in 1..n} \intersect ((Files \union {"-"}) \ run.excluded)
Wanted ==
    (UNION {StandsFor(p) : p \in Range(Args) \intersect (Files \union Dirs \union {"-"})}) \ run.excluded

(* Nothing is read but what the arguments ask for: --exclude holds at      *)
(* every depth.  Exit code 0 means that every wanted file was checked and  *)
(* was valid at that time, whatever changes meanwhile, with --print and    *)
(* --continue too: one that is an argument itself in any case, one that a  *)
(* walk looks for unless it had been removed before its directory was      *)
(* listed.                                                                 *)
(* (run, check_path, walk, check_file; the verdict on the standard input   *)
(* of validate_toml and validate_cson aside.)                              *)
ZeroMeansAllValid ==
    /\ SeenPaths \subseteq Wanted
    /\ exit = "0" =>
        /\ Wanted \subseteq SeenPaths \union unlisted
        /\ NamedFiles(Len(Args)) \subseteq SeenPaths
        /\ \A s \in checks : s.valid \/ (s.path = "-" /\ run.tool.stdin = "ignored")

(* No false alarm: exit code 2 means that something was invalid or could   *)
(* not be found, and 1 that an exception was raised.                       *)
FailureHasReason ==
    /\ exit = "2" =>
         \/ \E s \in checks : ~s.valid
         \/ \E a \in Range(Args) : a = "missing" \/ (a = "-" /\ run.tool.stdin = "none")
         \/ \E f \in Files : disk[f] = Gone
         \/ run.tool = Multimedia /\ run.locked # {}
    /\ exit = "1" =>
         \/ run.tool \in Filters /\ \E a \in Range(Args) : a = "missing"
         \/ run.tool \in Filters /\ \E f \in Files : disk[f] = Gone
         \/ run.tool = YamlToJson /\ \E s \in checks : ~s.valid
         \/ held.whole = "raises"
         \/ \E p \in Files \union {"-"} : disk[p].whole = "raises"
         \/ ~run.seekable

(* What was printed of a document.                                         *)
PrintedSound ==
    \A o \in out :
        LET passed == {s \in checks : s.path = o.path /\ s.valid} IN
        CASE run.tool.prints = "content" -> \E s \in passed : s.doc = o.doc
          [] run.tool.prints = "reread"  -> passed # {}
          [] OTHER -> \/ \E s \in passed : s.doc = o.doc
                      \/ \A k \in o.lines : Accepts(o.doc.lines[k])

(* --print gives nothing of what was found invalid but records that are    *)
(* valid themselves, and in a run that ends with 0 gives all that was      *)
(* checked.  What validate_ldap_ldif and validate_ini read a second time   *)
(* need not be what they checked.                                          *)
PrintedWasValid ==
    /\ PrintedSound
    /\ (exit = "0" /\ Shows /\ run.tool.prints # "never") =>
         \A s \in checks : \E o \in out : o.path = s.path

(* "validate files, directory trees and/or standard input streams": the    *)
(* README on validate_*.py.                                                *)
InvalidNeverEndsWithZero == exit = "0" => \A s \in checks : s.valid
-----------------------------------------------------------------------------
(* The inductive invariant behind these.  Before anything is visited       *)
(* nothing was checked; exit code 0 comes after the last argument, when     *)
(* nothing has failed.                                                     *)
Ahead == UNION {StandsFor(p) : p \in Range(todo)}
Running == pc = "paths" \/ Rereading

Beginning == pc = "args" => todo = <<>> /\ checks = {} /\ out = {} /\ ~failure
ExitZero == exit = "0" => at > Len(Args) /\ todo = <<>> /\ ~failure

(* Only what the arguments stand for is visited, and all that those behind *)
(* stand for was checked, is excluded, was gone or is still to come.       *)
OnlyWanted == SeenPaths \union (Ahead \ run.excluded) \subseteq Wanted
Accounted ==
    (Running \/ exit = "0") =>
        /\ \A j \in 1..(at - 1) :
             StandsFor(Args[j]) \ run.excluded \subseteq SeenPaths \union Ahead \union unlisted
        /\ NamedFiles(at - 1) \subseteq SeenPaths \union Range(todo)

(* self.failed is set when, and only when, something failed.               *)
ValidSoFar ==
    (~failure /\ exit \in {"running", "0"}) =>
        \A s \in checks : s.valid \/ (s.path = "-" /\ run.tool.stdin = "ignored")
FailedForReason ==
    failure => (\E s \in checks : ~s.valid) \/ (run.tool = Multimedia /\ run.locked # {})

(* What is read again is not excluded; what is about to be printed was     *)
(* valid, and everything else that was checked has been printed.           *)
NotExcluded == Rereading => ~Excluded(Head(todo))
Reprinted == pc = "reprint" => \E s \in checks : s.path = Head(todo) /\ s.valid
PrintedSoFar ==
    (Shows /\ run.tool.prints # "never" /\ ~failure /\ exit \in {"running", "0"}) =>
        \A s \in checks : (pc = "reprint" /\ s.path = Head(todo)) \/ \E o \in out : o.path = s.path

VIInv ==
    /\ VTypeOK /\ Beginning /\ ExitZero /\ OnlyWanted /\ Accounted
    /\ ValidSoFar /\ FailedForReason /\ FailureHasReason
    /\ NotExcluded /\ Reprinted /\ PrintedSoFar /\ PrintedSound
=============================================================================
