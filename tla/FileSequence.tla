----------------------------- MODULE FileSequence -----------------------------
(* find_missing_files_in_sequence.py: for every numbered file it is given,  *)
(* or finds below the directories it is given, look for the file numbered   *)
(* one less, one less again, and so on down to the first that is there, and *)
(* report those that are not.  Files come and go meanwhile.  The order in    *)
(* which they are printed is left out.                                      *)
EXTENDS Naturals, Sequences, FiniteSets, SequencesExt, TreeWalks

CONSTANTS
    Subdirs,        \* directory -> the directories in it
    Stems, Endings,
    Name,           \* file -> its name, for the files there may be
    Magic,          \* the prefixes with characters that glob takes for its own
    Lookalikes,     \* what glob finds besides: see LookalikesAssumption
    Searches,       \* how the program may be started, see SearchesAssumption
    Listings        \* the files there may be at the start

(* A name splits into a prefix, a number of so many digits, and a suffix    *)
(* (the default regex sees to it that the suffix does not begin with one);  *)
(* width 0: the regex finds no number in it.  No prefix begins like another. *)
NameType ==
    [dir : Dirs, prefix : Stems, number : Nat, width : Nat, suffix : Endings]
ASSUME NameAssumption ==
    /\ Name \in [Files -> NameType]
    /\ \A f \in Files : Name[f].number < 10 ^ Name[f].width
(* Directories, and files from whose names the regex takes no number, that   *)
(* are called like a numbered file; these stay.                             *)
ASSUME LookalikesAssumption ==
    Lookalikes \subseteq [dir : Dirs, prefix : Stems, number : Nat, width : Nat]
ASSUME SubdirsAssumption == Subdirs \in [Dirs -> SUBSET Dirs]
ASSUME ListingsAssumption == Listings \subseteq SUBSET Files

(* skipped: the paths that --exclude matches or --include does not.  stdin: *)
(* the paths are lines read from standard input; ends: the last of them has *)
(* no newline.  locked: the directories that cannot be listed.  odd: files   *)
(* from whose names the regex of the user captures something that is no     *)
(* integer, or nothing for want of brackets.                                *)
ASSUME SearchesAssumption ==
    \A r \in Searches :
        /\ r.paths \in Seq(Dirs \union Files \union {"missing"})
        /\ r.skipped \subseteq Dirs \union Files
        /\ r.locked \subseteq Dirs
        /\ r.odd \subseteq {f \in Files : Name[f].width = 0}
        /\ {r.fixed, r.stdin, r.ends} \subseteq BOOLEAN

(* disk: the files there are.  pc: "paths", "visit", "backfill", "done".     *)
(* todo: what is left of the path at hand, see Item.                        *)
VARIABLES
    number,         \* file_number, of the file at the head of todo
    missing_files,  \* what is missing before that file
    output,         \* the names printed: [dir, prefix, number, width, suffix]
    steady, ever    \* history: the files there all the time, or at any

FSVars == <<run, disk, changes, pc, at, todo, number, missing_files, output, steady, ever, exit>>

FSInit ==
    /\ run \in Searches
    /\ disk \in Listings
    /\ changes = 0
    /\ pc = "paths" /\ at = 1 /\ todo = <<>>
    /\ number = 0 /\ missing_files = <<>> /\ output = {}
    /\ steady = disk /\ ever = disk
    /\ exit = "running"

-----------------------------------------------------------------------------
(* is_included, is_excluded: of a path as a whole.                          *)
Skipped(p) == p \in run.skipped

(* A line read from standard input keeps its newline, and there is no such  *)
(* path.                                                                    *)
Exists(k) ==
    /\ run.paths[k] \in Dirs \union disk
    /\ run.stdin => k = Len(run.paths) /\ run.ends

Item(op, of) == [op |-> op, of |-> of]

(* The loop of run(); UnknownError ends it.  (CLI makes an exit code of it.) *)
NextPath ==
    /\ pc = "paths"
    /\ IF at > Len(run.paths) THEN End("0") /\ UNCHANGED <<at, todo>>
       ELSE IF Skipped(run.paths[at]) THEN at' = at + 1 /\ UNCHANGED <<pc, exit, todo>>
       ELSE IF ~Exists(at) THEN End("error") /\ UNCHANGED <<at, todo>>
       ELSE /\ at' = at + 1
            /\ todo' = <<Item(IF run.paths[at] \in Dirs THEN "walk" ELSE "file", run.paths[at])>>
            /\ Goto("visit")
    /\ UNCHANGED <<run, disk, changes, number, missing_files, output, steady, ever>>

Items(op, seq) == [k \in DOMAIN seq |-> Item(op, seq[k])]

(* process_directory: the files of a directory; then process_directory of   *)
(* the directories in it; and os.walk, which nobody told to leave them out, *)
(* goes on to the same directories itself.  Where it cannot list a          *)
(* directory, it passes over it and says nothing.                           *)
ListedIn(d) == {f \in disk : d \notin run.locked /\ Name[f].dir = d /\ ~Skipped(f)}
DirsIn(d) == IF d \in run.locked THEN {} ELSE Subdirs[d]
ProcessedIn(d) == {s \in DirsIn(d) : ~Skipped(s)}

ProcessDirectory ==
    /\ pc = "visit"
    /\ todo # <<>> /\ Head(todo).op = "walk"
    /\ LET d == Head(todo).of IN
       \E fs \in SetToSeqs(ListedIn(d)), ds \in SetToSeqs(ProcessedIn(d)),
          entered \in SetToSeqs(DirsIn(d)) :
            todo' = Items("file", fs) \o Items("walk", ds) \o Items("walk", entered) \o Tail(todo)
    /\ UNCHANGED <<run, disk, changes, pc, at, number, missing_files, output, steady, ever, exit>>

PathDone ==
    /\ pc = "visit"
    /\ todo = <<>>
    /\ Goto("paths")
    /\ UNCHANGED <<run, disk, changes, at, todo, number, missing_files, output, steady, ever>>

-----------------------------------------------------------------------------
File == Name[Head(todo).of]

(* check_file: only the name of the file is looked at.  What the regex      *)
(* captures has to be an integer: UnknownError or IndexError.               *)
CheckName ==
    /\ pc = "visit"
    /\ todo # <<>> /\ Head(todo).op = "file"
    /\ IF Head(todo).of \in run.odd THEN End("error") /\ UNCHANGED <<number, todo>>
       ELSE IF File.width = 0 THEN todo' = Tail(todo) /\ UNCHANGED <<number, pc, exit>>
       ELSE number' = File.number /\ Goto("backfill") /\ UNCHANGED todo
    /\ UNCHANGED <<run, disk, changes, at, missing_files, output, steady, ever>>

(* The name of the file numbered n, padded to as many digits.               *)
Padded(n) == [File EXCEPT !.number = n]

(* os.path.isfile, or glob.glob of the name up to its number: it has to list *)
(* the directory, and finds whatever is called so.  A name may go on with    *)
(* more digits.                                                             *)
Begins(g, e) ==
    /\ g.dir = e.dir /\ g.prefix = e.prefix
    /\ \/ g.width = e.width /\ g.number = e.number
       \/ g.width > e.width /\ g.number \div (10 ^ (g.width - e.width)) = e.number
Globbed(e) == run.fixed \/ (e.prefix \notin Magic /\ e.dir \notin run.locked)
IsFound(e) ==
    LET names == {Name[f] : f \in disk} IN
    IF run.fixed THEN e \in names
    ELSE Globbed(e) /\ \E g \in names \union Lookalikes : Begins(g, e)

(* What is printed of it.                                                   *)
Reported(e) == IF run.fixed THEN e ELSE [e EXCEPT !.suffix = "*"]

(* Mutant: the loop ends one number early.                                  *)
MoreThanOne(n) == n > 2
More(n) == n > 1

(* One step of the loop: determine_missing_file_backfill.                   *)
Backfill ==
    /\ pc = "backfill"
    /\ More(number)
    /\ LET e == Padded(number - 1) IN
       IF IsFound(e) THEN number' = 0 /\ UNCHANGED missing_files
       ELSE number' = number - 1 /\ missing_files' = Append(missing_files, Reported(e))
    /\ UNCHANGED <<run, disk, changes, pc, at, todo, output, steady, ever, exit>>

(* Mutant: what was missing before this file is not forgotten.              *)
PrintMissingKeeps ==
    /\ pc = "backfill"
    /\ ~More(number)
    /\ output' = output \union Range(missing_files)
    /\ UNCHANGED missing_files
    /\ number' = 0
    /\ todo' = Tail(todo)
    /\ Goto("visit")
    /\ UNCHANGED <<run, disk, changes, at, steady, ever>>

PrintMissing ==
    /\ pc = "backfill"
    /\ ~More(number)
    /\ output' = output \union Range(missing_files)
    /\ missing_files' = <<>>
    /\ number' = 0
    /\ todo' = Tail(todo)
    /\ Goto("visit")
    /\ UNCHANGED <<run, disk, changes, at, steady, ever>>

(* The alarm of the CLI.                                                    *)
Alarm ==
    /\ pc # "done"
    /\ End("3")
    /\ UNCHANGED <<run, disk, changes, at, todo, number, missing_files, output, steady, ever>>

(* Somebody adds or removes a file.                                         *)
ComesOrGoes(f) ==
    /\ pc # "done"
    /\ changes < MaxChanges
    /\ changes' = changes + 1
    /\ disk' = IF f \in disk THEN disk \ {f} ELSE disk \union {f}
    /\ steady' = steady \intersect disk'
    /\ ever' = ever \union disk'
    /\ UNCHANGED <<run, pc, at, todo, number, missing_files, output, exit>>

FSNext ==
    \/ NextPath \/ ProcessDirectory \/ PathDone \/ CheckName \/ Backfill \/ PrintMissing \/ Alarm
    \/ \E f \in Files : ComesOrGoes(f)

FSSpec == FSInit /\ [][FSNext]_FSVars

-----------------------------------------------------------------------------
(* The type invariant; what is missing before a file is counted down from   *)
(* it, and forgotten when the next one is looked at.                        *)
FSTypeOK ==
    /\ run \in Searches /\ disk \subseteq Files /\ changes \in 0..MaxChanges
    /\ pc \in {"paths", "visit", "backfill", "done"}
    /\ at \in 1..(Len(run.paths) + 1)
    /\ \A k \in DOMAIN todo :
         todo[k].of \in (IF todo[k].op = "walk" THEN Dirs ELSE Files \ run.skipped)
    /\ pc = "backfill" =>
         /\ todo # <<>> /\ Head(todo).op = "file"
         /\ number > 0 => number = File.number - Len(missing_files)
    /\ pc \in {"paths", "visit"} => missing_files = <<>>
    /\ steady \subseteq disk /\ disk \subseteq ever /\ ever \subseteq Files
    /\ exit \in {"running", "0", "3", "error"}
    /\ exit = "running" <=> pc # "done"

(* The names of a set of files in the sequence e is of.  There is something *)
(* to be said of a sequence that is numbered alike, where glob can see it,   *)
(* and of what is below a file when nothing else is called like it.         *)
Group(fs, e) ==
    {g \in {Name[f] : f \in fs} :
        g.dir = e.dir /\ g.prefix = e.prefix /\ (run.fixed => g.suffix = e.suffix)}
Uniform(e) ==
    /\ \A g \in Group(ever, e) : g.width = e.width
    /\ Globbed(e)
NoLookalike(e) == run.fixed \/ \A l \in Lookalikes : l.dir # e.dir \/ l.prefix # e.prefix

(* Not there all the time, as far as there is something to be said.        *)
Absent(e) == Uniform(e) => \A g \in Group(steady, e) : g.number # e.number

(* The files the arguments ask for, as far as directories can be listed.    *)
Reached == [d \in Dirs |-> DirsIn(d)]
AsksFor(p, f) ==
    p = f \/ (p \in Dirs /\ Name[f].dir \in Below(p, Reached) \ run.locked)
Sought ==
    {f \in Files \ run.skipped :
        \E k \in DOMAIN run.paths : ~Skipped(run.paths[k]) /\ AsksFor(run.paths[k], f)}

(* In a sequence that is numbered alike what is reported missing was not    *)
(* there all the time; and exit code 0 means that every number missing      *)
(* below a file is reported, though each file looks back only as far as the *)
(* one before it, provided these stayed and were asked for themselves, and   *)
(* nothing that has no number is called like them.                          *)
(* ("Accounts for zero padding in numbered files")                          *)
MissingAreReported ==
    /\ \A e \in output : Absent(e)
    /\ exit = "0" =>
         \A f \in steady \intersect Sought :
            LET e == Name[f]
                before == {g \in Group(ever, e) : g.number < e.number}
            IN  (e.width > 0 /\ Uniform(e) /\ NoLookalike(e) /\ before \subseteq Group(steady \intersect Sought, e)) =>
                   \A n \in 1..(e.number - 1) :
                      \/ \E g \in before : g.number = n
                      \/ Reported([e EXCEPT !.number = n]) \in output

-----------------------------------------------------------------------------
(* The inductive invariant behind these.  There are items to do, and none   *)
(* between two paths or after exit code 0; names are taken from files.      *)
Reportable == [dir : Dirs, prefix : Stems, number : Nat, width : Nat, suffix : Endings \union {"*"}]
TodoIsItems ==
    /\ todo \in Seq([op : {"walk", "file"}, of : Dirs \union Files])
    /\ pc = "paths" => todo = <<>>
    /\ exit = "0" => at > Len(run.paths) /\ todo = <<>>
    /\ number \in Nat /\ missing_files \in Seq(Reportable) /\ output \subseteq Reportable

(* Whatever is, or is about to be, reported was not there all the time.     *)
AbsentOnly == \A e \in output \union Range(missing_files) : Absent(e)

(* Below a file a number m is accounted for in a set of reports when one    *)
(* between the two was there, or m itself is in the set.                    *)
AccountedFor(f, m, reports) ==
    \/ \E g \in Group(ever, Name[f]) : m <= g.number /\ g.number < Name[f].number
    \/ Reported([Name[f] EXCEPT !.number = m]) \in reports
Applies(f) == Name[f].width > 0 /\ Uniform(Name[f]) /\ NoLookalike(Name[f])

(* A file asked for is still to come, or all below it is accounted for; and *)
(* so is, at the file at hand, what is not below the number looked for.     *)
Coming(f) ==
    \/ \E item \in Range(todo) : AsksFor(item.of, f)
    \/ \E k \in DOMAIN run.paths : k >= at /\ ~Skipped(run.paths[k]) /\ AsksFor(run.paths[k], f)
Covered(f) == Applies(f) => \A m \in 1..(Name[f].number - 1) : AccountedFor(f, m, output)
AllCovered == \A f \in steady \intersect Sought : Coming(f) \/ Covered(f)
CoveredAtHand ==
    (pc = "backfill" /\ Applies(Head(todo).of)) =>
        \A m \in 1..(File.number - 1) :
            (m < number /\ number > 0) \/ AccountedFor(Head(todo).of, m, Range(missing_files))

FSIInv == FSTypeOK /\ TodoIsItems /\ AbsentOnly /\ AllCovered /\ CoveredAtHand
===============================================================================
