----------------------------- MODULE Checkouts -----------------------------
(* dockerfiles_check_git_branches.py and dockerfiles_check_git_tags.py:    *)
(* check out every branch (tag) of a repository in turn, compare the       *)
(* Dockerfiles below the targets with the versions in its name, and go     *)
(* back to what was checked out before.                                    *)
(*                                                                         *)
(* Somebody else may work in the same clone: check something out, delete a *)
(* branch or tag, or leave changes behind that stop every checkout.        *)
EXTENDS Naturals, Sequences, FiniteSets, SequencesExt

CONSTANTS
    Refs,           \* the branches but master (the tags), by their full names
    Short(_),       \* what follows the last / of a name
    Info,           \* tool -> short name -> [dirs, base, versions]
    Trees,          \* what is checked out -> path -> lines of the Dockerfile
    Runs,           \* how a program may be started: [tool, targets, selected]
    MaxForeign      \* bound: what somebody else does in the clone meanwhile

Tools == {"branches", "tags"}
ShortRefs == {Short(r) : r \in Refs}

(* Neither master nor the names below stand for a branch; git takes the     *)
(* last part of a path for what it is.                                      *)
ASSUME RefsAssumption ==
    /\ {"master", "commit", "None"} \intersect Refs = {}
    /\ \A r \in Refs : Short(Short(r)) = Short(r)

(* A name stands for its base name, the versions in it (at most one in a   *)
(* tag) and the directories whose names match the base name: none when the *)
(* name of a branch has no version.  A version is a sequence of tokens; it *)
(* begins with "x" if isVersion refuses it.                                *)
ASSUME InfoAssumption ==
    \A t \in Tools : \A b \in ShortRefs :
        /\ Info[t][b].versions \in Seq(Seq(STRING))
        /\ t = "tags" => Len(Info[t][b].versions) <= 1
Line == [kind : {"arg", "jdk"}, name : STRING, value : Seq(STRING)]
ASSUME TreesAssumption ==
    /\ Refs \union ShortRefs \union {"master", "commit"} \subseteq DOMAIN Trees
    /\ \A r \in DOMAIN Trees : \A p \in DOMAIN Trees[r] :
         Len(p) > 1 /\ Trees[r][p] \in Seq(Line)
ASSUME RunsAssumption ==
    \A r \in Runs : /\ r.tool \in Tools /\ r.selected \subseteq ShortRefs \ {"master"}
                    /\ Len(r.targets) \in Nat /\ DOMAIN r.targets = 1..Len(r.targets)
ASSUME BoundAssumption == MaxForeign \in Nat

VARIABLES
    run,            \* how the program was started
    refs, head,     \* the clone: the refs there are, and what is checked out:
    dirty,          \* "master", one of Refs or some other commit; stops checkouts
    start,          \* history: head when the program was started
    pc,             \* "args", "next", "checkout", "list", "check", "restore", "done"
    at,             \* the target it is at
    original,       \* original_branch (original_checkout), "None" if unknown
    left, branch,   \* the branches it has not come to, and the one it is at
    files,          \* the Dockerfiles still to be checked there
    failed,         \* self.failed
    code, exit,     \* the exit code to end with after the restore; the real one
    foreign         \* history: what somebody else did

clone == <<refs, head, dirty>>
progress == <<at, original, left, branch, files, failed>>
vars == <<run, clone, start, pc, progress, code, exit, foreign>>

Init ==
    /\ run \in Runs
    /\ refs \in {Refs, Refs \union {"master"}}
    /\ head \in refs \union {"commit"}
    /\ dirty = FALSE
    /\ start = head
    /\ pc = "args"
    /\ at = 1
    /\ original = "None"
    /\ left = {} /\ branch = "None" /\ files = {}
    /\ failed = FALSE
    /\ code = "none" /\ exit = "running"
    /\ foreign = <<>>

Goto(label) == pc' = label /\ UNCHANGED exit
End(c) == pc' = "done" /\ exit' = c

(* die(), or an exception, below the try of check_git_branches_dockerfiles *)
Fail(c) == code' = c /\ Goto("restore")

-----------------------------------------------------------------------------
Exists(p) == \E f \in DOMAIN Trees[head] : IsPrefix(p, f)

(* The first loop of run().                                                *)
CheckArgs ==
    /\ pc = "args"
    /\ IF \A k \in DOMAIN run.targets : Exists(run.targets[k])
       THEN Goto("next") ELSE End("1")
    /\ UNCHANGED <<run, clone, start, progress, code, foreign>>

(* Mutant: whatever is checked out is gone back to as if it were a branch. *)
OriginalAny == head

(* repo.active_branch: there is none when a tag or a commit is checked out *)
Original ==
    IF head = "master" \/ (run.tool = "branches" /\ head \in Refs) THEN head
    ELSE IF run.tool = "tags" THEN "master" ELSE "None"

ListBranches ==
    /\ pc = "next"
    /\ at <= Len(run.targets)
    /\ original' = Original
    /\ left' = {Short(r) : r \in refs \ {"master"}} \intersect run.selected
    /\ Goto("checkout")
    /\ UNCHANGED <<run, clone, start, at, branch, files, failed, code, foreign>>

(* The end of run().                                                       *)
Finish ==
    /\ pc = "next"
    /\ at > Len(run.targets)
    /\ End(IF failed THEN "2" ELSE "0")
    /\ UNCHANGED <<run, clone, start, progress, code, foreign>>

CanCheckout(r) == r \in refs /\ (dirty => head = r)

(* A checkout that fails is fatal.  A name with a / has lost what precedes *)
(* it, and is hardly ever the name of a branch.                            *)
Checkout(b) ==
    /\ pc = "checkout"
    /\ left' = left \ {b}
    /\ branch' = b
    /\ IF CanCheckout(b)
       THEN head' = b /\ Goto("list") /\ UNCHANGED code
       ELSE Fail("2") /\ UNCHANGED head
    /\ UNCHANGED <<run, refs, dirty, start, at, original, files, failed, foreign>>

CheckedOutAll ==
    /\ pc = "checkout"
    /\ left = {}
    /\ Goto("restore")
    /\ UNCHANGED <<run, clone, start, progress, code, foreign>>

(* What check_path and check_file come to: below the target, directories   *)
(* and the parent of a Dockerfile must have a name that matches.           *)
Matching(tool, b, target, tree) ==
    {f \in DOMAIN tree :
        /\ IsPrefix(target, f)
        /\ \A k \in (Len(target) + 1)..(Len(f) - 1) : f[k] \in Info[tool][b].dirs
        /\ f[Len(f) - 1] \in Info[tool][b].dirs}

CheckPath ==
    /\ pc = "list"
    /\ files' = Matching(run.tool, branch, run.targets[at], Trees[head])
    /\ Goto("check")
    /\ UNCHANGED <<run, clone, start, at, original, left, branch, failed, code, foreign>>

(* check_version: the version of the branch must be a prefix of the one in *)
(* the Dockerfile.                                                         *)
CheckVersion(version, found) ==
    IF version[1] = "x" THEN "dies" ELSE IF IsPrefix(version, found) THEN "ok" ELSE "bad"

(* check_dockerfile_arg of the branches program: versions and ARG lines    *)
(* are paired in order, lines that name a JDK go with the version after    *)
(* the next one for Scala (which there may not be: IndexError).  The first *)
(* line that is not in order decides; one more ARG line ends the check.    *)
Used(lines, k) == Cardinality({j \in 1..(k - 1) : lines[j].kind = "arg"})

CheckLine(info, lines, k) ==
    LET used == Used(lines, k)    \* version_index
        Against(i) == CheckVersion(info.versions[i], lines[k].value)
    IN  IF lines[k].kind = "arg"
        THEN IF used >= Len(info.versions) THEN "end" ELSE Against(used + 1)
        ELSE IF info.base # "scala" \/ Len(info.versions) <= 1 THEN "ok"
        ELSE IF used + 2 > Len(info.versions) THEN "raises" ELSE Against(used + 2)

CheckDockerfileArgs(info, lines) ==
    LET stops == {k \in DOMAIN lines : CheckLine(info, lines, k) # "ok"} IN
    IF stops = {} \/ CheckLine(info, lines, Min(stops)) = "end" THEN "ok"
    ELSE CheckLine(info, lines, Min(stops))

(* check_dockerfile_arg of the tags program: the first ARG line that has   *)
(* the name of the tag.  A tag without a version cannot be split.          *)
CheckDockerfileArg(info, lines) ==
    LET named == {k \in DOMAIN lines : lines[k].kind = "arg" /\ lines[k].name = info.base} IN
    IF info.versions = <<>> THEN "dies"
    ELSE IF named = {} THEN "ok" ELSE CheckVersion(info.versions[1], lines[Min(named)].value)

Verdict(tool, b, lines) ==
    IF tool = "branches" THEN CheckDockerfileArgs(Info["branches"][b], lines)
    ELSE CheckDockerfileArg(Info["tags"][b], lines)

(* Mutant: the last Dockerfile decides.                                    *)
CheckFileLast(f) ==
    /\ pc = "check"
    /\ files' = files \ {f}
    /\ IF f \notin DOMAIN Trees[head] THEN Fail("2") /\ UNCHANGED failed
       ELSE LET v == Verdict(run.tool, branch, Trees[head][f]) IN
            /\ failed' = (v = "bad")
            /\ IF v = "dies" THEN Fail("2")
               ELSE IF v = "raises" THEN Fail("1") ELSE Goto("check") /\ UNCHANGED code
    /\ UNCHANGED <<run, clone, start, at, original, left, branch, foreign>>

(* Mutant: an exception ends the program there and then.                   *)
CheckFileExits(f) ==
    /\ pc = "check"
    /\ files' = files \ {f}
    /\ UNCHANGED code
    /\ IF f \notin DOMAIN Trees[head] THEN End("2") /\ UNCHANGED failed
       ELSE LET v == Verdict(run.tool, branch, Trees[head][f]) IN
            /\ failed' = (failed \/ v = "bad")
            /\ IF v = "dies" THEN End("2")
               ELSE IF v = "raises" THEN End("1") ELSE Goto("check")
    /\ UNCHANGED <<run, clone, start, at, original, left, branch, foreign>>

(* check_file: a file that has gone is an IOError.                         *)
CheckFile(f) ==
    /\ pc = "check"
    /\ files' = files \ {f}
    /\ IF f \notin DOMAIN Trees[head] THEN Fail("2") /\ UNCHANGED failed
       ELSE LET v == Verdict(run.tool, branch, Trees[head][f]) IN
            /\ failed' = (failed \/ v = "bad")
            /\ IF v = "dies" THEN Fail("2")
               ELSE IF v = "raises" THEN Fail("1") ELSE Goto("check") /\ UNCHANGED code
    /\ UNCHANGED <<run, clone, start, at, original, left, branch, foreign>>

CheckedAll ==
    /\ pc = "check"
    /\ files = {}
    /\ Goto("checkout")
    /\ UNCHANGED <<run, clone, start, progress, code, foreign>>

(* The finally clause; an exception in it takes the place of what the      *)
(* program was about to end with.                                          *)
Restore ==
    /\ pc = "restore"
    /\ IF original # "None" /\ ~CanCheckout(original)
       THEN End("1") /\ UNCHANGED <<head, at>>
       ELSE /\ head' = IF original = "None" THEN head ELSE original
            /\ IF code = "none" THEN at' = at + 1 /\ Goto("next")
               ELSE End(code) /\ UNCHANGED at
    /\ UNCHANGED <<run, refs, dirty, start, original, left, branch, files, failed, code, foreign>>

(* The alarm of the CLI base class exits by an exception as well; during   *)
(* the restore itself it is in the way of it.                              *)
Alarm ==
    /\ code # "3"
    /\ IF pc \in {"checkout", "list", "check"} THEN Fail("3")
       ELSE pc # "done" /\ End("3") /\ UNCHANGED code
    /\ UNCHANGED <<run, clone, start, progress, foreign>>

-----------------------------------------------------------------------------
(* Somebody else.                                                          *)
Foreign(what) ==
    /\ pc # "done"
    /\ Len(foreign) < MaxForeign
    /\ foreign' = Append(foreign, what)
    /\ UNCHANGED <<run, start, pc, progress, code, exit>>

OtherCheckout ==
    /\ Foreign("checkout")
    /\ \E r \in refs : CanCheckout(r) /\ head' = r
    /\ UNCHANGED <<refs, dirty>>

OtherDelete ==
    /\ Foreign("delete")
    /\ \E r \in refs \ {head} : refs' = refs \ {r}
    /\ UNCHANGED <<head, dirty>>

OtherEdit ==
    /\ Foreign("edit")
    /\ dirty' = TRUE
    /\ UNCHANGED <<refs, head>>

Next ==
    \/ CheckArgs \/ ListBranches \/ Finish
    \/ \E b \in left : Checkout(b)
    \/ CheckedOutAll \/ CheckPath
    \/ \E f \in files : CheckFile(f)
    \/ CheckedAll \/ Restore \/ Alarm
    \/ OtherCheckout \/ OtherDelete \/ OtherEdit

Spec == Init /\ [][Next]_vars

-----------------------------------------------------------------------------
(* The type invariant; what is to be restored is a branch.                 *)
TypeOK ==
    /\ run \in Runs
    /\ refs \subseteq Refs \union {"master"}
    /\ head \in Refs \union {"master", "commit"}
    /\ start \in Refs \union {"master", "commit"}
    /\ dirty \in BOOLEAN
    /\ pc \in {"args", "next", "checkout", "list", "check", "restore", "done"}
    /\ at \in 1..(Len(run.targets) + 1)
    /\ original \in {"None", "master"} \union (IF run.tool = "branches" THEN Refs ELSE {})
    /\ left \subseteq run.selected
    /\ branch \in run.selected \union {"None"}
    /\ files # {} => pc = "check" \/ code # "none"
    /\ failed \in BOOLEAN
    /\ code \in {"none", "1", "2", "3"}
    /\ exit \in {"running", "0", "1", "2", "3"}
    /\ exit = "running" <=> pc # "done"
    /\ foreign \in Seq({"checkout", "delete", "edit"}) /\ Len(foreign) <= MaxForeign

Undisturbed == ~Contains(foreign, "checkout")
Restorable == start = "master" \/ (run.tool = "branches" /\ start \in Refs)

(* Whatever the verdict, a clone that was on a branch is on it again when  *)
(* the program ends, after any number of targets, unless git refuses to go *)
(* back; die() in the middle of a branch is no exception.  (the finally of *)
(* check_git_branches_dockerfiles)                                         *)
Restored ==
    (exit \in {"0", "1", "2"} /\ Undisturbed /\ Restorable) =>
        head = start \/ (exit = "1" /\ (dirty \/ start \notin refs))

(* What the versions of a name ask of a Dockerfile: the n-th ARG line that  *)
(* counts begins with the n-th version.                                     *)
Counts(tool, b, l) == l.kind = "arg" /\ (tool = "tags" => l.name = Info["tags"][b].base)
Aligned(tool, b, lines) ==
    LET versions == Info[tool][b].versions IN
    \A k \in DOMAIN lines :
        LET n == Cardinality({j \in 1..k : Counts(tool, b, lines[j])}) IN
        Counts(tool, b, lines[k]) /\ n <= Len(versions) => IsPrefix(versions[n], lines[k].value)

(* Exit code 0 means that in every branch (tag) that can be checked out by *)
(* its short name, every Dockerfile below every target agrees with it; and *)
(* exit code 2 is never a false alarm: a Dockerfile disagrees with its own *)
(* branch, a name is no good, or a checkout was refused.                   *)
BadFile(r, b, k) ==
    \E f \in Matching(r.tool, b, r.targets[k], Trees[b]) : Verdict(r.tool, b, Trees[b][f]) # "ok"
Reason ==
    \/ dirty
    \/ \E b \in run.selected : b \notin refs
    \/ \E b \in run.selected : \E k \in DOMAIN run.targets : BadFile(run, b, k)
VerdictIsRight ==
    Undisturbed =>
        /\ exit = "0" =>
             \A b \in run.selected \intersect refs : \A k \in DOMAIN run.targets :
                \A f \in Matching(run.tool, b, run.targets[k], Trees[b]) :
                    Aligned(run.tool, b, Trees[b][f])
        /\ exit = "2" => Reason

-----------------------------------------------------------------------------
(* What the two rest on.  As long as nobody else checks anything out, the   *)
(* program knows where the clone is.                                        *)
Whereabouts ==
    Undisturbed =>
        /\ Restorable /\ pc \in {"args", "next"} => head = start
        /\ Restorable /\ pc \in {"checkout", "list", "check", "restore"} => original = start
        /\ pc \in {"list", "check"} => head = branch

(* The order of the steps.                                                  *)
Phases ==
    /\ pc = "args" => at = 1
    /\ pc \in {"checkout", "list", "check", "restore"} => at <= Len(run.targets)
    /\ pc \in {"list", "check"} => branch \in run.selected
    /\ code # "none" => pc \in {"restore", "done"}
    /\ exit = "0" => ~failed /\ code = "none" /\ at > Len(run.targets)

(* It has failed only for a reason.                                         *)
HasReason == Undisturbed => (failed \/ code = "2" \/ exit = "2" => Reason)

(* As long as it has not failed, what it has checked is in order: all files *)
(* of the earlier targets and of the branches it has left behind, and of    *)
(* this branch those that are not to be checked still.                      *)
LeftBehind ==
    CASE pc = "checkout" -> run.selected \ left
      [] pc \in {"list", "check"} -> run.selected \ (left \union {branch})
      [] pc = "restore" -> run.selected
      [] OTHER -> {}
InOrder ==
    (~failed /\ code = "none" /\ exit \in {"running", "0"}) =>
        /\ \A k \in 1..(at - 1) : \A b \in run.selected \intersect refs : ~BadFile(run, b, k)
        /\ \A b \in LeftBehind \intersect refs : ~BadFile(run, b, at)
        /\ pc = "check" =>
             \A f \in Matching(run.tool, branch, run.targets[at], Trees[branch]) \ files :
                 Verdict(run.tool, branch, Trees[branch][f]) = "ok"
Checked ==
    Undisturbed =>
        /\ InOrder
        /\ pc = "check" => files \subseteq Matching(run.tool, branch, run.targets[at], Trees[branch])

IInv == TypeOK /\ Phases /\ Whereabouts /\ Restored /\ HasReason /\ Checked /\ VerdictIsRight
=============================================================================
