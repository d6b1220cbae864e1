-------------------------- MODULE CheckoutsProofs ---------------------------
(* Proofs about Checkouts: the clone is put back and the exit code is       *)
(* right, for any branches, tags, trees and targets and whatever others do  *)
(* in the clone.                                                            *)
EXTENDS Checkouts, FiniteSetTheorems, SequenceTheorems, TLAPS

(* A set of numbers has a least one.                                        *)
LEMMA LeastNumber ==
    ASSUME NEW T \in SUBSET Nat, T # {}
    PROVE  \E n \in T : \A m \in T : n <= m
<1> DEFINE Upto == {0..n : n \in T}
           Less == StrictSubsetOrdering(Nat)
<1>1. Upto \subseteq FiniteSubsetsOf(Nat)
  <2>1. ASSUME NEW n \in T PROVE 0..n \subseteq Nat /\ IsFiniteSet(0..n)
    BY FS_Interval
  <2>2. QED
    BY <2>1 DEF FiniteSubsetsOf
<1>2. IsWellFoundedOn(Less, FiniteSubsetsOf(Nat))
  BY FS_StrictSubsetOrderingWellFounded
<1>3. PICK D \in Upto : \A E \in Upto : <<E, D>> \notin Less
  <2>1. Upto # {}
    OBVIOUS
  <2> HIDE DEF Upto, Less
  <2>2. QED
    BY <1>1, <1>2, <2>1, WFMin
<1>4. PICK n \in T : D = 0..n
  BY <1>3
<1>5. ASSUME NEW m \in T, m < n PROVE FALSE
  <2>1. 0..m \in Upto /\ 0..m \subseteq 0..n /\ 0..m # 0..n /\ 0..m \subseteq Nat /\ 0..n \subseteq Nat
    BY <1>5
  <2>2. <<0..m, 0..n>> \in Less
    BY <2>1 DEF StrictSubsetOrdering
  <2>3. QED
    BY <1>3, <1>4, <2>1, <2>2
<1>6. QED
  BY <1>4, <1>5

(* Two different things are two.                                            *)
LEMMA PairHasTwo ==
    ASSUME NEW x, NEW y, x # y
    PROVE  Cardinality({x, y}) = 2
<1>1. Cardinality({x}) = 1 /\ IsFiniteSet({x})
  BY FS_Singleton
<1>2. y \notin {x}
  OBVIOUS
<1>3. Cardinality({x} \union {y}) = Cardinality({x}) + 1
  BY <1>1, <1>2, FS_AddElement, Zenon
<1>4. {x} \union {y} = {x, y}
  OBVIOUS
<1>5. Cardinality({x, y}) = Cardinality({x}) + 1
  BY <1>3, <1>4, Zenon
<1>6. QED
  BY <1>1, <1>5

LEMMA MinIsLeast ==
    ASSUME NEW T \in SUBSET Nat, T # {}
    PROVE  Min(T) \in T /\ \A m \in T : Min(T) <= m
BY LeastNumber DEF Min

-----------------------------------------------------------------------------
(* check_dockerfile_arg: the n-th line that counts is compared with the     *)
(* n-th version.                                                            *)
LEMMA UsedGrows ==
    ASSUME NEW lines, NEW i \in Nat, NEW k \in Nat, i <= k
    PROVE  /\ Used(lines, i) \in Nat /\ Used(lines, k) \in Nat
           /\ Used(lines, i) <= Used(lines, k)
<1> DEFINE U(n) == {j \in 1..(n - 1) : lines[j].kind = "arg"}
<1>1. IsFiniteSet(1..(i - 1)) /\ IsFiniteSet(1..(k - 1))
  BY FS_Interval
<1>2. U(i) \subseteq 1..(i - 1) /\ U(k) \subseteq 1..(k - 1) /\ U(i) \subseteq U(k)
  OBVIOUS
<1>3. Used(lines, i) = Cardinality(U(i)) /\ Used(lines, k) = Cardinality(U(k))
  BY DEF Used
<1> HIDE DEF U
<1>4. IsFiniteSet(U(i)) /\ IsFiniteSet(U(k))
  BY <1>1, <1>2, FS_Subset
<1>5. QED
  BY <1>2, <1>3, <1>4, FS_Subset, FS_CardinalityType

(* The versions used before an ARG line, and that line.                     *)
LEMMA NthArg ==
    ASSUME NEW lines, NEW k \in Nat \ {0}, lines[k].kind = "arg"
    PROVE  Cardinality({j \in 1..k : lines[j].kind = "arg"}) = Used(lines, k) + 1
<1> DEFINE U == {j \in 1..(k - 1) : lines[j].kind = "arg"}
           V == {j \in 1..k : lines[j].kind = "arg"}
<1>1. V = U \union {k} /\ k \notin U
  OBVIOUS
<1>2. IsFiniteSet(1..(k - 1)) /\ U \subseteq 1..(k - 1)
  BY FS_Interval
<1>3. Used(lines, k) = Cardinality(U)
  BY DEF Used
<1> HIDE DEF U, V
<1>4. IsFiniteSet(U)
  BY <1>2, FS_Subset
<1>5. Cardinality(V) = Cardinality(U) + 1
  BY <1>1, <1>4, FS_AddElement
<1>6. QED
  BY <1>3, <1>5 DEF V

LEMMA OkIsAligned ==
    ASSUME NEW tool \in Tools, NEW b \in ShortRefs, NEW lines \in Seq(Line),
           Verdict(tool, b, lines) = "ok"
    PROVE  Aligned(tool, b, lines)
<1> DEFINE info == Info[tool][b]
           nth(k) == Cardinality({j \in 1..k : Counts(tool, b, lines[j])})
<1>1. /\ DOMAIN lines = 1..Len(lines) /\ Len(lines) \in Nat
      /\ info.versions \in Seq(Seq(STRING)) /\ Len(info.versions) \in Nat
      /\ tool = "tags" => Len(info.versions) <= 1
  BY InfoAssumption
<1>2. SUFFICES ASSUME NEW k \in DOMAIN lines, Counts(tool, b, lines[k]), nth(k) <= Len(info.versions)
               PROVE  IsPrefix(info.versions[nth(k)], lines[k].value)
  BY DEF Aligned
<1>3. k \in Nat \ {0} /\ lines[k].kind = "arg"
  BY <1>1, <1>2 DEF Counts
<1>4. CASE tool = "branches"
  <2> DEFINE stops == {m \in DOMAIN lines : CheckLine(info, lines, m) # "ok"}
  <2>1. nth(k) = Used(lines, k) + 1
    <3>1. {j \in 1..k : Counts(tool, b, lines[j])} = {j \in 1..k : lines[j].kind = "arg"}
      BY <1>4 DEF Counts
    <3>2. QED
      BY <1>3, <3>1, NthArg
  <2>2. Used(lines, k) \in Nat
    BY <1>3, UsedGrows
  <2>3. CheckLine(info, lines, k) = CheckVersion(info.versions[nth(k)], lines[k].value)
    <3>1. ~(Used(lines, k) >= Len(info.versions))
      BY <1>1, <1>2, <2>1, <2>2
    <3> HIDE DEF nth, info
    <3>2. QED
      BY <1>3, <2>1, <3>1 DEF CheckLine
  <2>4. k \notin stops
    <3> SUFFICES ASSUME k \in stops PROVE FALSE
      OBVIOUS
    <3>1. Min(stops) \in stops /\ Min(stops) <= k
      <4>1. stops \in SUBSET Nat
        BY <1>1
      <4> HIDE DEF stops
      <4>2. QED
        BY <4>1, MinIsLeast
    <3>2. CheckDockerfileArgs(info, lines) = "ok"
      BY <1>4 DEF Verdict
    <3>3. CheckLine(info, lines, Min(stops)) = "end"
      BY <3>1, <3>2 DEF CheckDockerfileArgs
    <3> DEFINE m == Min(stops)
    <3>4. m \in Nat
      BY <1>1, <3>1
    <3> HIDE DEF m, stops
    <3>5. Used(lines, m) \in Nat /\ Used(lines, m) <= Used(lines, k)
      BY <1>3, <3>1, <3>4, UsedGrows DEF m
    <3>6. Used(lines, m) >= Len(info.versions)
      BY <3>3 DEF CheckLine, CheckVersion, m
    <3>7. QED
      BY <1>1, <1>2, <2>1, <2>2, <3>5, <3>6
  <2>5. QED
    BY <2>3, <2>4 DEF CheckVersion
<1>5. CASE tool = "tags"
  <2> DEFINE named == {m \in DOMAIN lines : lines[m].kind = "arg" /\ lines[m].name = info.base}
             before == {j \in 1..k : Counts(tool, b, lines[j])}
  <2>1. named \in SUBSET Nat /\ k \in named /\ before = {m \in named : m <= k}
    BY <1>1, <1>2, <1>5 DEF Counts
  <2>2. before \subseteq 1..k /\ IsFiniteSet(1..k)
    BY <1>3, FS_Interval
  <2>3. Min(named) \in named /\ Min(named) <= k
    <3> HIDE DEF named
    <3>1. QED
      BY <2>1, MinIsLeast
  <2>4. Min(named) \in before /\ k \in before
    BY <2>1, <2>3
  <2>5. nth(k) = Cardinality(before)
    OBVIOUS
  <2>6. Len(info.versions) <= 1 /\ CheckDockerfileArg(info, lines) = "ok"
    BY <1>1, <1>5 DEF Verdict
  <2>7. CheckVersion(info.versions[1], lines[Min(named)].value) = "ok"
    BY <2>1, <2>6 DEF CheckDockerfileArg
  <2> HIDE DEF named, before
  <2>8. Min(named) = k /\ nth(k) = 1
    <3>1. IsFiniteSet(before)
      BY <2>2, FS_Subset
    <3>2. Cardinality(before) \in Nat /\ Cardinality(before) <= 1
      BY <1>1, <1>2, <2>5, <2>6, <3>1, FS_CardinalityType
    <3>3. Cardinality({Min(named), k}) <= Cardinality(before)
      BY <2>4, <3>1, FS_Subset
    <3>4. Min(named) # k => Cardinality({Min(named), k}) = 2
      BY PairHasTwo
    <3>5. Cardinality({k}) = 1 /\ Cardinality({k}) <= Cardinality(before)
      BY <2>4, <3>1, FS_Singleton, FS_Subset
    <3>6. QED
      BY <2>5, <3>2, <3>3, <3>4, <3>5
  <2>9. QED
    BY <2>7, <2>8 DEF CheckVersion
<1>6. QED
  BY <1>4, <1>5 DEF Tools

-----------------------------------------------------------------------------
(* What somebody else may do.                                               *)
LEMMA ForeignFacts ==
    ASSUME TypeOK, OtherCheckout \/ OtherDelete \/ OtherEdit
    PROVE  /\ UNCHANGED <<run, start, pc, progress, code, exit>> /\ pc # "done"
           /\ foreign' \in Seq({"checkout", "delete", "edit"}) /\ Len(foreign') <= MaxForeign
           /\ refs' \subseteq refs /\ head' \in refs \union {head} /\ (dirty => dirty')
           /\ dirty' \in BOOLEAN
           /\ Undisturbed' => Undisturbed /\ head' = head
<1>1. PICK what \in {"checkout", "delete", "edit"} :
         /\ Foreign(what)
         /\ what # "checkout" => head' = head
  BY DEF OtherCheckout, OtherDelete, OtherEdit
<1>2. /\ foreign' = Append(foreign, what) /\ foreign \in Seq({"checkout", "delete", "edit"})
      /\ Len(foreign) < MaxForeign
  BY <1>1 DEF Foreign, TypeOK
<1>3. /\ foreign' \in Seq({"checkout", "delete", "edit"}) /\ Len(foreign') = Len(foreign) + 1
      /\ Len(foreign) \in Nat /\ Len(foreign') <= MaxForeign
      /\ \A i \in 1..Len(foreign) : foreign'[i] = foreign[i]
      /\ foreign'[Len(foreign')] = what
  BY <1>2, BoundAssumption
<1>4. Undisturbed' => Undisturbed /\ head' = head
  <2>1. ASSUME Contains(foreign, "checkout") PROVE Contains(foreign', "checkout")
    BY <1>3, <2>1 DEF Contains
  <2>2. ASSUME what = "checkout" PROVE Contains(foreign', "checkout")
    BY <1>3, <2>2 DEF Contains
  <2>3. QED
    BY <1>1, <2>1, <2>2 DEF Undisturbed
<1>5. /\ refs' \subseteq refs /\ head' \in refs \union {head} /\ (dirty => dirty')
      /\ dirty' \in BOOLEAN
  BY DEF OtherCheckout, OtherDelete, OtherEdit, TypeOK
<1>6. QED
  BY <1>1, <1>3, <1>4, <1>5 DEF Foreign

(* What each step of the program leaves alone.                              *)
Program ==
    \/ CheckArgs \/ ListBranches \/ Finish
    \/ \E b \in left : Checkout(b)
    \/ CheckedOutAll \/ CheckPath
    \/ \E f \in files : CheckFile(f)
    \/ CheckedAll \/ Restore \/ Alarm
Outside == OtherCheckout \/ OtherDelete \/ OtherEdit

LEMMA Steps == Next <=> Program \/ Outside
BY DEF Next, Program, Outside

LEMMA ProgramFacts ==
    ASSUME Program
    PROVE  UNCHANGED <<run, refs, dirty, start, foreign, Undisturbed, Restorable>>
BY DEF Program, CheckArgs, ListBranches, Finish, Checkout, CheckedOutAll, CheckPath, CheckFile,
   CheckedAll, Restore, Alarm, clone, Undisturbed, Restorable

LEMMA TypeStep == TypeOK /\ Phases /\ [Next]_vars => TypeOK'
<1> SUFFICES ASSUME TypeOK, Phases, [Next]_vars PROVE TypeOK'
  OBVIOUS
<1> USE DEF Goto, End, Fail, clone, progress
<1>1. /\ run.tool \in Tools /\ run.selected \subseteq ShortRefs \ {"master"}
      /\ Len(run.targets) \in Nat /\ at \in Nat
  BY RunsAssumption DEF TypeOK
<1>2. CASE CheckArgs
  BY <1>2 DEF CheckArgs, TypeOK
<1>3. CASE ListBranches
  BY <1>1, <1>3 DEF ListBranches, Original, TypeOK, Tools
<1>4. CASE Finish
  BY <1>4 DEF Finish, TypeOK
<1>5. ASSUME NEW b \in left, Checkout(b) PROVE TypeOK'
  BY <1>5 DEF Checkout, CanCheckout, TypeOK
<1>6. CASE CheckedOutAll
  BY <1>6 DEF CheckedOutAll, TypeOK
<1>7. CASE CheckPath
  BY <1>7 DEF CheckPath, TypeOK
<1>8. ASSUME NEW f \in files, CheckFile(f) PROVE TypeOK'
  BY <1>8 DEF CheckFile, TypeOK
<1>9. CASE CheckedAll
  BY <1>9 DEF CheckedAll, TypeOK
<1>10. CASE Restore
  <2>1. original # "None" /\ CanCheckout(original) => original \in Refs \union {"master"}
    BY DEF CanCheckout, TypeOK
  <2>2. at + 1 \in 1..(Len(run.targets) + 1)
    BY <1>1, <1>10 DEF Restore, Phases, TypeOK
  <2>3. CASE original # "None" /\ ~CanCheckout(original)
    BY <1>10, <2>3 DEF Restore, TypeOK
  <2>4. CASE ~(original # "None" /\ ~CanCheckout(original))
    <3>1. head' \in Refs \union {"master", "commit"}
      BY <1>10, <2>1, <2>4 DEF Restore, TypeOK
    <3>2. \/ at' = at + 1 /\ pc' = "next" /\ exit' = exit
          \/ at' = at /\ pc' = "done" /\ exit' = code /\ code # "none"
      BY <1>10, <2>4 DEF Restore
    <3>3. UNCHANGED <<run, refs, dirty, start, original, left, branch, files, failed, code, foreign>>
      BY <1>10 DEF Restore
    <3>4. CASE at' = at + 1 /\ pc' = "next" /\ exit' = exit
      BY <1>10, <2>2, <3>1, <3>3, <3>4 DEF Restore, TypeOK
    <3>5. CASE at' = at /\ pc' = "done" /\ exit' = code /\ code # "none"
      BY <1>10, <3>1, <3>3, <3>5 DEF TypeOK
    <3>6. QED
      BY <3>2, <3>4, <3>5
  <2>5. QED
    BY <2>3, <2>4
<1>11. CASE Alarm
  BY <1>11 DEF Alarm, TypeOK
<1>12. CASE Outside
  BY <1>12, ForeignFacts DEF Outside, TypeOK
<1>13. CASE UNCHANGED vars
  BY <1>13 DEF vars, TypeOK
<1>14. QED
  BY <1>2, <1>3, <1>4, <1>5, <1>6, <1>7, <1>8, <1>9, <1>10, <1>11, <1>12, <1>13 DEF Next, Outside

LEMMA PhasesStep == TypeOK /\ Phases /\ [Next]_vars => Phases'
<1> SUFFICES ASSUME TypeOK, Phases, [Next]_vars PROVE Phases'
  OBVIOUS
<1> USE DEF Goto, End, Fail, clone, progress
<1>1. at \in Nat /\ Len(run.targets) \in Nat
  BY RunsAssumption DEF TypeOK
<1>2. CASE CheckArgs \/ ListBranches \/ Finish \/ CheckedOutAll \/ CheckPath \/ CheckedAll
  BY <1>1, <1>2 DEF CheckArgs, ListBranches, Finish, CheckedOutAll, CheckPath, CheckedAll, Phases, TypeOK
<1>3. ASSUME NEW b \in left, Checkout(b) PROVE Phases'
  BY <1>3 DEF Checkout, Phases, TypeOK
<1>4. ASSUME NEW f \in files, CheckFile(f) PROVE Phases'
  BY <1>4 DEF CheckFile, Phases, TypeOK
<1>5. CASE Restore
  BY <1>1, <1>5 DEF Restore, Phases, TypeOK
<1>6. CASE Alarm
  BY <1>6 DEF Alarm, Phases, TypeOK
<1>7. CASE Outside
  BY <1>7, ForeignFacts DEF Outside, Phases
<1>8. CASE UNCHANGED vars
  BY <1>8 DEF vars, Phases
<1>9. QED
  BY <1>2, <1>3, <1>4, <1>5, <1>6, <1>7, <1>8 DEF Next, Outside

-----------------------------------------------------------------------------
(* The clone is put back.                                                   *)
LEMMA WhereaboutsStep == TypeOK /\ Whereabouts /\ [Next]_vars => Whereabouts'
<1> SUFFICES ASSUME TypeOK, Whereabouts, [Next]_vars, Undisturbed' PROVE Whereabouts'
  BY DEF Whereabouts
<1> USE DEF Goto, End, Fail, clone, progress, Whereabouts
<1>1. CASE Outside
  BY <1>1, ForeignFacts DEF Outside, Restorable
<1>2. CASE UNCHANGED vars
  BY <1>2 DEF vars, Undisturbed, Restorable
<1>3. ASSUME Program PROVE Undisturbed /\ UNCHANGED <<start, Restorable>>
  BY <1>3, ProgramFacts
<1>4. CASE CheckArgs \/ Finish \/ CheckedOutAll \/ CheckPath \/ CheckedAll \/ Alarm
  BY <1>3, <1>4 DEF Program, CheckArgs, Finish, CheckedOutAll, CheckPath, CheckedAll, Alarm
<1>5. CASE ListBranches
  BY <1>3, <1>5, RunsAssumption DEF Program, ListBranches, Original, Restorable, Tools, TypeOK
<1>6. ASSUME NEW b \in left, Checkout(b) PROVE Whereabouts'
  BY <1>3, <1>6 DEF Program, Checkout
<1>7. ASSUME NEW f \in files, CheckFile(f) PROVE Whereabouts'
  BY <1>3, <1>7 DEF Program, CheckFile
<1>8. CASE Restore
  <2>1. Restorable => start # "None"
    BY RefsAssumption DEF Restorable
  <2>2. QED
    BY <1>3, <1>8, <2>1 DEF Program, Restore
<1>9. QED
  BY <1>1, <1>2, <1>4, <1>5, <1>6, <1>7, <1>8 DEF Next, Outside

LEMMA RestoredStep == TypeOK /\ Whereabouts /\ Restored /\ [Next]_vars => Restored'
<1> SUFFICES ASSUME TypeOK, Whereabouts, Restored, [Next]_vars PROVE Restored'
  OBVIOUS
<1> USE DEF Goto, End, Fail, clone, progress
<1>1. CASE Outside
  BY <1>1, ForeignFacts DEF Outside, Restored, TypeOK
<1>2. CASE UNCHANGED vars
  BY <1>2 DEF vars, Restored, Undisturbed, Restorable
<1>3. ASSUME Program PROVE UNCHANGED <<refs, dirty, start, Undisturbed, Restorable>>
  BY <1>3, ProgramFacts
<1>4. CASE CheckArgs \/ Finish
  BY <1>3, <1>4 DEF Program, CheckArgs, Finish, Whereabouts, Restored, TypeOK
<1>5. CASE Restore
  <2>1. Restorable => start # "None"
    BY RefsAssumption DEF Restorable
  <2>2. QED
    BY <1>3, <1>5, <2>1 DEF Program, Restore, CanCheckout, Whereabouts, Restored, TypeOK
<1>6. CASE exit' = "running" \/ exit' = "3"
  BY <1>6 DEF Restored
<1>7. ASSUME Program, ~(CheckArgs \/ Finish \/ Restore) PROVE exit' = "running" \/ exit' = "3"
  BY <1>7 DEF Program, ListBranches, Checkout, CheckedOutAll, CheckPath, CheckFile, CheckedAll,
     Alarm, TypeOK
<1>8. QED
  BY <1>1, <1>2, <1>4, <1>5, <1>6, <1>7, Steps

-----------------------------------------------------------------------------
(* The exit code is right.                                                  *)
LEMMA ReasonStays ==
    ASSUME UNCHANGED run, refs' \subseteq refs, dirty => dirty', Reason
    PROVE  Reason'
BY DEF Reason

LEMMA HasReasonStep ==
    TypeOK /\ Phases /\ Whereabouts /\ Checked /\ HasReason /\ [Next]_vars => HasReason'
<1> SUFFICES ASSUME TypeOK, Phases, Whereabouts, Checked, HasReason, [Next]_vars, Undisturbed'
             PROVE  HasReason'
  BY DEF HasReason
<1> USE DEF Goto, End, Fail, clone, progress, HasReason
<1>1. CASE Outside
  BY <1>1, ForeignFacts, ReasonStays DEF Outside
<1>2. CASE UNCHANGED vars
  BY <1>2, ReasonStays DEF vars, Undisturbed
<1>3. ASSUME Program
      PROVE  Undisturbed /\ UNCHANGED <<run, refs, dirty>> /\ (Reason => Reason')
  <2>1. Undisturbed /\ UNCHANGED <<run, refs, dirty>>
    BY <1>3, ProgramFacts
  <2>2. ASSUME Reason PROVE Reason'
    BY <2>1, <2>2, ReasonStays
  <2>3. QED
    BY <2>1, <2>2
<1>4. ASSUME NEW b \in left, Checkout(b) PROVE HasReason'
  <2>1. b \in run.selected
    BY DEF TypeOK
  <2>2. CASE CanCheckout(b)
    BY <1>3, <1>4, <2>2 DEF Program, Checkout
  <2>3. CASE ~CanCheckout(b)
    <3>1. dirty \/ b \notin refs
      BY <2>3 DEF CanCheckout
    <3>2. Reason
      BY <2>1, <3>1 DEF Reason
    <3>3. QED
      BY <1>3, <1>4, <3>2 DEF Program
  <2>4. QED
    BY <2>2, <2>3
<1>5. ASSUME NEW f \in files, CheckFile(f) PROVE HasReason'
  <2>1. /\ head = branch /\ branch \in run.selected /\ at \in DOMAIN run.targets
        /\ f \in Matching(run.tool, branch, run.targets[at], Trees[branch])
    BY <1>3, <1>5, RunsAssumption DEF Program, CheckFile, Phases, Whereabouts, Checked, TypeOK
  <2>2. f \in DOMAIN Trees[head]
    BY <2>1 DEF Matching
  <2>3. CASE Verdict(run.tool, branch, Trees[branch][f]) = "ok"
    BY <1>3, <1>5, <2>1, <2>2, <2>3 DEF Program, CheckFile
  <2>4. CASE Verdict(run.tool, branch, Trees[branch][f]) # "ok"
    <3>1. Reason
      BY <2>1, <2>4 DEF Reason, BadFile
    <3>2. QED
      BY <1>3, <1>5, <3>1 DEF Program
  <2>5. QED
    BY <2>3, <2>4
<1>6. CASE Restore
  BY <1>3, <1>6 DEF Program, Restore
<1>7. CASE CheckArgs \/ ListBranches \/ Finish \/ CheckedOutAll \/ CheckPath \/ CheckedAll \/ Alarm
  BY <1>3, <1>7 DEF Program, CheckArgs, ListBranches, Finish, CheckedOutAll, CheckPath, CheckedAll,
     Alarm
<1>8. QED
  BY <1>1, <1>2, <1>4, <1>5, <1>6, <1>7 DEF Next, Outside


LEMMA VerdictType ==
    ASSUME NEW tool, NEW b, NEW lines
    PROVE  Verdict(tool, b, lines) \in {"ok", "bad", "dies", "raises"}
<1> DEFINE info == Info[tool][b]
<1>1. \A k : CheckLine(info, lines, k) \in {"ok", "bad", "dies", "raises", "end"}
  BY DEF CheckLine, CheckVersion
<1>2. CheckDockerfileArgs(Info["branches"][b], lines) \in {"ok", "bad", "dies", "raises"}
  BY DEF CheckDockerfileArgs, CheckLine, CheckVersion
<1>3. CheckDockerfileArg(Info["tags"][b], lines) \in {"ok", "bad", "dies"}
  BY DEF CheckDockerfileArg, CheckVersion
<1>4. QED
  BY <1>2, <1>3 DEF Verdict

LEMMA CheckedStep ==
    TypeOK /\ Phases /\ Whereabouts /\ Checked /\ [Next]_vars => Checked'
<1> SUFFICES ASSUME TypeOK, Phases, Whereabouts, Checked, [Next]_vars, Undisturbed'
             PROVE  Checked'
  BY DEF Checked
<1> USE DEF Goto, End, Fail, clone, progress
<1>1. at \in Nat \ {0} /\ Len(run.targets) \in Nat /\ run.selected \subseteq ShortRefs \ {"master"}
  BY RunsAssumption DEF TypeOK
<1>2. CASE Outside
  <2>1. /\ Undisturbed /\ refs' \subseteq refs
        /\ UNCHANGED <<run, pc, at, left, branch, files, failed, code, exit>>
    BY <1>2, ForeignFacts DEF Outside
  <2>2. LeftBehind' = LeftBehind
    BY <2>1 DEF LeftBehind
  <2>3. QED
    BY <2>1, <2>2 DEF Checked, InOrder
<1>3. CASE UNCHANGED vars
  <2>1. LeftBehind' = LeftBehind /\ Undisturbed
    BY <1>3 DEF vars, LeftBehind, Undisturbed
  <2>2. QED
    BY <1>3, <2>1 DEF vars, Checked, InOrder
<1>4. ASSUME Program PROVE Undisturbed /\ Checked /\ Whereabouts /\ UNCHANGED <<run, refs>>
  BY <1>4, ProgramFacts
<1>5. CASE CheckArgs
  BY <1>4, <1>5 DEF Program, CheckArgs, Phases, Checked, InOrder, LeftBehind
<1>6. CASE ListBranches
  <2>1. Undisturbed /\ UNCHANGED <<run, refs, at, failed, code, exit>> /\ pc = "next" /\ pc' = "checkout"
    BY <1>4, <1>6 DEF Program, ListBranches
  <2>2. ASSUME NEW b \in LeftBehind' \intersect refs PROVE FALSE
    <3>1. b \in run.selected /\ b \notin left'
      BY <2>1, <2>2 DEF LeftBehind
    <3>2. b \in Refs /\ b # "master" /\ b \in ShortRefs
      BY <1>1, <2>2, <3>1 DEF TypeOK
    <3>3. Short(b) = b
      BY <3>2, RefsAssumption DEF ShortRefs
    <3>4. QED
      BY <1>6, <2>2, <3>1, <3>2, <3>3 DEF ListBranches
  <2>3. QED
    BY <2>1, <2>2 DEF Checked, InOrder
<1>7. CASE Finish
  BY <1>4, <1>7 DEF Program, Finish, Checked, InOrder, LeftBehind, TypeOK
<1>8. ASSUME NEW b \in left, Checkout(b) PROVE Checked'
  <2>1. Undisturbed /\ UNCHANGED <<run, refs, at, failed, exit>> /\ pc = "checkout" /\ pc' # "check"
    BY <1>4, <1>8 DEF Program, Checkout
  <2>2. CASE pc' = "list"
    <3>1. UNCHANGED code /\ LeftBehind' = LeftBehind
      BY <1>8, <2>1, <2>2 DEF Checkout, LeftBehind
    <3>2. QED
      BY <2>1, <2>2, <3>1 DEF Checked, InOrder
  <2>3. CASE pc' # "list"
    BY <1>8, <2>1, <2>3 DEF Checkout, Checked, InOrder
  <2>4. QED
    BY <2>2, <2>3
<1>9. CASE CheckedOutAll
  <2>1. Undisturbed /\ UNCHANGED <<run, refs, at, failed, code, exit>> /\ pc' # "check"
    BY <1>4, <1>9 DEF Program, CheckedOutAll
  <2>2. LeftBehind' = LeftBehind
    BY <1>9, <2>1 DEF CheckedOutAll, LeftBehind
  <2>3. QED
    BY <2>1, <2>2 DEF Checked, InOrder
<1>10. CASE CheckPath
  <2>1. /\ Undisturbed /\ UNCHANGED <<run, refs, at, branch, failed, code, exit>> /\ pc' = "check"
        /\ files' = Matching(run.tool, branch, run.targets[at], Trees[branch])
    BY <1>4, <1>10 DEF Program, CheckPath, Whereabouts
  <2>2. LeftBehind' = LeftBehind
    BY <1>10, <2>1 DEF CheckPath, LeftBehind
  <2>3. QED
    BY <2>1, <2>2 DEF Checked, InOrder
<1>11. ASSUME NEW f \in files, CheckFile(f) PROVE Checked'
  <2>1. /\ Undisturbed /\ UNCHANGED <<run, refs, at, left, branch>> /\ pc = "check"
        /\ files' = files \ {f} /\ head = branch
        /\ f \in Matching(run.tool, branch, run.targets[at], Trees[branch])
    BY <1>4, <1>11 DEF Program, CheckFile, Whereabouts, Checked
  <2>2. CASE Verdict(run.tool, branch, Trees[branch][f]) = "ok"
    <3>1. f \in DOMAIN Trees[head]
      BY <2>1 DEF Matching
    <3>2. UNCHANGED <<failed, code, exit, pc>>
      <4>1. failed' = (failed \/ FALSE) /\ failed \in BOOLEAN
        BY <1>11, <2>1, <2>2, <3>1 DEF CheckFile, TypeOK
      <4>2. UNCHANGED <<code, exit, pc>>
        BY <1>11, <2>1, <2>2, <3>1 DEF CheckFile
      <4>3. QED
        BY <4>1, <4>2
    <3>3. LeftBehind' = LeftBehind
      BY <2>1, <3>2 DEF LeftBehind
    <3>4. QED
      BY <2>1, <2>2, <3>2, <3>3 DEF Checked, InOrder
  <2>3. CASE Verdict(run.tool, branch, Trees[branch][f]) # "ok"
    <3>1. f \in DOMAIN Trees[head]
      BY <2>1 DEF Matching
    <3>2. pc' = "check" => files' \subseteq Matching(run.tool, branch, run.targets[at], Trees[branch])
      BY <2>1 DEF Checked
    <3>3. failed' \/ code' # "none"
      BY <1>11, <2>1, <2>3, <3>1, VerdictType DEF CheckFile
    <3>4. QED
      BY <2>1, <3>2, <3>3 DEF Checked, InOrder
  <2>4. QED
    BY <2>2, <2>3
<1>12. CASE CheckedAll
  <2>1. /\ Undisturbed /\ UNCHANGED <<run, refs, at, left, branch, failed, code, exit>>
        /\ pc = "check" /\ pc' = "checkout" /\ files = {}
    BY <1>4, <1>12 DEF Program, CheckedAll
  <2>2. LeftBehind' \subseteq LeftBehind \union {branch}
    BY <2>1 DEF LeftBehind
  <2>3. QED
    BY <2>1, <2>2 DEF Checked, InOrder, BadFile
<1>13. CASE Restore
  <2>1. CASE code = "none" /\ pc' = "next"
    <3>1. /\ Undisturbed /\ UNCHANGED <<run, refs, failed, code, exit>> /\ at' = at + 1
          /\ LeftBehind = run.selected
      BY <1>4, <1>13, <2>1 DEF Program, Restore, LeftBehind
    <3>2. LeftBehind' = {}
      BY <2>1 DEF LeftBehind
    <3>3. \A k \in 1..(at' - 1) : k = at \/ k \in 1..(at - 1)
      BY <1>1, <3>1
    <3>4. QED
      BY <2>1, <3>1, <3>2, <3>3 DEF Checked, InOrder
  <2>2. CASE ~(code = "none" /\ pc' = "next")
    <3>1. pc' = "done" /\ (code' # "none" \/ exit' = "1")
      BY <1>13, <2>2 DEF Restore
    <3>2. QED
      BY <3>1 DEF Checked, InOrder
  <2>3. QED
    BY <2>1, <2>2
<1>14. CASE Alarm
  BY <1>14 DEF Alarm, Checked, InOrder
<1>15. QED
  BY <1>2, <1>3, <1>5, <1>6, <1>7, <1>8, <1>9, <1>10, <1>11, <1>12, <1>13, <1>14 DEF Next, Outside

(* With exit code 0 everything was checked.                                 *)
LEMMA RightWhenDone ==
    TypeOK /\ Phases /\ HasReason /\ Checked => VerdictIsRight
<1> SUFFICES ASSUME TypeOK, Phases, HasReason, Checked, Undisturbed PROVE VerdictIsRight
  BY DEF VerdictIsRight
<1>1. exit = "2" => Reason
  BY DEF HasReason
<1>2. ASSUME exit = "0", NEW b \in run.selected \intersect refs, NEW k \in DOMAIN run.targets,
             NEW f \in Matching(run.tool, b, run.targets[k], Trees[b])
      PROVE  Aligned(run.tool, b, Trees[b][f])
  <2>1. /\ run.tool \in Tools /\ run.selected \subseteq ShortRefs
        /\ Len(run.targets) \in Nat /\ k \in 1..Len(run.targets) /\ at \in Nat
    BY RunsAssumption DEF TypeOK
  <2>2. ~failed /\ code = "none" /\ k \in 1..(at - 1)
    BY <1>2, <2>1 DEF Phases
  <2>3. Verdict(run.tool, b, Trees[b][f]) = "ok"
    BY <1>2, <2>2 DEF Checked, InOrder, BadFile
  <2>4. b \in ShortRefs /\ Trees[b][f] \in Seq(Line)
    BY <1>2, <2>1, TreesAssumption DEF Matching
  <2>5. QED
    BY <2>1, <2>3, <2>4, OkIsAligned
<1>3. QED
  BY <1>1, <1>2 DEF VerdictIsRight

-----------------------------------------------------------------------------
LEMMA InitEstablishes == Init => IInv
<1> SUFFICES ASSUME Init PROVE IInv
  OBVIOUS
<1>1. TypeOK
  <2>1. /\ foreign \in Seq({"checkout", "delete", "edit"}) /\ Len(foreign) <= MaxForeign
        /\ at \in 1..(Len(run.targets) + 1)
    BY BoundAssumption, RunsAssumption DEF Init
  <2>2. /\ refs \subseteq Refs \union {"master"}
        /\ head \in Refs \union {"master", "commit"} /\ start = head
    BY DEF Init
  <2>3. QED
    BY <2>1, <2>2 DEF Init, TypeOK
<1>2. Phases /\ Whereabouts /\ Restored /\ HasReason /\ Checked /\ VerdictIsRight
  BY DEF Init, Phases, Whereabouts, Restored, HasReason, Checked, InOrder, LeftBehind, VerdictIsRight
<1>3. QED
  BY <1>1, <1>2 DEF IInv

LEMMA NextPreserves == IInv /\ [Next]_vars => IInv'
<1> SUFFICES ASSUME IInv, [Next]_vars PROVE IInv'
  OBVIOUS
<1>1. TypeOK' /\ Phases' /\ Whereabouts' /\ Restored' /\ HasReason' /\ Checked'
  BY TypeStep, PhasesStep, WhereaboutsStep, RestoredStep, HasReasonStep, CheckedStep DEF IInv
<1>2. VerdictIsRight'
  BY <1>1, RightWhenDone, PTL
<1>3. QED
  BY <1>1, <1>2 DEF IInv

(* The inductive invariant holds in every run of either program, for any    *)
(* branches or tags, trees and targets and whatever others do in the clone. *)
THEOREM Invariance == Spec => []IInv
<1>1. Init => IInv
  BY InitEstablishes
<1>2. IInv /\ [Next]_vars => IInv'
  BY NextPreserves
<1>3. QED
  BY <1>1, <1>2, PTL DEF Spec

(* What is to be restored is a branch, and no file is left unchecked but by *)
(* a program that fails (lines 196-215 and 300-320).                        *)
THEOREM TypeCorrect == Spec => []TypeOK
<1>1. IInv => TypeOK
  BY DEF IInv
<1>2. QED
  BY <1>1, Invariance, PTL

(* The finally clause puts the clone back after any number of targets,      *)
(* whatever the branches held and whichever of them raised (lines 190-215). *)
THEOREM RestoredTheorem == Spec => []Restored
<1>1. IInv => Restored
  BY DEF IInv
<1>2. QED
  BY <1>1, Invariance, PTL

(* Exit code 0 vouches for every Dockerfile of every branch under every     *)
(* target, line by line, and exit code 2 is never a false alarm.            *)
THEOREM VerdictTheorem == Spec => []VerdictIsRight
<1>1. IInv => VerdictIsRight
  BY DEF IInv
<1>2. QED
  BY <1>1, Invariance, PTL
=============================================================================
