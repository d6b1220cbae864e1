------------------------- MODULE FileProgramsProofs -------------------------
(* Proofs about the programs that go through files: DuplicateFiles,         *)
(* Validators and FileSequence.  What find_duplicate_files reports is right *)
(* and a clean exit means that there are no duplicates; exit code 0 of a    *)
(* validator means that all that was asked for is valid; and what           *)
(* find_missing_files_in_sequence leaves out is not missing: for any files, *)
(* directories and documents, and whatever others do to them meanwhile.     *)
EXTENDS DuplicateFiles, Validators, FileSequence, FiniteSetTheorems, SequenceTheorems, TLAPS

(* A finite set has two members just when its cardinality is over one.      *)
LEMMA Several ==
    ASSUME NEW S, IsFiniteSet(S)
    PROVE  Cardinality(S) > 1 <=> \E x, y \in S : x # y
<1>1. Cardinality(S) \in Nat
  BY FS_CardinalityType
<1>2. (Cardinality(S) = 0 <=> S = {}) /\ (Cardinality(S) = 1 <=> \E x : S = {x})
  BY FS_EmptySet, FS_Singleton
<1>3. CASE \E x, y \in S : x # y
  BY <1>1, <1>2, <1>3
<1>4. CASE \A x, y \in S : x = y
  <2>1. S = {} \/ \E x : S = {x}
    BY <1>4
  <2>2. QED
    BY <1>2, <1>4, <2>1
<1>5. QED
  BY <1>3, <1>4

(* A set of two.                                                            *)
LEMMA Pair ==
    ASSUME NEW x, NEW y, x # y
    PROVE  Cardinality({x, y}) = 2
<1>1. IsFiniteSet({x}) /\ Cardinality({x}) = 1 /\ y \notin {x} /\ {x, y} = {x} \union {y}
  BY FS_Singleton
<1>2. QED
  BY <1>1, FS_AddElement

LEMMA VisitsAreFinite ==
    ASSUME NEW n \in Nat, NEW T \in SUBSET (1..n)
    PROVE  IsFiniteSet(T)
<1>1. 1 \in Int /\ n \in Int
  OBVIOUS
<1>2. IsFiniteSet(1..n)
  BY <1>1, FS_Interval
<1>3. QED
  BY <1>2, FS_Subset

-----------------------------------------------------------------------------
(* Visits grouped by key: a visit more, of which nothing is recorded.       *)
LEMMA GroupsGrow ==
    ASSUME NEW w, NEW v, NEW v2, DOMAIN v2 = DOMAIN v, \A k \in DOMAIN v : v[k] \subseteq v2[k]
    PROVE  \A table :
             /\ Recorded(w, v, table) => Recorded(w, v2, table)
             /\ Right(w, v, table) => Right(w, v2, table)
<1> TAKE table
<1>1. ASSUME Recorded(w, v, table) PROVE Recorded(w, v2, table)
  BY <1>1 DEF Recorded
<1>2. ASSUME Right(w, v, table), NEW k \in DOMAIN v2
      PROVE  /\ \A f \in table[k] : \E i \in v2[k] : w[i] = f
             /\ table[k] # {} => \E i, j \in v2[k] : i # j /\ {w[i], w[j]} \subseteq table[k]
  BY <1>2 DEF Right
<1>3. QED
  BY <1>1, <1>2 DEF Right

(* A visit joins the others of its key.                                     *)
Joins(a, k, v, v2) ==
    /\ k \in DOMAIN v /\ DOMAIN v2 = DOMAIN v
    /\ a \notin v[k] /\ v2[k] = v[k] \union {a}
    /\ \A x \in DOMAIN v : x # k => v2[x] = v[x]

(* Nothing changes but under one key.                                       *)
OnlyAt(k, v, table, table2) == \A x \in DOMAIN v : x # k => table2[x] = table[x]

(* The first visit of a key is recorded ...                                 *)
LEMMA FirstOfKey ==
    ASSUME NEW w, NEW v, NEW v2, NEW k, NEW a, Joins(a, k, v, v2),
           NEW table, NEW table2, table[k] = {}, table2[k] = {w[a]},
           OnlyAt(k, v, table, table2), NEW dups, Recorded(w, v, table)
    PROVE  /\ Recorded(w, v2, table2)
           /\ Covers(v, table) => Covers(v2, table2)
           /\ Covers(v, table) /\ All(w, v, dups) => All(w, v2, dups)
<1> USE DEF Joins, OnlyAt
<1>1. ASSUME NEW x \in DOMAIN v2, NEW f \in table2[x] PROVE \E i \in v2[x] : w[i] = f
  <2>1. CASE x = k
    BY <2>1
  <2>2. CASE x # k
    BY <2>2 DEF Recorded
  <2>3. QED
    BY <2>1, <2>2
<1>2. ASSUME Covers(v, table), NEW x \in DOMAIN v2, v2[x] # {} PROVE table2[x] # {}
  BY <1>2 DEF Covers
<1>3. ASSUME Covers(v, table), All(w, v, dups), NEW x \in DOMAIN v2, NEW i \in v2[x], NEW j \in v2[x], i # j
      PROVE  w[i] \in dups[x]
  <2>1. v[k] = {}
    BY <1>3 DEF Covers
  <2>2. x # k
    BY <1>3, <2>1
  <2>3. QED
    BY <1>3, <2>2 DEF All
<1>4. Recorded(w, v2, table2)
  BY <1>1 DEF Recorded
<1>5. Covers(v, table) => Covers(v2, table2)
  BY <1>2 DEF Covers
<1>6. QED
  BY <1>3, <1>4, <1>5 DEF All

(* ... and a later one is found, with the one recorded and all that were    *)
(* found before it.                                                         *)
LEMMA LaterOfKey ==
    ASSUME NEW w, NEW v, NEW v2, NEW k, NEW a, Joins(a, k, v, v2),
           NEW table, table[k] # {},
           NEW dups, NEW dups2, dups2[k] = dups[k] \union table[k] \union {w[a]},
           OnlyAt(k, v, dups, dups2), Recorded(w, v, table), Right(w, v, dups)
    PROVE  /\ Right(w, v2, dups2)
           /\ All(w, v, dups) => All(w, v2, dups2)
<1> USE DEF Joins, OnlyAt
<1>1. PICK f \in table[k] : TRUE
  OBVIOUS
<1>2. PICK i0 \in v[k] : w[i0] = f
  BY <1>1 DEF Recorded
<1>3. ASSUME NEW x \in DOMAIN v2
      PROVE  /\ \A g \in dups2[x] : \E i \in v2[x] : w[i] = g
             /\ dups2[x] # {} => \E i, j \in v2[x] : i # j /\ {w[i], w[j]} \subseteq dups2[x]
  <2>1. CASE x # k
    BY <2>1 DEF Right
  <2>2. CASE x = k
    <3>1. i0 \in v2[k] /\ a \in v2[k] /\ i0 # a /\ {w[i0], w[a]} \subseteq dups2[k]
      BY <1>2
    <3>2. ASSUME NEW g \in dups2[k] PROVE \E i \in v2[k] : w[i] = g
      BY <3>2 DEF Right, Recorded
    <3>3. QED
      BY <2>2, <3>1, <3>2
  <2>3. QED
    BY <2>1, <2>2
<1>4. ASSUME All(w, v, dups), NEW x \in DOMAIN v2, NEW i \in v2[x], NEW j \in v2[x], i # j
      PROVE  w[i] \in dups2[x]
  <2>1. CASE x # k
    BY <1>4, <2>1 DEF All
  <2>2. CASE x = k /\ i = a
    BY <2>2
  <2>3. CASE x = k /\ i = i0
    BY <1>2, <2>3
  <2>4. CASE x = k /\ i # a /\ i # i0
    <3>1. i \in v[k] /\ i0 \in v[k]
      BY <2>4
    <3>2. QED
      BY <1>4, <2>4, <3>1 DEF All
  <2>5. QED
    BY <2>1, <2>2, <2>3, <2>4
<1>5. Right(w, v2, dups2)
  BY <1>3 DEF Right
<1>6. QED
  BY <1>4, <1>5 DEF All

(* A key that was visited before is covered already.                        *)
LEMMA CoveredKey ==
    ASSUME NEW v, NEW v2, NEW k, NEW a, Joins(a, k, v, v2),
           NEW table, table[k] # {}, Covers(v, table)
    PROVE  Covers(v2, table)
BY DEF Covers, Joins

-----------------------------------------------------------------------------
(* One visit more.                                                          *)
LEMMA OneMore ==
    ASSUME NEW n \in Nat, n \in 1..n
    PROVE  1..n = (1..(n - 1)) \union {n} /\ n \notin 1..(n - 1) /\ n - 1 \in Nat
OBVIOUS

LEMMA VisitNamed ==
    ASSUME at \in Nat, at \in 1..at, NEW b \in Names, b = basename[walk[at]]
    PROVE  /\ DOMAIN Named(at) = Names /\ DOMAIN Named(at - 1) = Names
           /\ at \notin Named(at - 1)[b]
           /\ Named(at)[b] = Named(at - 1)[b] \union {at}
           /\ \A x \in Names : x # b => Named(at)[x] = Named(at - 1)[x]
BY OneMore DEF Named

LEMMA VisitSized ==
    ASSUME at \in Nat, at \in 1..at, NEW b \in Sizes, b = SizeOf[content[walk[at]]]
    PROVE  /\ DOMAIN Sized(at) = Sizes /\ DOMAIN Sized(at - 1) = Sizes
           /\ at \notin Sized(at - 1)[b]
           /\ Sized(at)[b] = IF b = 0 THEN Sized(at - 1)[b] ELSE Sized(at - 1)[b] \union {at}
           /\ \A x \in Sizes : x # b => Sized(at)[x] = Sized(at - 1)[x]
<1>1. 1..at = (1..(at - 1)) \union {at} /\ at \notin 1..(at - 1)
  BY OneMore
<1>2. ASSUME NEW x \in Sizes
      PROVE  /\ Sized(at)[x] = {i \in 1..at : x # 0 /\ SizeOf[content[walk[i]]] = x}
             /\ Sized(at - 1)[x] = {i \in 1..(at - 1) : x # 0 /\ SizeOf[content[walk[i]]] = x}
  BY DEF Sized
<1>3. DOMAIN Sized(at) = Sizes /\ DOMAIN Sized(at - 1) = Sizes
  BY DEF Sized
<1>4. \A x \in Sizes : x # b => Sized(at)[x] = Sized(at - 1)[x]
  <2>1. ASSUME NEW x \in Sizes, x # b
        PROVE  {i \in 1..at : x # 0 /\ SizeOf[content[walk[i]]] = x}
                 = {i \in 1..(at - 1) : x # 0 /\ SizeOf[content[walk[i]]] = x}
    BY <1>1, <2>1
  <2>2. QED
    BY <1>2, <2>1
<1>5. CASE b = 0
  BY <1>1, <1>2, <1>3, <1>4, <1>5
<1>6. CASE b # 0
  BY <1>1, <1>2, <1>3, <1>4, <1>6
<1>7. QED
  BY <1>5, <1>6

LEMMA VisitCapturing ==
    ASSUME at \in Nat, at \in 1..at
    PROVE  /\ DOMAIN Capturing(at) = Captures /\ DOMAIN Capturing(at - 1) = Captures
           /\ \A x \in Captures :
                /\ at \notin Capturing(at - 1)[x]
                /\ Capturing(at)[x] = IF x \in CaptureOf[basename[walk[at]]]
                                      THEN Capturing(at - 1)[x] \union {at}
                                      ELSE Capturing(at - 1)[x]
BY OneMore DEF Capturing

-----------------------------------------------------------------------------
(* The steps, by what they come to.  Nothing at all; a test that fails; the *)
(* outcomes of is_file_dup_by_size; and the two halves of lazy hashing.     *)
Quiet == UNCHANGED <<given, at, seen, checksum, found, failed, pc, printed, exit>>

Broken ==
    /\ pc \in {"walk", "size", "stat", "hash", "backtrack"}
    /\ \/ pc' = "walk" /\ failed' = TRUE /\ checksum = {} /\ UNCHANGED exit
       \/ Crash /\ UNCHANGED failed
       \/ pc' = "done" /\ exit' = "2" /\ UNCHANGED failed
    /\ UNCHANGED <<given, at, removed, seen, checksum, found, printed>>

SizeTest ==
    /\ pc \in {"size", "stat"}
    /\ UNCHANGED <<given, at, removed, files, hashes, captured, checksum,
                   dupsByName, dupsByHash, dupsByRegex, failed, printed, exit>>
SizeZero ==
    /\ SizeTest /\ size = 0 /\ pc' = AfterContent
    /\ UNCHANGED <<sizes, unhashed, dupsBySize>>
SizeFirst ==
    /\ SizeTest /\ size # 0 /\ sizes[size] = {} /\ pc' = AfterContent
    /\ sizes' = [sizes EXCEPT ![size] = {file}]
    /\ unhashed' = unhashed \union {file}
    /\ UNCHANGED dupsBySize
SizeAgain ==
    /\ SizeTest /\ size # 0 /\ sizes[size] # {}
    /\ pc' = IF pc = "stat" THEN "hash" ELSE OnDuplicate(AfterContent)
    /\ dupsBySize' = IF opt.size
                     THEN [dupsBySize EXCEPT ![size] = @ \union sizes[size] \union {file}]
                     ELSE dupsBySize
    /\ UNCHANGED <<sizes, unhashed>>

Hashing(f) ==
    /\ HashOf(f)
    /\ UNCHANGED <<given, at, removed, files, captured, found, failed, printed, exit>>
HashOwn ==
    /\ pc = "hash" /\ Hashing(file)
    /\ sizes' = [sizes EXCEPT ![size] = @ \union {file}]
    /\ pc' = IF Cardinality(sizes'[size]) = 2 /\ sizes'[size] \intersect unhashed' # {}
             THEN "backtrack" ELSE "compare"
HashFirst(first) ==
    /\ pc = "backtrack" /\ Hashing(first) /\ pc' = "compare"
    /\ UNCHANGED sizes

LEMMA SizeOutcomes ==
    ASSUME TypeOK, Phases, BySize \/ StatForHash
    PROVE  Broken \/ SizeZero \/ SizeFirst \/ SizeAgain
<1>1. PICK next \in {"hash", OnDuplicate(AfterContent)} :
        /\ IsFileDupBySize(next)
        /\ next = IF pc = "stat" THEN "hash" ELSE OnDuplicate(AfterContent)
  BY DEF BySize, StatForHash
<1>2. /\ pc \in {"size", "stat"} /\ checksum = {}
      /\ UNCHANGED <<given, at, removed, files, hashes, captured, checksum,
                    dupsByName, dupsByHash, dupsByRegex, printed>>
  BY DEF BySize, StatForHash, TypeOK
<1>3. CASE file \in removed
  BY <1>1, <1>2, <1>3 DEF IsFileDupBySize, OSError, Broken, seen, found
<1>4. CASE file \notin removed /\ size = 0
  BY <1>1, <1>2, <1>4 DEF IsFileDupBySize, SizeZero, SizeTest
<1>5. CASE file \notin removed /\ size # 0 /\ sizes[size] = {}
  BY <1>1, <1>2, <1>5 DEF IsFileDupBySize, SizeFirst, SizeTest
<1>6. CASE file \notin removed /\ size # 0 /\ sizes[size] # {}
  <2>1. CASE /\ opt.size /\ Cardinality(sizes[size]) > 1 /\ Crash
             /\ UNCHANGED <<sizes, unhashed, dupsBySize, failed>>
    BY <1>2, <2>1 DEF Broken, seen, found
  <2>2. CASE /\ dupsBySize' = IF opt.size
                              THEN [dupsBySize EXCEPT ![size] = @ \union sizes[size] \union {file}]
                              ELSE dupsBySize
             /\ pc' = next
             /\ UNCHANGED <<sizes, unhashed, failed, exit>>
    BY <1>1, <1>2, <1>6, <2>2 DEF SizeAgain, SizeTest
  <2>3. QED
    BY <1>1, <1>6, <2>1, <2>2 DEF IsFileDupBySize
<1>7. QED
  BY <1>3, <1>4, <1>5, <1>6

LEMMA HashOutcomes ==
    ASSUME TypeOK, Phases, HashFile \/ Backtrack
    PROVE  Broken \/ HashOwn \/ \E first \in sizes[size] \intersect unhashed : HashFirst(first)
<1>1. ASSUME NEW f, HashFails(f), UNCHANGED sizes, pc \in {"hash", "backtrack"},
             UNCHANGED <<given, at, removed, files, captured, found, printed>>
      PROVE  Broken
  <2>1. UNCHANGED <<given, at, removed, seen, checksum, found, printed>>
    BY <1>1 DEF HashFails, seen
  <2>2. CASE f \in removed /\ opt.python = 3
    <3>1. pc = "hash"
      BY <1>1, <2>2 DEF Phases
    <3>2. checksum = {} /\ pc' = "walk" /\ failed' = TRUE /\ UNCHANGED exit
      BY <1>1, <2>2, <3>1 DEF HashFails, OSError, TypeOK
    <3>3. QED
      BY <1>1, <2>1, <3>2 DEF Broken
  <2>3. CASE ~(f \in removed /\ opt.python = 3)
    BY <1>1, <2>1, <2>3 DEF HashFails, Broken
  <2>4. QED
    BY <2>2, <2>3
<1>2. CASE HashFile
  BY <1>1, <1>2 DEF HashFile, HashOwn, Hashing
<1>3. CASE Backtrack
  BY <1>1, <1>3 DEF Backtrack, HashFirst, Hashing
<1>4. QED
  BY <1>2, <1>3

LEMMA Steps ==
    ASSUME TypeOK, Phases, [Next]_vars
    PROVE  \/ Visit \/ IsFileDupByName \/ Broken \/ SizeZero \/ SizeFirst \/ SizeAgain
           \/ HashOwn \/ \E first \in sizes[size] \intersect unhashed : HashFirst(first)
           \/ CompareHashes \/ IsFileDupByRegex \/ Report
           \/ Quiet /\ removed' \in SUBSET Files
<1>1. ASSUME NEW f \in Files, RemoveFile(f) PROVE Quiet /\ removed' \in SUBSET Files
  BY <1>1 DEF RemoveFile, Quiet, TypeOK
<1>2. CASE UNCHANGED vars
  BY <1>2 DEF vars, Quiet, TypeOK
<1>3. CASE NotFound
  BY <1>3 DEF NotFound, Broken
<1>4. QED
  BY <1>1, <1>2, <1>3, SizeOutcomes, HashOutcomes DEF Next

(* The file that is looked at.                                              *)
LEMMA TheFile ==
    ASSUME TypeOK
    PROVE  /\ \A f \in Files : /\ basename[f] \in Names /\ content[f] \in Contents
                              /\ SizeOf[content[f]] \in Sizes
           /\ at \in Nat /\ \A i \in Visits : walk[i] \in Files
           /\ at \in Visits => file \in Files /\ size \in Sizes
<1>1. walk \in Seq(Files) /\ at \in 0..Len(walk)
  BY FilesAssumption DEF TypeOK
<1>2. \A f \in Files : /\ basename[f] \in Names /\ content[f] \in Contents
                      /\ SizeOf[content[f]] \in Sizes
  BY DEF TypeOK, Sizes
<1>3. at \in Nat /\ \A i \in Visits : walk[i] \in Files
  BY <1>1 DEF Visits
<1>4. QED
  BY <1>2, <1>3 DEF file, size

LEMMA PhasesStep == TypeOK /\ Phases /\ [Next]_vars => Phases'
<1> SUFFICES ASSUME TypeOK, Phases, [Next]_vars PROVE Phases'
  OBVIOUS
<1> USE DEF AfterContent, AfterName, OnDuplicate, given
<1>1. CASE Visit
  <2>1. at' = at + 1 /\ at \in Nat
    BY <1>1, TheFile DEF Visit
  <2>2. at' \in Visits'
    BY <2>1 DEF Visits
  <2>3. pc = "walk" /\ pc' = (IF opt.name THEN "name" ELSE AfterName) /\ UNCHANGED <<opt, exit>>
    BY <1>1 DEF Visit
  <2>4. QED
    BY <2>2, <2>3 DEF Phases
<1>2. CASE Quiet
  BY <1>2 DEF Quiet, Phases, seen, found, Visits, size, file
<1>3. CASE IsFileDupByName
  <2>1. UNCHANGED <<opt, exit, at>> /\ pc = "name" /\ pc' \in {AfterName, "walk"}
    BY <1>3 DEF IsFileDupByName
  <2>2. QED
    BY <2>1 DEF Phases, Visits
<1>4. CASE Broken
  BY <1>4 DEF Broken, Crash, Phases, Visits
<1>5. CASE SizeZero \/ SizeFirst
  <2>1. UNCHANGED <<opt, exit, at>> /\ pc \in {"size", "stat"} /\ pc' = AfterContent
    BY <1>5 DEF SizeZero, SizeFirst, SizeTest
  <2>2. QED
    BY <2>1 DEF Phases, Visits
<1>6. CASE SizeAgain
  <2>1. UNCHANGED <<given, exit, at, sizes>> /\ pc \in {"size", "stat"} /\ size # 0 /\ sizes[size] # {}
    BY <1>6 DEF SizeAgain, SizeTest
  <2>2. \/ pc = "stat" /\ pc' = "hash"
        \/ pc' = "regex" /\ opt.regex
        \/ pc' = "walk"
    BY <1>6 DEF SizeAgain, SizeTest
  <2>3. QED
    BY <2>1, <2>2 DEF Phases, Visits, size, file
<1>7. CASE HashOwn
  <2>1. /\ UNCHANGED <<given, exit, at>> /\ pc = "hash" /\ pc' \in {"backtrack", "compare"}
        /\ opt.python = 2 /\ sizes' = [sizes EXCEPT ![size] = @ \union {file}]
    BY <1>7 DEF HashOwn, Hashing, HashOf
  <2>2. size' = size /\ size \in Sizes
    BY <2>1, TheFile DEF size, file, Phases
  <2>3. sizes'[size] # {}
    BY <2>1, <2>2 DEF TypeOK
  <2>4. QED
    BY <2>1, <2>2, <2>3 DEF Phases, Visits
<1>8. ASSUME NEW first, HashFirst(first) PROVE Phases'
  BY <1>8 DEF HashFirst, Hashing, Phases, Visits, size, file
<1>9. CASE CompareHashes
  <2>1. UNCHANGED <<opt, exit, at>> /\ pc = "compare" /\ pc' \in {AfterContent, "walk"}
    BY <1>9 DEF CompareHashes
  <2>2. QED
    BY <2>1 DEF Phases, Visits
<1>10. CASE IsFileDupByRegex \/ Report
  BY <1>10 DEF IsFileDupByRegex, Report, Phases, Visits
<1>11. QED
  BY <1>1, <1>2, <1>3, <1>4, <1>5, <1>6, <1>7, <1>8, <1>9, <1>10, Steps

-----------------------------------------------------------------------------
(* A table grows under one key.                                             *)
LEMMA SizesGrow ==
    ASSUME TypeOK, NEW s \in Sizes, NEW f \in Files,
           sizes' = [sizes EXCEPT ![s] = @ \union {f}] \/ (sizes[s] = {} /\ sizes' = [sizes EXCEPT ![s] = {f}])
    PROVE  /\ sizes' \in [Sizes -> SUBSET Files]
           /\ sizes'[s] = sizes[s] \union {f} /\ \A x \in Sizes : x # s => sizes'[x] = sizes[x]
           /\ \A x \in Sizes : sizes[x] \subseteq sizes'[x]
BY DEF TypeOK

LEMMA TypeStep == TypeOK /\ Phases /\ [Next]_vars => TypeOK'
<1> SUFFICES ASSUME TypeOK, Phases, [Next]_vars PROVE TypeOK'
  OBVIOUS
<1> USE DEF AfterContent, AfterName, OnDuplicate, given
<1> DEFINE Where == {"walk", "name", "size", "stat", "hash", "backtrack", "compare", "regex", "done"}
<1>1. CASE Visit
  <2>1. at' = at + 1 /\ at < Len(walk) /\ checksum = {} /\ checksum' = {} /\ pc' \in Where
    BY <1>1 DEF Visit, TypeOK
  <2>2. walk \in Seq(Files) /\ at \in 0..Len(walk)
    BY FilesAssumption DEF TypeOK
  <2>3. at' \in 0..Len(walk')
    BY <1>1, <2>1, <2>2 DEF Visit
  <2>4. QED
    BY <1>1, <2>1, <2>3 DEF Visit, TypeOK, seen, found
<1>2. CASE Quiet /\ removed' \in SUBSET Files
  BY <1>2 DEF Quiet, TypeOK, seen, found
<1>3. CASE IsFileDupByName
  <2>1. at \in Visits /\ checksum = {} /\ pc' \in Where
    BY <1>3 DEF IsFileDupByName, Phases, TypeOK
  <2>2. file \in Files /\ basename[file] \in Names
    BY <2>1, TheFile
  <2>3. files' \in [Names -> SUBSET Files] /\ dupsByName' \in [Names -> SUBSET Files]
    <3>1. CASE files[basename[file]] # {}
      <4>1. /\ dupsByName' = [dupsByName EXCEPT ![basename[file]]
                              = @ \union files[basename[file]] \union {file}]
            /\ UNCHANGED files
        BY <1>3, <3>1 DEF IsFileDupByName
      <4>2. QED
        BY <2>2, <4>1 DEF TypeOK
    <3>2. CASE files[basename[file]] = {}
      <4>1. files' = [files EXCEPT ![basename[file]] = {file}] /\ UNCHANGED dupsByName
        BY <1>3, <3>2 DEF IsFileDupByName
      <4>2. QED
        BY <2>2, <4>1 DEF TypeOK
    <3>3. QED
      BY <3>1, <3>2
  <2>4. QED
    BY <1>3, <2>1, <2>3 DEF IsFileDupByName, TypeOK
<1>4. CASE Broken
  BY <1>4 DEF Broken, Crash, TypeOK, seen, found
<1>5. CASE SizeZero
  BY <1>5 DEF SizeZero, SizeTest, TypeOK
<1>6. CASE SizeFirst
  <2>1. at \in Visits /\ checksum = {} /\ pc' \in Where
    BY <1>6 DEF SizeFirst, SizeTest, Phases, TypeOK
  <2>2. file \in Files /\ size \in Sizes
    BY <2>1, TheFile
  <2>3. /\ sizes' \in [Sizes -> SUBSET Files]
        /\ \A x \in Sizes : sizes[x] \subseteq sizes'[x]
        /\ file \in sizes'[size]
    BY <1>6, <2>2, SizesGrow DEF SizeFirst
  <2>4. unhashed' = unhashed \union {file} /\ content' = content
    BY <1>6 DEF SizeFirst, SizeTest
  <2>5. unhashed' \in SUBSET Files /\ \A f \in unhashed' : f \in sizes'[SizeOf[content'[f]]]
    <3>1. unhashed \in SUBSET Files /\ \A f \in unhashed : f \in sizes[SizeOf[content[f]]]
      BY DEF TypeOK
    <3>2. QED
      BY <2>2, <2>3, <2>4, <3>1, TheFile DEF size
  <2>6. QED
    BY <1>6, <2>1, <2>3, <2>5 DEF SizeFirst, SizeTest, TypeOK
<1>7. CASE SizeAgain
  <2>1. at \in Visits /\ checksum = {} /\ pc' \in Where
    BY <1>7 DEF SizeAgain, SizeTest, Phases, TypeOK
  <2>2. file \in Files /\ size \in Sizes
    BY <2>1, TheFile
  <2>3. dupsBySize' \in [Sizes -> SUBSET Files]
    BY <1>7, <2>2 DEF SizeAgain, TypeOK
  <2>4. QED
    BY <1>7, <2>1, <2>3 DEF SizeAgain, SizeTest, TypeOK
<1>8. CASE HashOwn
  <2>1. at \in Visits /\ pc' \in {"backtrack", "compare"}
    BY <1>8 DEF HashOwn, Phases
  <2>2. file \in Files /\ size \in Sizes /\ content[file] \in Contents
    BY <2>1, TheFile
  <2>3. /\ sizes' \in [Sizes -> SUBSET Files]
        /\ \A x \in Sizes : sizes[x] \subseteq sizes'[x]
    BY <1>8, <2>2, SizesGrow DEF HashOwn
  <2>4. /\ unhashed' = unhashed \ {file} /\ checksum' = {content[file]} /\ content' = content
        /\ hashes' = [hashes EXCEPT ![content[file]] = @ \union {file}]
    BY <1>8 DEF HashOwn, Hashing, HashOf
  <2>5. unhashed' \in SUBSET Files /\ \A f \in unhashed' : f \in sizes'[SizeOf[content'[f]]]
    <3>1. unhashed \in SUBSET Files /\ \A f \in unhashed : f \in sizes[SizeOf[content[f]]]
      BY DEF TypeOK
    <3>2. QED
      BY <2>3, <2>4, <3>1, TheFile
  <2>6. hashes' \in [Contents -> SUBSET Files] /\ checksum' \in SUBSET Contents
    BY <2>2, <2>4 DEF TypeOK
  <2>7. QED
    BY <1>8, <2>1, <2>3, <2>5, <2>6 DEF HashOwn, Hashing, TypeOK, found
<1>9. ASSUME NEW first \in sizes[size] \intersect unhashed, HashFirst(first) PROVE TypeOK'
  <2>1. at \in Visits
    BY <1>9 DEF HashFirst, Phases
  <2>2. size \in Sizes
    BY <2>1, TheFile
  <2>3. first \in Files
    BY <2>2 DEF TypeOK
  <2>4. content[first] \in Contents
    BY <2>3, TheFile
  <2>5. /\ unhashed' = unhashed \ {first} /\ checksum' = {content[first]} /\ UNCHANGED sizes
        /\ hashes' = [hashes EXCEPT ![content[first]] = @ \union {first}]
    BY <1>9 DEF HashFirst, Hashing, HashOf
  <2>6. hashes' \in [Contents -> SUBSET Files] /\ checksum' \in SUBSET Contents
    BY <2>3, <2>4, <2>5 DEF TypeOK
  <2>7. QED
    BY <1>9, <2>5, <2>6 DEF HashFirst, Hashing, TypeOK, found
<1>10. CASE CompareHashes
  <2>1. PICK c \in checksum :
          \/ dupsByHash' = [dupsByHash EXCEPT ![c] = @ \union hashes[c]]
          \/ UNCHANGED dupsByHash
    BY <1>10 DEF CompareHashes
  <2>2. c \in Contents
    BY DEF TypeOK
  <2>3. dupsByHash' \in [Contents -> SUBSET Files]
    BY <2>1, <2>2 DEF TypeOK
  <2>4. pc' \in Where /\ checksum' = {}
    BY <1>10 DEF CompareHashes
  <2>5. QED
    BY <1>10, <2>3, <2>4 DEF CompareHashes, TypeOK, seen
<1>11. CASE IsFileDupByRegex
  <2>1. at \in Visits /\ checksum = {} /\ pc' = "walk"
    BY <1>11 DEF IsFileDupByRegex, Phases, TypeOK
  <2>2. file \in Files /\ basename[file] \in Names
    BY <2>1, TheFile
  <2>3. captured' \in [Captures -> SUBSET Files] /\ dupsByRegex' \in [Captures -> SUBSET Files]
    <3>1. CASE UNCHANGED <<captured, dupsByRegex>>
      BY <3>1 DEF TypeOK
    <3>2. ASSUME NEW x \in CaptureOf[basename[file]],
                 dupsByRegex' = [dupsByRegex EXCEPT ![x] = @ \union captured[x] \union {file}],
                 UNCHANGED captured
          PROVE  captured' \in [Captures -> SUBSET Files] /\ dupsByRegex' \in [Captures -> SUBSET Files]
      <4>1. x \in Captures
        BY <2>2, FilesAssumption
      <4>2. QED
        BY <2>2, <3>2, <4>1 DEF TypeOK
    <3>3. ASSUME NEW x \in CaptureOf[basename[file]],
                 captured' = [captured EXCEPT ![x] = {file}], UNCHANGED dupsByRegex
          PROVE  captured' \in [Captures -> SUBSET Files] /\ dupsByRegex' \in [Captures -> SUBSET Files]
      BY <2>2, <3>3 DEF TypeOK
    <3>4. QED
      BY <1>11, <3>1, <3>2, <3>3 DEF IsFileDupByRegex
  <2>4. QED
    BY <1>11, <2>1, <2>3 DEF IsFileDupByRegex, TypeOK
<1>12. CASE Report
  BY <1>12 DEF Report, TypeOK, seen, found
<1>13. QED
  BY <1>1, <1>2, <1>3, <1>4, <1>5, <1>6, <1>7, <1>8, <1>9, <1>10, <1>11, <1>12, Steps

-----------------------------------------------------------------------------
(* Whether anything was found, key by key.                                  *)
LEMMA GroupedEmpty ==
    ASSUME NEW D
    PROVE  Grouped(D) = {} <=> \A k \in DOMAIN D : D[k] = {}
<1>1. \A f : f \in Grouped(D) <=> \E k \in DOMAIN D : f \in D[k]
  BY DEF Grouped
<1>2. QED
  BY <1>1

Nothing ==
    /\ \A n \in Names : dupsByName[n] = {}
    /\ \A s \in Sizes : dupsBySize[s] = {}
    /\ \A c \in Contents : dupsByHash[c] = {}
    /\ \A x \in Captures : dupsByRegex[x] = {}

LEMMA NothingFound == TypeOK => (PathsFound = {} <=> Nothing)
<1> SUFFICES ASSUME TypeOK PROVE PathsFound = {} <=> Nothing
  OBVIOUS
<1>1. /\ DOMAIN dupsByName = Names /\ DOMAIN dupsBySize = Sizes
      /\ DOMAIN dupsByHash = Contents /\ DOMAIN dupsByRegex = Captures
  BY DEF TypeOK
<1>2. PathsFound = {} <=> /\ Grouped(dupsByName) = {} /\ Grouped(dupsBySize) = {}
                         /\ Grouped(dupsByHash) = {} /\ Grouped(dupsByRegex) = {}
  BY DEF PathsFound
<1>3. QED
  BY <1>1, <1>2, GroupedEmpty DEF Nothing

(* Nothing that was found is forgotten.                                     *)
LEMMA FoundStays ==
    ASSUME TypeOK, Phases, [Next]_vars
    PROVE  /\ \A n \in Names : dupsByName[n] \subseteq dupsByName'[n]
           /\ \A s \in Sizes : dupsBySize[s] \subseteq dupsBySize'[s]
           /\ \A c \in Contents : dupsByHash[c] \subseteq dupsByHash'[c]
           /\ \A x \in Captures : dupsByRegex[x] \subseteq dupsByRegex'[x]
<1>1. CASE UNCHANGED found
  BY <1>1 DEF found
<1>2. CASE IsFileDupByName
  <2>1. /\ UNCHANGED <<dupsBySize, dupsByHash, dupsByRegex>>
        /\ \/ dupsByName' = [dupsByName EXCEPT ![basename[file]]
                              = @ \union files[basename[file]] \union {file}]
           \/ UNCHANGED dupsByName
    BY <1>2 DEF IsFileDupByName
  <2>2. QED
    BY <2>1 DEF TypeOK
<1>3. CASE SizeAgain
  BY <1>3 DEF SizeAgain, SizeTest, TypeOK
<1>4. CASE CompareHashes
  <2>1. PICK c \in checksum :
          \/ dupsByHash' = [dupsByHash EXCEPT ![c] = @ \union hashes[c]]
          \/ UNCHANGED dupsByHash
    BY <1>4 DEF CompareHashes
  <2>2. QED
    BY <1>4, <2>1 DEF CompareHashes, TypeOK
<1>5. CASE IsFileDupByRegex
  <2>1. /\ UNCHANGED <<dupsByName, dupsBySize, dupsByHash>>
        /\ \/ \E x \in CaptureOf[basename[file]] :
                dupsByRegex' = [dupsByRegex EXCEPT ![x] = @ \union captured[x] \union {file}]
           \/ UNCHANGED dupsByRegex
    BY <1>5 DEF IsFileDupByRegex
  <2>2. QED
    BY <2>1 DEF TypeOK
<1>6. QED
  BY <1>1, <1>2, <1>3, <1>4, <1>5, Steps
     DEF Quiet, Visit, Broken, SizeZero, SizeFirst, SizeTest, HashOwn, HashFirst, Hashing, Report, found

LEMMA CompleteBefore ==
    ASSUME TypeOK, TypeOK', Phases, [Next]_vars, Complete'
    PROVE  Complete
<1>1. opt' = opt
  BY Steps DEF Quiet, Visit, IsFileDupByName, Broken, SizeZero, SizeFirst, SizeAgain, SizeTest, HashOwn,
               HashFirst, Hashing, CompareHashes, IsFileDupByRegex, Report, given
<1>2. failed => failed'
  BY Steps DEF Quiet, Visit, IsFileDupByName, Broken, Crash, SizeZero, SizeFirst, SizeAgain, SizeTest,
               HashOwn, HashFirst, Hashing, CompareHashes, IsFileDupByRegex, Report
<1>3. exit \in {"2", "error"} => exit' = exit
  <2>1. SUFFICES ASSUME exit \in {"2", "error"} PROVE exit' = exit
    OBVIOUS
  <2>2. pc = "done"
    BY <2>1 DEF Phases
  <2>3. Quiet
    BY <2>2, Steps DEF Visit, IsFileDupByName, Broken, SizeZero, SizeFirst, SizeAgain, SizeTest,
                       HashOwn, HashFirst, CompareHashes, IsFileDupByRegex, Report
  <2>4. QED
    BY <2>1, <2>3 DEF Quiet
<1>4. Nothing' => Nothing
  BY FoundStays DEF Nothing
<1>5. PathsFound' = {} => Nothing'
  <2>1. (TypeOK => (PathsFound = {} <=> Nothing))'
    BY NothingFound, PTL
  <2>2. QED
    BY <2>1
<1>6. PathsFound' = {} => PathsFound = {}
  BY <1>4, <1>5, NothingFound
<1>7. QED
  BY <1>1, <1>2, <1>3, <1>6 DEF Complete

(* A test that finds something is the last one, unless --no-short-circuit   *)
(* is given.                                                                *)
LEMMA Skipping ==
    ASSUME TypeOK', Complete', ~Nothing'
    PROVE  opt'.noShortCircuit
<1>1. (TypeOK => (PathsFound = {} <=> Nothing))'
  BY NothingFound, PTL
<1>2. QED
  BY <1>1 DEF Complete

-----------------------------------------------------------------------------
(* The names.                                                               *)
LEMMA NamesFrame ==
    ASSUME NamesSound, UNCHANGED <<given, files, dupsByName>>,
           NamesTo \in Nat, NamesTo' \in Nat, NamesTo <= NamesTo'
    PROVE  NamesSound'
<1> DEFINE v == Named(NamesTo)
           v2 == Named(NamesTo)'
<1>1. DOMAIN v2 = DOMAIN v /\ \A k \in DOMAIN v : v[k] \subseteq v2[k]
  BY DEF Named, given
<1>2. Recorded(walk, v, files) /\ Right(walk, v, dupsByName)
  BY DEF NamesSound
<1> HIDE DEF v, v2
<1>3. Recorded(walk, v2, files) /\ Right(walk, v2, dupsByName)
  BY <1>1, <1>2, GroupsGrow
<1>4. QED
  BY <1>3 DEF v2, NamesSound, given, Recorded, Right

LEMMA NamesKept ==
    ASSUME NamesExact, UNCHANGED <<given, files, dupsByName, NamesTo>>
    PROVE  NamesExact'
BY DEF NamesExact, Named, Covers, All, given

LEMMA NamesStep ==
    ASSUME TypeOK, TypeOK', Phases, [Next]_vars, NamesSound
    PROVE  NamesSound' /\ (Complete' /\ NamesExact => NamesExact')
<1> USE DEF AfterContent, AfterName, OnDuplicate
<1>0. at \in Nat /\ at' \in Nat /\ (pc = "name" => at - 1 \in Nat)
  <2>1. at' \in Nat
    BY DEF TypeOK
  <2>2. QED
    BY <2>1, TheFile DEF Phases, Visits
<1>1. CASE Visit
  <2>1. /\ UNCHANGED <<given, files, dupsByName>> /\ NamesTo = at /\ at' = at + 1
        /\ NamesTo' = IF opt.name THEN at ELSE at + 1
    BY <1>0, <1>1 DEF Visit, NamesTo, seen, found
  <2>2. NamesSound'
    BY <1>0, <2>1, NamesFrame
  <2>3. CASE opt.name
    BY <2>1, <2>2, <2>3, NamesKept
  <2>4. CASE ~opt.name
    BY <2>1, <2>2, <2>4 DEF NamesExact, given
  <2>5. QED
    BY <2>3, <2>4
<1>2. CASE IsFileDupByName
  <2> DEFINE v == Named(NamesTo)
             v2 == Named(NamesTo)'
             b == basename[file]
  <2>1. /\ UNCHANGED <<given, at>> /\ NamesTo = at - 1 /\ NamesTo' = at
        /\ at \in Visits /\ opt.name
    BY <1>2 DEF IsFileDupByName, NamesTo, Phases
  <2>2. file \in Files /\ b \in Names /\ b = basename[walk[at]] /\ walk[at] = file
    BY <2>1, TheFile DEF file
  <2>3. v = Named(at - 1) /\ v2 = Named(at)
    BY <2>1 DEF Named, given
  <2>4. /\ DOMAIN v2 = DOMAIN v /\ DOMAIN v = Names /\ at \notin v[b]
        /\ v2[b] = v[b] \union {at} /\ \A x \in DOMAIN v : x # b => v2[x] = v[x]
    BY <1>0, <2>1, <2>2, <2>3, VisitNamed DEF Visits
  <2>4a. Joins(at, b, v, v2)
    BY <2>2, <2>4 DEF Joins
  <2>5. Recorded(walk, v, files) /\ Right(walk, v, dupsByName)
    BY DEF NamesSound
  <2>6. NamesExact => Covers(v, files) /\ All(walk, v, dupsByName)
    BY <2>1 DEF NamesExact
  <2> HIDE DEF v, v2, b
  <2>7. CASE files[b] # {}
    <3>1. /\ dupsByName' = [dupsByName EXCEPT ![b] = @ \union files[b] \union {file}]
          /\ files' = files
      BY <1>2, <2>7 DEF IsFileDupByName, b
    <3>2. /\ dupsByName'[b] = dupsByName[b] \union files[b] \union {walk[at]}
          /\ OnlyAt(b, v, dupsByName, dupsByName')
      BY <2>2, <2>4, <3>1 DEF TypeOK, OnlyAt
    <3>3. /\ Right(walk, v2, dupsByName')
          /\ All(walk, v, dupsByName) => All(walk, v2, dupsByName')
      BY <2>5, <2>7, <2>4a, <3>2, LaterOfKey
    <3>4. Recorded(walk, v2, files')
      BY <2>4, <2>5, <3>1, GroupsGrow
    <3>5. Covers(v, files) => Covers(v2, files')
      BY <2>7, <2>4a, <3>1, CoveredKey
    <3>6. QED
      BY <2>1, <2>6, <3>3, <3>4, <3>5 DEF v2, NamesSound, NamesExact, given
  <2>8. CASE files[b] = {}
    <3>1. files' = [files EXCEPT ![b] = {file}] /\ dupsByName' = dupsByName
      BY <1>2, <2>8 DEF IsFileDupByName, b
    <3>2. files'[b] = {walk[at]} /\ OnlyAt(b, v, files, files')
      BY <2>2, <2>4, <3>1 DEF TypeOK, OnlyAt
    <3>3. /\ Recorded(walk, v2, files')
          /\ Covers(v, files) => Covers(v2, files')
          /\ Covers(v, files) /\ All(walk, v, dupsByName) => All(walk, v2, dupsByName)
      BY <2>5, <2>8, <2>4a, <3>2, FirstOfKey
    <3>4. Right(walk, v2, dupsByName)
      BY <2>4, <2>5, GroupsGrow
    <3>5. QED
      BY <2>1, <2>6, <3>1, <3>3, <3>4 DEF v2, NamesSound, NamesExact, given
  <2>9. QED
    BY <2>7, <2>8
<1>3. CASE ~Visit /\ ~IsFileDupByName
  <2>1. UNCHANGED <<given, files, dupsByName, at>> /\ (pc = "name" <=> pc' = "name")
    BY <1>3, Steps DEF Quiet, Broken, Crash, SizeZero, SizeFirst, SizeAgain, SizeTest, HashOwn, HashFirst,
                       Hashing, CompareHashes, IsFileDupByRegex, Report, seen, found
  <2>2. NamesTo' = NamesTo /\ NamesTo \in Nat
    BY <1>0, <2>1 DEF NamesTo
  <2>3. QED
    BY <2>1, <2>2, NamesFrame, NamesKept
<1>4. QED
  BY <1>1, <1>2, <1>3

-----------------------------------------------------------------------------
(* As long as nothing is skipped, every test is followed by the next one.   *)
LEMMA NothingSkipped ==
    ASSUME TypeOK, TypeOK', Phases, Complete'
    PROVE  /\ ~Broken
           /\ IsFileDupByName => pc' = AfterName
           /\ SizeAgain => pc' = IF pc = "stat" THEN "hash" ELSE AfterContent
           /\ CompareHashes => pc' = AfterContent
<1> USE DEF OnDuplicate
<1>1. ~Broken
  BY DEF Broken, Crash, Complete
<1>2. ASSUME IsFileDupByName PROVE pc' = AfterName
  <2>1. at \in Visits /\ UNCHANGED given
    BY <1>2 DEF IsFileDupByName, Phases
  <2>2. file \in Files /\ basename[file] \in Names
    BY <2>1, TheFile
  <2>3. CASE files[basename[file]] # {}
    <3>1. /\ dupsByName' = [dupsByName EXCEPT ![basename[file]]
                            = @ \union files[basename[file]] \union {file}]
          /\ pc' = OnDuplicate(AfterName)
      BY <1>2, <2>3 DEF IsFileDupByName
    <3>2. dupsByName'[basename[file]] # {}
      BY <2>2, <3>1 DEF TypeOK
    <3>3. ~Nothing'
      BY <2>2, <3>2 DEF Nothing
    <3>4. QED
      BY <2>1, <3>1, <3>3, Skipping DEF given
  <2>4. CASE files[basename[file]] = {}
    BY <1>2, <2>4 DEF IsFileDupByName
  <2>5. QED
    BY <2>3, <2>4
<1>3. ASSUME SizeAgain PROVE pc' = IF pc = "stat" THEN "hash" ELSE AfterContent
  <2>1. at \in Visits /\ UNCHANGED given /\ pc \in {"size", "stat"}
    BY <1>3 DEF SizeAgain, SizeTest, Phases
  <2>2. file \in Files /\ size \in Sizes
    BY <2>1, TheFile
  <2>3. CASE pc = "size"
    <3>1. dupsBySize' = [dupsBySize EXCEPT ![size] = @ \union sizes[size] \union {file}]
      BY <1>3, <2>3 DEF SizeAgain, Phases
    <3>2. dupsBySize'[size] # {}
      BY <2>2, <3>1 DEF TypeOK
    <3>3. ~Nothing'
      BY <2>2, <3>2 DEF Nothing
    <3>4. QED
      BY <1>3, <2>1, <2>3, <3>3, Skipping DEF SizeAgain, given
  <2>4. CASE pc = "stat"
    BY <1>3, <2>4 DEF SizeAgain
  <2>5. QED
    BY <2>1, <2>3, <2>4
<1>4. ASSUME CompareHashes PROVE pc' = AfterContent
  <2>1. PICK c \in checksum :
          \/ /\ Cardinality(hashes[c]) > 1
             /\ dupsByHash' = [dupsByHash EXCEPT ![c] = @ \union hashes[c]]
             /\ pc' = OnDuplicate(AfterContent)
          \/ pc' = AfterContent
    BY <1>4 DEF CompareHashes
  <2>2. UNCHANGED given /\ c \in Contents
    BY <1>4 DEF CompareHashes, TypeOK
  <2>3. CASE pc' # AfterContent
    <3>1. /\ Cardinality(hashes[c]) > 1 /\ pc' = OnDuplicate(AfterContent)
          /\ dupsByHash' = [dupsByHash EXCEPT ![c] = @ \union hashes[c]]
      BY <2>1, <2>3
    <3>2. hashes[c] # {}
      <4>1. hashes[c] = {} => Cardinality(hashes[c]) = 0
        BY FS_EmptySet
      <4>2. QED
        BY <3>1, <4>1
    <3>3. dupsByHash'[c] # {}
      BY <2>2, <3>1, <3>2 DEF TypeOK
    <3>4. ~Nothing'
      BY <2>2, <3>3 DEF Nothing
    <3>5. QED
      BY <2>2, <3>1, <3>4, Skipping DEF given
  <2>4. QED
    BY <2>3
<1>5. QED
  BY <1>1, <1>2, <1>3, <1>4

-----------------------------------------------------------------------------
(* The sizes.                                                               *)
LEMMA SizesFrame ==
    ASSUME SizesSound, UNCHANGED <<given, sizes, dupsBySize>>,
           SizesTo \in Nat, SizesTo' \in Nat, SizesTo <= SizesTo'
    PROVE  SizesSound'
<1> DEFINE v == Sized(SizesTo)
           v2 == Sized(SizesTo)'
<1>1. DOMAIN v2 = DOMAIN v /\ \A k \in DOMAIN v : v[k] \subseteq v2[k]
  BY DEF Sized, given
<1>2. Recorded(walk, v, sizes) /\ Right(walk, v, dupsBySize)
  BY DEF SizesSound
<1> HIDE DEF v, v2
<1>3. Recorded(walk, v2, sizes) /\ Right(walk, v2, dupsBySize)
  BY <1>1, <1>2, GroupsGrow
<1>4. QED
  BY <1>3 DEF v2, SizesSound, given, Recorded, Right

LEMMA SizesKept ==
    ASSUME SizesExact, UNCHANGED <<given, sizes, dupsBySize, SizesTo>>
    PROVE  SizesExact'
BY DEF SizesExact, Sized, Covers, All, given

(* The three outcomes of is_file_dup_by_size.                               *)
LEMMA SizeTestStep ==
    ASSUME TypeOK, TypeOK', Phases, SizeZero \/ SizeFirst \/ SizeAgain, SizesSound
    PROVE  SizesSound' /\ (SizesExact => SizesExact')
<1> DEFINE v == Sized(SizesTo)
           v2 == Sized(SizesTo)'
           b == size
<1>1. /\ UNCHANGED <<given, at>> /\ SizesTo = at - 1 /\ SizesTo' = at /\ at \in Visits
  BY DEF SizeZero, SizeFirst, SizeAgain, SizeTest, SizesTo, Phases, AfterContent, OnDuplicate
<1>2. file \in Files /\ b \in Sizes /\ b = SizeOf[content[walk[at]]] /\ walk[at] = file /\ at \in Nat
  BY <1>1, TheFile DEF file, size
<1>3. v = Sized(at - 1) /\ v2 = Sized(at)
  BY <1>1 DEF Sized, given
<1>4. /\ DOMAIN v2 = DOMAIN v /\ DOMAIN v = Sizes /\ at \notin v[b]
      /\ v2[b] = (IF b = 0 THEN v[b] ELSE v[b] \union {at}) /\ \A x \in DOMAIN v : x # b => v2[x] = v[x]
  BY <1>1, <1>2, <1>3, VisitSized DEF Visits
<1>5. /\ Recorded(walk, v, sizes) /\ Right(walk, v, dupsBySize)
      /\ \A s \in Sizes : dupsBySize[s] # {} => opt.size
  BY DEF SizesSound
<1>6. SizesExact => /\ opt.size \/ opt.checksum => Covers(v, sizes)
                    /\ opt.size => All(walk, v, dupsBySize)
  BY <1>1 DEF SizesExact
<1> HIDE DEF v, v2, b
<1>7. CASE SizeZero
  <2>1. UNCHANGED <<sizes, dupsBySize>> /\ \A x \in DOMAIN v : v2[x] = v[x]
    BY <1>4, <1>7 DEF SizeZero, b
  <2>2. Recorded(walk, v2, sizes) /\ Right(walk, v2, dupsBySize)
    BY <1>4, <1>5, <2>1, GroupsGrow
  <2>3. /\ Covers(v, sizes) => Covers(v2, sizes)
        /\ All(walk, v, dupsBySize) => All(walk, v2, dupsBySize)
    BY <1>4, <2>1 DEF Covers, All
  <2>4. QED
    BY <1>1, <1>5, <1>6, <2>1, <2>2, <2>3 DEF v2, SizesSound, SizesExact, given
<1>8. CASE SizeFirst
  <2>1. /\ sizes' = [sizes EXCEPT ![b] = {file}] /\ dupsBySize' = dupsBySize /\ b # 0 /\ sizes[b] = {}
    BY <1>8 DEF SizeFirst, b
  <2>2. Joins(at, b, v, v2) /\ sizes'[b] = {walk[at]} /\ OnlyAt(b, v, sizes, sizes')
    BY <1>2, <1>4, <2>1 DEF TypeOK, OnlyAt, Joins
  <2>3. /\ Recorded(walk, v2, sizes')
        /\ Covers(v, sizes) => Covers(v2, sizes')
        /\ Covers(v, sizes) /\ All(walk, v, dupsBySize) => All(walk, v2, dupsBySize)
    BY <1>5, <2>1, <2>2, FirstOfKey
  <2>4. Right(walk, v2, dupsBySize)
    BY <1>4, <1>5, GroupsGrow
  <2>5. QED
    BY <1>1, <1>5, <1>6, <2>1, <2>3, <2>4 DEF v2, SizesSound, SizesExact, given
<1>9. CASE SizeAgain
  <2>1. /\ sizes' = sizes /\ b # 0 /\ sizes[b] # {}
        /\ dupsBySize' = IF opt.size THEN [dupsBySize EXCEPT ![b] = @ \union sizes[b] \union {file}]
                         ELSE dupsBySize
    BY <1>9 DEF SizeAgain, b
  <2>2. Joins(at, b, v, v2) /\ sizes[b] # {}
    BY <1>2, <1>4, <2>1 DEF Joins
  <2>3. /\ Recorded(walk, v2, sizes)
        /\ Covers(v, sizes) => Covers(v2, sizes)
    BY <1>4, <1>5, <2>1, <2>2, GroupsGrow, CoveredKey
  <2>4. CASE opt.size
    <3>1. /\ dupsBySize'[b] = dupsBySize[b] \union sizes[b] \union {walk[at]}
          /\ OnlyAt(b, v, dupsBySize, dupsBySize')
      BY <1>2, <1>4, <2>1, <2>4 DEF TypeOK, OnlyAt
    <3>2. /\ Right(walk, v2, dupsBySize')
          /\ All(walk, v, dupsBySize) => All(walk, v2, dupsBySize')
      BY <1>5, <2>2, <3>1, LaterOfKey
    <3>3. QED
      BY <1>1, <1>6, <2>1, <2>3, <2>4, <3>2 DEF v2, SizesSound, SizesExact, given
  <2>5. CASE ~opt.size
    <3>1. dupsBySize' = dupsBySize /\ Right(walk, v2, dupsBySize)
      BY <1>4, <1>5, <2>1, <2>5, GroupsGrow
    <3>2. QED
      BY <1>1, <1>5, <1>6, <2>1, <2>3, <2>5, <3>1 DEF v2, SizesSound, SizesExact, given
  <2>6. QED
    BY <2>4, <2>5
<1>10. QED
  BY <1>7, <1>8, <1>9

(* The file itself joins those of its size once it is hashed.               *)
LEMMA SizesHashed ==
    ASSUME TypeOK, TypeOK', Phases, HashOwn, SizesSound
    PROVE  SizesSound' /\ (SizesExact => SizesExact')
<1> DEFINE v == Sized(SizesTo)
<1>1. /\ UNCHANGED <<given, at, dupsBySize>> /\ SizesTo = at /\ SizesTo' = at
      /\ at \in Visits /\ at \in Nat /\ size # 0
  BY TheFile DEF HashOwn, Hashing, SizesTo, Phases, found
<1>2. file \in Files /\ size \in Sizes /\ size = SizeOf[content[walk[at]]] /\ walk[at] = file
  BY <1>1, TheFile DEF file, size
<1>3. /\ sizes' \in [Sizes -> SUBSET Files] /\ sizes'[size] = sizes[size] \union {file}
      /\ \A x \in Sizes : x # size => sizes'[x] = sizes[x]
  BY <1>2, SizesGrow DEF HashOwn
<1>4. DOMAIN v = Sizes /\ at \in v[size] /\ Sized(SizesTo)' = v
  BY <1>1, <1>2 DEF Sized, Visits, given
<1>5. Recorded(walk, v, sizes) /\ (SizesExact => (opt.size \/ opt.checksum => Covers(v, sizes)))
  BY DEF SizesSound, SizesExact
<1> HIDE DEF v
<1>6. Recorded(walk, v, sizes')
  <2>1. ASSUME NEW k \in DOMAIN v, NEW f \in sizes'[k] PROVE \E i \in v[k] : walk[i] = f
    <3>1. CASE f \in sizes[k]
      BY <1>5, <3>1 DEF Recorded
    <3>2. CASE f \notin sizes[k]
      BY <1>2, <1>3, <1>4, <3>2
    <3>3. QED
      BY <3>1, <3>2
  <2>2. QED
    BY <2>1 DEF Recorded
<1>7. Covers(v, sizes) => Covers(v, sizes')
  BY <1>3, <1>4 DEF Covers
<1>8. QED
  BY <1>1, <1>4, <1>5, <1>6, <1>7 DEF v, SizesSound, SizesExact, given

LEMMA SizesStep ==
    ASSUME TypeOK, TypeOK', Phases, [Next]_vars, SizesSound
    PROVE  SizesSound' /\ (Complete' /\ SizesExact => SizesExact')
<1> USE DEF AfterContent, AfterName
<1>0. at \in Nat /\ at' \in Nat /\ (pc \in {"name", "size", "stat"} => at - 1 \in Nat)
  <2>1. at' \in Nat
    BY DEF TypeOK
  <2>2. QED
    BY <2>1, TheFile DEF Phases, Visits
<1>1. CASE Visit
  <2>1. /\ UNCHANGED <<given, sizes, dupsBySize>> /\ SizesTo = at /\ at' = at + 1
        /\ SizesTo' \in {at, at + 1}
        /\ opt.size \/ opt.checksum => SizesTo' = at
    BY <1>0, <1>1 DEF Visit, SizesTo, seen, found
  <2>2. SizesSound'
    BY <1>0, <2>1, SizesFrame
  <2>3. CASE opt.size \/ opt.checksum
    BY <2>1, <2>2, <2>3, SizesKept
  <2>4. CASE ~(opt.size \/ opt.checksum)
    BY <2>1, <2>2, <2>4 DEF SizesExact, given
  <2>5. QED
    BY <2>3, <2>4
<1>2. CASE IsFileDupByName
  <2>1. /\ UNCHANGED <<given, sizes, dupsBySize, at>> /\ SizesTo = at - 1
        /\ pc = "name" /\ SizesTo' \in {at - 1, at}
    BY <1>2 DEF IsFileDupByName, SizesTo
  <2>2. SizesSound'
    BY <1>0, <2>1, SizesFrame
  <2>3. CASE Complete' /\ (opt.size \/ opt.checksum)
    <3>1. pc' = AfterName
      BY <1>2, <2>3, NothingSkipped
    <3>2. SizesTo' = SizesTo
      BY <2>1, <2>3, <3>1 DEF SizesTo
    <3>3. QED
      BY <2>1, <2>2, <3>2, SizesKept
  <2>4. CASE ~(opt.size \/ opt.checksum)
    BY <2>1, <2>2, <2>4 DEF SizesExact, given
  <2>5. QED
    BY <2>2, <2>3, <2>4
<1>3. CASE Broken
  <2>1. /\ UNCHANGED <<given, sizes, dupsBySize, at>>
        /\ pc \in {"walk", "size", "stat", "hash", "backtrack"} /\ pc' \in {"walk", "done"}
    BY <1>3 DEF Broken, Crash, seen, found
  <2>2. SizesTo \in Nat /\ SizesTo' \in Nat /\ SizesTo <= SizesTo'
    BY <1>0, <2>1 DEF SizesTo
  <2>3. SizesSound'
    BY <2>1, <2>2, SizesFrame
  <2>4. QED
    BY <1>3, <2>3, NothingSkipped
<1>4. CASE SizeZero \/ SizeFirst \/ SizeAgain
  BY <1>4, SizeTestStep
<1>5. CASE HashOwn
  BY <1>5, SizesHashed
<1>6. CASE \/ Quiet \/ CompareHashes \/ IsFileDupByRegex \/ Report
           \/ \E first \in sizes[size] \intersect unhashed : HashFirst(first)
  <2>1. /\ UNCHANGED <<given, sizes, dupsBySize, at>>
        /\ pc \in {"name", "size", "stat"} <=> pc' \in {"name", "size", "stat"}
    BY <1>6 DEF Quiet, HashFirst, Hashing, CompareHashes, IsFileDupByRegex, Report, seen, found, OnDuplicate
  <2>2. SizesTo' = SizesTo /\ SizesTo \in Nat
    BY <1>0, <2>1 DEF SizesTo
  <2>3. QED
    BY <2>1, <2>2, SizesFrame, SizesKept
<1>7. QED
  BY <1>1, <1>2, <1>3, <1>4, <1>5, <1>6, Steps

-----------------------------------------------------------------------------
(* The captures of the regex.                                               *)
LEMMA CapturesFrame ==
    ASSUME CapturesSound, UNCHANGED <<given, captured, dupsByRegex>>,
           CapturesTo \in Nat, CapturesTo' \in Nat, CapturesTo <= CapturesTo'
    PROVE  CapturesSound'
<1> DEFINE v == Capturing(CapturesTo)
           v2 == Capturing(CapturesTo)'
<1>1. DOMAIN v2 = DOMAIN v /\ \A k \in DOMAIN v : v[k] \subseteq v2[k]
  BY DEF Capturing, given
<1>2. Recorded(walk, v, captured) /\ Right(walk, v, dupsByRegex)
  BY DEF CapturesSound
<1> HIDE DEF v, v2
<1>3. Recorded(walk, v2, captured) /\ Right(walk, v2, dupsByRegex)
  BY <1>1, <1>2, GroupsGrow
<1>4. QED
  BY <1>3 DEF v2, CapturesSound, given, Recorded, Right

LEMMA CapturesKept ==
    ASSUME CapturesExact, UNCHANGED <<given, captured, dupsByRegex, CapturesTo>>
    PROVE  CapturesExact'
BY DEF CapturesExact, Capturing, Covers, All, given

LEMMA RegexStep ==
    ASSUME TypeOK, TypeOK', Phases, IsFileDupByRegex, CapturesSound
    PROVE  CapturesSound' /\ (CapturesExact => CapturesExact')
<1> DEFINE v == Capturing(CapturesTo)
           v2 == Capturing(CapturesTo)'
           matched == CaptureOf[basename[file]]
<1>1. /\ UNCHANGED <<given, at>> /\ CapturesTo = at - 1 /\ CapturesTo' = at
      /\ at \in Visits /\ opt.regex
  BY DEF IsFileDupByRegex, CapturesTo, Phases
<1>2. /\ file \in Files /\ walk[at] = file /\ at \in Nat
      /\ matched \in SUBSET Captures /\ \A x, y \in matched : x = y
  <2>1. file \in Files /\ walk[at] = file /\ at \in Nat /\ basename[file] \in Names
    BY <1>1, TheFile DEF file
  <2>2. QED
    BY <2>1, FilesAssumption
<1>3. v = Capturing(at - 1) /\ v2 = Capturing(at)
  BY <1>1 DEF Capturing, given
<1>4. /\ DOMAIN v2 = DOMAIN v /\ DOMAIN v = Captures
      /\ \A x \in Captures :
           at \notin v[x] /\ v2[x] = IF x \in matched THEN v[x] \union {at} ELSE v[x]
  BY <1>1, <1>2, <1>3, VisitCapturing DEF Visits
<1>5. /\ Recorded(walk, v, captured) /\ Right(walk, v, dupsByRegex)
  BY DEF CapturesSound
<1>6. CapturesExact => Covers(v, captured) /\ All(walk, v, dupsByRegex)
  BY <1>1 DEF CapturesExact
<1>7. \/ matched = {} /\ UNCHANGED <<captured, dupsByRegex>>
      \/ \E x \in matched :
           \/ /\ captured[x] # {} /\ UNCHANGED captured
              /\ dupsByRegex' = [dupsByRegex EXCEPT ![x] = @ \union captured[x] \union {file}]
           \/ /\ captured[x] = {} /\ UNCHANGED dupsByRegex
              /\ captured' = [captured EXCEPT ![x] = {file}]
  BY DEF IsFileDupByRegex
<1> HIDE DEF v, v2, matched
<1>8. CASE matched = {} /\ UNCHANGED <<captured, dupsByRegex>>
  <2>1. \A x \in DOMAIN v : v2[x] = v[x]
    BY <1>4, <1>8
  <2>2. Recorded(walk, v2, captured) /\ Right(walk, v2, dupsByRegex)
    BY <1>4, <1>5, <2>1, GroupsGrow
  <2>3. /\ Covers(v, captured) => Covers(v2, captured)
        /\ All(walk, v, dupsByRegex) => All(walk, v2, dupsByRegex)
    BY <1>4, <2>1 DEF Covers, All
  <2>4. QED
    BY <1>1, <1>6, <1>8, <2>2, <2>3 DEF v2, CapturesSound, CapturesExact, given
<1>9. ASSUME NEW x \in matched
      PROVE  x \in Captures /\ Joins(at, x, v, v2)
  BY <1>2, <1>4 DEF Joins
<1>10. ASSUME NEW x \in matched, captured[x] # {}, UNCHANGED captured,
              dupsByRegex' = [dupsByRegex EXCEPT ![x] = @ \union captured[x] \union {file}]
       PROVE  CapturesSound' /\ (CapturesExact => CapturesExact')
  <2>1. /\ dupsByRegex'[x] = dupsByRegex[x] \union captured[x] \union {walk[at]}
        /\ OnlyAt(x, v, dupsByRegex, dupsByRegex') /\ Joins(at, x, v, v2)
        /\ captured[x] # {}
    BY <1>2, <1>4, <1>9, <1>10 DEF TypeOK, OnlyAt
  <2>2. /\ Right(walk, v2, dupsByRegex')
        /\ All(walk, v, dupsByRegex) => All(walk, v2, dupsByRegex')
    BY <1>5, <2>1, LaterOfKey
  <2>3. Recorded(walk, v2, captured)
    BY <1>4, <1>5, GroupsGrow
  <2>4. Covers(v, captured) => Covers(v2, captured)
    BY <1>10, <2>1, CoveredKey
  <2>5. QED
    BY <1>1, <1>6, <1>10, <2>2, <2>3, <2>4 DEF v2, CapturesSound, CapturesExact, given
<1>11. ASSUME NEW x \in matched, captured[x] = {}, UNCHANGED dupsByRegex,
              captured' = [captured EXCEPT ![x] = {file}]
       PROVE  CapturesSound' /\ (CapturesExact => CapturesExact')
  <2>1. captured'[x] = {walk[at]} /\ OnlyAt(x, v, captured, captured') /\ Joins(at, x, v, v2)
    BY <1>2, <1>4, <1>9, <1>11 DEF TypeOK, OnlyAt
  <2>2. /\ Recorded(walk, v2, captured')
        /\ Covers(v, captured) => Covers(v2, captured')
        /\ Covers(v, captured) /\ All(walk, v, dupsByRegex) => All(walk, v2, dupsByRegex)
    BY <1>5, <1>11, <2>1, FirstOfKey
  <2>3. Right(walk, v2, dupsByRegex)
    BY <1>4, <1>5, GroupsGrow
  <2>4. QED
    BY <1>1, <1>6, <1>11, <2>2, <2>3 DEF v2, CapturesSound, CapturesExact, given
<1>12. QED
  BY <1>7, <1>8, <1>10, <1>11

LEMMA CapturesStep ==
    ASSUME TypeOK, TypeOK', Phases, [Next]_vars, CapturesSound
    PROVE  CapturesSound' /\ (Complete' /\ CapturesExact => CapturesExact')
<1> USE DEF AfterContent, AfterName
<1>0. at \in Nat /\ at' \in Nat /\ (pc \notin {"walk", "done"} => at - 1 \in Nat)
  <2>1. at' \in Nat
    BY DEF TypeOK
  <2>2. QED
    BY <2>1, TheFile DEF Phases, Visits
<1>1. CASE Visit
  <2>1. /\ UNCHANGED <<given, captured, dupsByRegex>> /\ CapturesTo = at /\ at' = at + 1
        /\ CapturesTo' \in {at, at + 1}
        /\ opt.regex => CapturesTo' = at
    BY <1>0, <1>1 DEF Visit, CapturesTo, seen, found
  <2>2. CapturesSound'
    BY <1>0, <2>1, CapturesFrame
  <2>3. CASE opt.regex
    BY <2>1, <2>2, <2>3, CapturesKept
  <2>4. CASE ~opt.regex
    BY <2>1, <2>2, <2>4 DEF CapturesExact, given
  <2>5. QED
    BY <2>3, <2>4
<1>2. CASE \/ IsFileDupByName \/ (Broken /\ pc # "walk")
           \/ SizeZero \/ SizeFirst \/ SizeAgain \/ HashOwn
           \/ (\E first \in sizes[size] \intersect unhashed : HashFirst(first)) \/ CompareHashes
  <2>1. /\ UNCHANGED <<given, captured, dupsByRegex, at>>
        /\ pc \notin {"walk", "done"}
    BY <1>2 DEF IsFileDupByName, Broken, SizeZero, SizeFirst, SizeAgain, SizeTest, HashOwn, HashFirst,
                Hashing, CompareHashes, seen, found
  <2>2. CapturesTo = at - 1 /\ CapturesTo' \in {at - 1, at}
    BY <1>0, <2>1 DEF CapturesTo
  <2>3. CapturesSound'
    BY <1>0, <2>1, <2>2, CapturesFrame
  <2>4. CASE Complete' /\ opt.regex
    <3>1. pc' \notin {"walk", "done"}
      BY <1>2, <2>4, NothingSkipped DEF SizeZero, SizeFirst, SizeTest, HashOwn, HashFirst
    <3>2. CapturesTo' = CapturesTo
      BY <2>1, <2>2, <3>1 DEF CapturesTo
    <3>3. QED
      BY <2>1, <2>3, <3>2, CapturesKept
  <2>5. CASE ~opt.regex
    BY <2>1, <2>3, <2>5 DEF CapturesExact, given
  <2>6. QED
    BY <2>3, <2>4, <2>5
<1>3. CASE Quiet \/ Report \/ (Broken /\ pc = "walk")
  <2>1. /\ UNCHANGED <<given, captured, dupsByRegex, at>>
        /\ pc \in {"walk", "done"} <=> pc' \in {"walk", "done"}
    BY <1>3 DEF Quiet, Report, Broken, Crash, seen, found
  <2>2. CapturesTo' = CapturesTo /\ CapturesTo \in Nat
    BY <1>0, <2>1 DEF CapturesTo
  <2>3. QED
    BY <2>1, <2>2, CapturesFrame, CapturesKept
<1>4. CASE IsFileDupByRegex
  BY <1>4, RegexStep
<1>5. QED
  BY <1>1, <1>2, <1>3, <1>4, Steps

-----------------------------------------------------------------------------
(* The checksums.  A path recorded under a size has been visited and is of  *)
(* that size.                                                               *)
LEMMA RecordedSize ==
    ASSUME TypeOK, Phases, SizesSound, NEW s \in Sizes, NEW f \in sizes[s]
    PROVE  f \in Files /\ SizeOf[content[f]] = s /\ \E i \in Visits : walk[i] = f
<1>1. PICK i \in Sized(SizesTo)[s] : walk[i] = f
  BY DEF SizesSound, Recorded, Sized
<1>2. i \in 1..SizesTo /\ SizeOf[content[walk[i]]] = s
  BY DEF Sized
<1>3. 1..SizesTo \subseteq Visits
  BY TheFile DEF SizesTo, Visits
<1>4. QED
  BY <1>1, <1>2, <1>3 DEF TypeOK

LEMMA HashesSoundStep ==
    ASSUME TypeOK, TypeOK', Phases, [Next]_vars, SizesSound, HashesSound
    PROVE  HashesSound'
<1>1. UNCHANGED given /\ Visits \subseteq Visits'
  <2>1. at' \in {at, at + 1} /\ UNCHANGED given
    BY Steps DEF Quiet, Visit, IsFileDupByName, Broken, SizeZero, SizeFirst, SizeAgain, SizeTest, HashOwn,
                 HashFirst, Hashing, CompareHashes, IsFileDupByRegex, Report
  <2>2. at \in Nat
    BY TheFile
  <2>3. QED
    BY <2>1, <2>2 DEF Visits
<1>2. CASE UNCHANGED <<hashes, dupsByHash>>
  BY <1>1, <1>2 DEF HashesSound, given
<1>3. ASSUME NEW f, HashOf(f), UNCHANGED dupsByHash, f \in Files, SizeOf[content[f]] # 0,
             \E i \in Visits : walk[i] = f
      PROVE  HashesSound'
  <2>1. content[f] \in Contents
    BY <1>3, TheFile
  <2>2. /\ hashes'[content[f]] = hashes[content[f]] \union {f}
        /\ \A c \in Contents : c # content[f] => hashes'[c] = hashes[c]
    BY <1>3, <2>1 DEF HashOf, TypeOK
  <2>3. ASSUME NEW c \in Contents, NEW g \in hashes'[c]
        PROVE  content[g] = c /\ SizeOf[c] # 0 /\ \E i \in Visits : walk[i] = g
    <3>1. CASE g \in hashes[c]
      BY <3>1 DEF HashesSound
    <3>2. CASE g \notin hashes[c]
      BY <1>3, <2>2, <2>3, <3>2
    <3>3. QED
      BY <3>1, <3>2
  <2>4. \A c \in Contents : hashes[c] \subseteq hashes'[c]
    BY <2>2
  <2>5. QED
    BY <1>1, <1>3, <2>3, <2>4 DEF HashesSound, given
<1>4. CASE HashOwn
  <2>1. at \in Visits /\ size # 0 /\ HashOf(file) /\ UNCHANGED dupsByHash
    BY <1>4 DEF HashOwn, Hashing, Phases, found
  <2>2. file \in Files /\ walk[at] = file /\ SizeOf[content[file]] # 0
    BY <2>1, TheFile DEF file, size
  <2>3. QED
    BY <1>3, <2>1, <2>2
<1>5. ASSUME NEW first \in sizes[size] \intersect unhashed, HashFirst(first) PROVE HashesSound'
  <2>1. at \in Visits /\ size # 0 /\ HashOf(first) /\ UNCHANGED dupsByHash
    BY <1>5 DEF HashFirst, Hashing, Phases, found
  <2>2. size \in Sizes /\ first \in sizes[size]
    BY <2>1, TheFile
  <2>3. first \in Files /\ SizeOf[content[first]] # 0 /\ \E i \in Visits : walk[i] = first
    BY <2>1, <2>2, RecordedSize
  <2>4. QED
    BY <1>3, <2>1, <2>3
<1>6. CASE CompareHashes
  <2>1. UNCHANGED hashes /\ opt.checksum
    BY <1>6 DEF CompareHashes, Phases, seen
  <2>2. PICK c \in checksum :
          \/ /\ Cardinality(hashes[c]) > 1
             /\ dupsByHash' = [dupsByHash EXCEPT ![c] = @ \union hashes[c]]
          \/ UNCHANGED dupsByHash
    BY <1>6 DEF CompareHashes
  <2>3. CASE UNCHANGED dupsByHash
    BY <1>2, <2>1, <2>3
  <2>4. CASE /\ Cardinality(hashes[c]) > 1
             /\ dupsByHash' = [dupsByHash EXCEPT ![c] = @ \union hashes[c]]
    <3>1. c \in Contents /\ hashes[c] \subseteq Files
      BY DEF TypeOK
    <3>2. IsFiniteSet(hashes[c])
      BY <3>1, FS_Subset, FilesAssumption
    <3>3. \E f, g \in hashes[c] : f # g
      BY <2>4, <3>2, Several
    <3>4. /\ dupsByHash'[c] = dupsByHash[c] \union hashes[c]
          /\ \A x \in Contents : x # c => dupsByHash'[x] = dupsByHash[x]
      BY <2>4, <3>1 DEF TypeOK
    <3>5. ASSUME NEW x \in Contents
          PROVE  /\ dupsByHash'[x] \subseteq hashes[x]
                 /\ dupsByHash'[x] # {} => opt.checksum /\ \E f, g \in dupsByHash'[x] : f # g
      BY <2>1, <3>3, <3>4 DEF HashesSound
    <3>6. QED
      BY <1>1, <2>1, <3>5 DEF HashesSound, given
  <2>5. QED
    BY <2>2, <2>3, <2>4
<1>7. QED
  BY <1>2, <1>4, <1>5, <1>6, Steps
     DEF Quiet, Visit, IsFileDupByName, Broken, SizeZero, SizeFirst, SizeAgain, SizeTest, IsFileDupByRegex,
         Report, seen, found

(* Between the tests by content nothing changes.                            *)
LEMMA HashesFrame ==
    ASSUME HashesExact, UNCHANGED <<given, sizes, unhashed, hashes, dupsByHash>>, HashesTo' = HashesTo,
           pc # "backtrack", pc' \notin {"backtrack", "compare"}
    PROVE  HashesExact'
<1> SUFFICES ASSUME opt.checksum PROVE (Hashed /\ Alone /\ Comparing /\ HashesFound)'
  BY DEF HashesExact, given
<1>1. Hashed /\ Alone /\ HashesFound
  BY DEF HashesExact
<1>2. Hashed'
  BY <1>1 DEF Hashed, given
<1>3. Alone'
  BY <1>1 DEF Alone, given
<1>4. Comparing'
  BY DEF Comparing
<1>5. HashesFound'
  BY <1>1 DEF HashesFound, given
<1>6. QED
  BY <1>2, <1>3, <1>4, <1>5

(* A visit more is dealt with: all that is to be shown of it.               *)
LEMMA HashesVisit ==
    ASSUME HashesExact, opt.checksum, at \in Nat, at \in Visits,
           UNCHANGED <<given, hashes, dupsByHash>>, HashesTo = at - 1, HashesTo' = at,
           pc # "backtrack", pc' \notin {"backtrack", "compare"}, SizeOf[content[file]] = size,
           \A i \in 1..(at - 1) : LET f == walk[i] IN
               /\ f \in sizes[SizeOf[content[f]]] => f \in sizes'[SizeOf[content[f]]]
               /\ f \in unhashed => f \in unhashed',
           size # 0 => file \in sizes'[size] /\ file \in unhashed',
           \A u \in unhashed' : sizes'[SizeOf[content[u]]] = {u},
           size # 0 => \A i \in 1..(at - 1) : SizeOf[content[walk[i]]] # size
    PROVE  HashesExact'
<1>1. Hashed /\ HashesFound
  BY DEF HashesExact
<1>2. file = walk[at] /\ 1..at = (1..(at - 1)) \union {at} /\ at \in 1..at
  BY OneMore DEF file, Visits
<1>3. Hashed'
  <2>1. ASSUME NEW i \in 1..at, SizeOf[content[walk[i]]] # 0
        PROVE  /\ walk[i] \in sizes'[SizeOf[content[walk[i]]]]
               /\ walk[i] \in unhashed' \/ walk[i] \in hashes[content[walk[i]]]
    <3>1. CASE i = at
      BY <1>2, <2>1, <3>1
    <3>2. CASE i \in 1..(at - 1)
      BY <1>1, <2>1, <3>2 DEF Hashed
    <3>3. QED
      BY <1>2, <3>1, <3>2
  <2>2. QED
    BY <2>1 DEF Hashed, given
<1>4. HashesFound'
  <2>1. ASSUME NEW i \in 1..at, NEW j \in 1..at, walk[i] # walk[j], content[walk[j]] = content[walk[i]],
               SizeOf[content[walk[i]]] # 0
        PROVE  walk[i] \in dupsByHash[content[walk[i]]]
    <3>1. CASE i = at \/ j = at
      <4>1. PICK k \in 1..(at - 1) : SizeOf[content[walk[k]]] = size /\ size # 0
        BY <1>2, <2>1, <3>1
      <4>2. QED
        BY <4>1
    <3>2. CASE i # at /\ j # at
      BY <1>1, <1>2, <2>1, <3>2 DEF HashesFound
    <3>3. QED
      BY <3>1, <3>2
  <2>2. QED
    BY <2>1 DEF HashesFound, given
<1>5. Alone' /\ Comparing'
  BY DEF Alone, Comparing, given
<1>6. QED
  BY <1>3, <1>4, <1>5 DEF HashesExact

(* The size of a file that is the first of it, or empty.                    *)
LEMMA StatStep ==
    ASSUME TypeOK, TypeOK', Phases, SizeZero \/ SizeFirst, opt.checksum, HashesExact
    PROVE  HashesExact'
<1>1. /\ UNCHANGED <<given, at, hashes, dupsByHash>> /\ HashesTo = at - 1 /\ HashesTo' = at
      /\ at \in Visits /\ at \in Nat /\ pc # "backtrack" /\ pc' \notin {"backtrack", "compare"}
  BY TheFile DEF SizeZero, SizeFirst, SizeTest, HashesTo, Phases, AfterContent
<1>2. /\ file \in Files /\ size \in Sizes /\ SizeOf[content[file]] = size
      /\ \A i \in 1..(at - 1) : walk[i] \in Files
  BY <1>1, TheFile DEF size, Visits
<1>3. \A i \in 1..(at - 1) : LET f == walk[i] IN
        SizeOf[content[f]] # 0 => f \in sizes[SizeOf[content[f]]]
  BY <1>1 DEF HashesExact, Hashed
<1>4. \A u \in unhashed : u \in Files /\ sizes[SizeOf[content[u]]] = {u} /\ SizeOf[content[u]] \in Sizes
  BY <1>1, TheFile DEF HashesExact, Alone, TypeOK
<1>5. CASE SizeZero
  <2>1. UNCHANGED <<sizes, unhashed>> /\ size = 0
    BY <1>5 DEF SizeZero
  <2>2. QED
    BY <1>1, <1>2, <1>4, <2>1, HashesVisit
<1>6. CASE SizeFirst
  <2>1. size # 0 /\ sizes[size] = {} /\ unhashed' = unhashed \union {file}
    BY <1>6 DEF SizeFirst
  <2>2. /\ sizes'[size] = {file} /\ \A x \in Sizes : x # size => sizes'[x] = sizes[x]
    BY <1>2, <1>6, <2>1, SizesGrow DEF SizeFirst
  <2>3. \A i \in 1..(at - 1) : SizeOf[content[walk[i]]] # size
    BY <1>3, <2>1
  <2>4. \A i \in 1..(at - 1) : LET f == walk[i] IN
          /\ f \in sizes[SizeOf[content[f]]] => f \in sizes'[SizeOf[content[f]]]
          /\ f \in unhashed => f \in unhashed'
    BY <1>2, <2>1, <2>2, <2>3, TheFile
  <2>5. \A u \in unhashed' : sizes'[SizeOf[content[u]]] = {u}
    BY <1>2, <1>4, <2>1, <2>2
  <2>6. QED
    BY <1>1, <1>2, <2>1, <2>2, <2>3, <2>4, <2>5, HashesVisit
<1>7. QED
  BY <1>5, <1>6

(* The checksum of the file itself.  If the one recorded before it is not   *)
(* hashed it is the only other one, and its turn comes next.                *)
LEMMA HashOwnStep ==
    ASSUME TypeOK, TypeOK', Phases, HashOwn, HashesExact
    PROVE  HashesExact'
<1>1. /\ UNCHANGED <<given, at, dupsByHash>> /\ HashesTo = at - 1 /\ HashesTo' = at - 1
      /\ at \in Visits /\ at \in Nat /\ size # 0 /\ pc = "hash" /\ opt.checksum
  BY TheFile DEF HashOwn, Hashing, HashesTo, Phases, found
<1>2. /\ file \in Files /\ size \in Sizes /\ SizeOf[content[file]] = size /\ content[file] \in Contents
      /\ \A i \in 1..(at - 1) : walk[i] \in Files
  BY <1>1, TheFile DEF size, Visits
<1>3. /\ unhashed' = unhashed \ {file} /\ checksum' = {content[file]}
      /\ hashes'[content[file]] = hashes[content[file]] \union {file}
      /\ \A c \in Contents : hashes[c] \subseteq hashes'[c]
  <2>1. /\ unhashed' = unhashed \ {file} /\ checksum' = {content[file]}
        /\ hashes' = [hashes EXCEPT ![content[file]] = @ \union {file}]
    BY DEF HashOwn, Hashing, HashOf
  <2>2. QED
    BY <1>2, <2>1 DEF TypeOK
<1>4. /\ sizes'[size] = sizes[size] \union {file} /\ \A x \in Sizes : x # size => sizes'[x] = sizes[x]
      /\ \A x \in Sizes : sizes[x] \subseteq sizes'[x]
  BY <1>2, SizesGrow DEF HashOwn
<1>5. pc' = IF Cardinality(sizes'[size]) = 2 /\ sizes'[size] \intersect unhashed' # {}
            THEN "backtrack" ELSE "compare"
  BY DEF HashOwn
<1>6. /\ Hashed /\ HashesFound
      /\ \A u \in unhashed : u \in Files /\ sizes[SizeOf[content[u]]] = {u} /\ SizeOf[content[u]] \in Sizes
  BY <1>1, TheFile DEF HashesExact, Alone, TypeOK
<1>7. Hashed'
  <2>1. ASSUME NEW i \in 1..(at - 1), SizeOf[content[walk[i]]] # 0
        PROVE  /\ walk[i] \in sizes'[SizeOf[content[walk[i]]]]
               /\ walk[i] \in unhashed' \/ walk[i] \in hashes'[content[walk[i]]]
    <3>1. /\ walk[i] \in sizes[SizeOf[content[walk[i]]]]
          /\ walk[i] \in unhashed \/ walk[i] \in hashes[content[walk[i]]]
      BY <1>1, <1>6, <2>1 DEF Hashed
    <3>2. walk[i] \in Files /\ content[walk[i]] \in Contents /\ SizeOf[content[walk[i]]] \in Sizes
      BY <1>2, TheFile
    <3>3. QED
      BY <1>3, <1>4, <3>1, <3>2
  <2>2. QED
    BY <1>1, <2>1 DEF Hashed, given
<1>8. Alone'
  <2>1. ASSUME NEW u \in unhashed'
        PROVE  \/ sizes'[SizeOf[content[u]]] = {u}
               \/ /\ pc' = "backtrack" /\ u # file
                  /\ SizeOf[content[u]] = size /\ sizes'[size] = {u, file}
    <3>1. u # file /\ sizes[SizeOf[content[u]]] = {u} /\ SizeOf[content[u]] \in Sizes
      BY <1>3, <1>6
    <3>2. CASE SizeOf[content[u]] # size
      BY <1>4, <3>1, <3>2
    <3>3. CASE SizeOf[content[u]] = size
      <4>1. sizes'[size] = {u, file}
        BY <1>4, <3>1, <3>3
      <4>2. Cardinality(sizes'[size]) = 2
        <5>1. u # file
          BY <3>1
        <5>2. Cardinality({u, file}) = 2
          BY <5>1, Pair
        <5>3. QED
          BY <4>1, <5>2
      <4>3. pc' = "backtrack"
        BY <1>5, <4>1, <4>2
      <4>4. QED
        BY <3>1, <3>3, <4>1, <4>3
    <3>4. QED
      BY <3>2, <3>3
  <2>2. QED
    BY <1>1, <2>1 DEF Alone, given, size, file
<1>9. Comparing'
  <2>1. file \in sizes'[size] /\ file \in hashes'[content[file]] /\ file \notin unhashed'
    BY <1>3, <1>4
  <2>2. QED
    BY <1>1, <1>3, <2>1 DEF Comparing, given, size, file
<1>10. HashesFound'
  BY <1>1, <1>6 DEF HashesFound, given
<1>11. QED
  BY <1>7, <1>8, <1>9, <1>10 DEF HashesExact

(* The checksum of the first of two.  It is what is compared next.          *)
LEMMA HashFirstStep ==
    ASSUME TypeOK, TypeOK', Phases, SizesSound, HashesExact,
           NEW first \in sizes[size] \intersect unhashed, HashFirst(first)
    PROVE  HashesExact'
<1>1. /\ UNCHANGED <<given, at, dupsByHash, sizes>> /\ HashesTo = at - 1 /\ HashesTo' = at - 1
      /\ at \in Visits /\ at \in Nat /\ pc = "backtrack" /\ pc' = "compare" /\ opt.checksum
  BY TheFile DEF HashFirst, Hashing, HashesTo, Phases, found
<1>2. /\ file \in Files /\ size \in Sizes /\ SizeOf[content[file]] = size /\ content[file] \in Contents
      /\ \A i \in 1..(at - 1) : walk[i] \in Files
  BY <1>1, TheFile DEF size, Visits
<1>3. first \in Files /\ SizeOf[content[first]] = size /\ content[first] \in Contents
  <2>1. first \in Files /\ SizeOf[content[first]] = size
    BY <1>2, RecordedSize
  <2>2. QED
    BY <2>1, TheFile
<1>4. /\ unhashed' = unhashed \ {first} /\ checksum' = {content[first]}
      /\ hashes'[content[first]] = hashes[content[first]] \union {first}
      /\ \A c \in Contents : hashes[c] \subseteq hashes'[c]
  <2>1. /\ unhashed' = unhashed \ {first} /\ checksum' = {content[first]}
        /\ hashes' = [hashes EXCEPT ![content[first]] = @ \union {first}]
    BY DEF HashFirst, Hashing, HashOf
  <2>2. QED
    BY <1>3, <2>1 DEF TypeOK
<1>5. Hashed /\ HashesFound /\ Alone
  BY <1>1 DEF HashesExact
<1>6. file \in sizes[size] /\ file \in hashes[content[file]] /\ file \notin unhashed
  BY <1>1 DEF HashesExact, Comparing
<1>7. first # file /\ sizes[size] = {first, file}
  <2>1. first # file
    BY <1>6
  <2>2. sizes[size] = {first} \/ sizes[size] = {first, file}
    BY <1>3, <1>5 DEF Alone
  <2>3. QED
    BY <1>6, <2>1, <2>2
<1>8. Hashed'
  <2>1. ASSUME NEW i \in 1..(at - 1), SizeOf[content[walk[i]]] # 0
        PROVE  /\ walk[i] \in sizes[SizeOf[content[walk[i]]]]
               /\ walk[i] \in unhashed' \/ walk[i] \in hashes'[content[walk[i]]]
    <3>1. /\ walk[i] \in sizes[SizeOf[content[walk[i]]]]
          /\ walk[i] \in unhashed \/ walk[i] \in hashes[content[walk[i]]]
      BY <1>1, <1>5, <2>1 DEF Hashed
    <3>2. walk[i] \in Files /\ content[walk[i]] \in Contents
      BY <1>2, TheFile
    <3>3. QED
      BY <1>4, <3>1, <3>2
  <2>2. QED
    BY <1>1, <2>1 DEF Hashed, given
<1>9. Alone'
  <2>1. ASSUME NEW u \in unhashed' PROVE sizes[SizeOf[content[u]]] = {u}
    <3>1. u \in unhashed /\ u # first
      BY <1>4
    <3>2. \/ sizes[SizeOf[content[u]]] = {u}
          \/ u # file /\ sizes[size] = {u, file}
      BY <1>5, <3>1 DEF Alone
    <3>3. ~(u # file /\ sizes[size] = {u, file})
      BY <1>7, <3>1
    <3>4. QED
      BY <3>2, <3>3
  <2>2. QED
    BY <1>1, <2>1 DEF Alone, given
<1>10. Comparing'
  <2>1. file \in hashes'[content[file]] /\ file \notin unhashed'
    BY <1>2, <1>4, <1>6
  <2>2. \A c \in checksum' : content[first] = c
    BY <1>4
  <2>3. QED
    BY <1>1, <1>3, <1>6, <1>7, <2>1, <2>2 DEF Comparing, given, size, file
<1>11. HashesFound'
  BY <1>1, <1>5 DEF HashesFound, given
<1>12. QED
  BY <1>8, <1>9, <1>10, <1>11 DEF HashesExact

(* Whichever checksum is compared, the file's duplicates are found.         *)
LEMMA CompareStep ==
    ASSUME TypeOK, TypeOK', Phases, CompareHashes, HashesSound, HashesExact,
           pc' = AfterContent, checksum # {}
    PROVE  HashesExact'
<1>1. /\ UNCHANGED <<given, at, sizes, unhashed, hashes>> /\ HashesTo = at - 1 /\ HashesTo' = at
      /\ at \in Visits /\ at \in Nat /\ pc = "compare" /\ pc' \notin {"backtrack", "compare"}
      /\ opt.checksum /\ size # 0
  BY TheFile DEF CompareHashes, HashesTo, Phases, AfterContent, seen
<1>2. /\ file \in Files /\ SizeOf[content[file]] = size /\ content[file] \in Contents
      /\ file = walk[at] /\ \A i \in Visits : walk[i] \in Files
  BY <1>1, TheFile DEF size, file
<1>3. PICK c \in checksum :
        /\ c \in Contents
        /\ \/ /\ Cardinality(hashes[c]) > 1
              /\ dupsByHash' = [dupsByHash EXCEPT ![c] = @ \union hashes[c]]
           \/ Cardinality(hashes[c]) <= 1 /\ dupsByHash' = dupsByHash
  <2>1. PICK c \in checksum :
          IF Cardinality(hashes[c]) > 1
          THEN dupsByHash' = [dupsByHash EXCEPT ![c] = @ \union hashes[c]]
          ELSE dupsByHash' = dupsByHash
    BY DEF CompareHashes
  <2>2. c \in Contents /\ IsFiniteSet(hashes[c])
    BY FS_Subset, FilesAssumption DEF TypeOK
  <2>3. Cardinality(hashes[c]) \in Nat
    BY <2>2, FS_CardinalityType
  <2>4. QED
    BY <2>1, <2>2, <2>3
<1>4. Hashed /\ HashesFound /\ Alone
  BY <1>1 DEF HashesExact
<1>5. /\ file \in sizes[size] /\ file \in hashes[content[file]] /\ file \notin unhashed
      /\ c = content[file] \/ \E first \in Files : content[first] = c /\ sizes[size] = {first, file}
  BY <1>1 DEF HashesExact, Comparing
<1>6. /\ \A x \in Contents : dupsByHash[x] \subseteq dupsByHash'[x]
      /\ (\E f, g \in hashes[c] : f # g) => hashes[c] \subseteq dupsByHash'[c]
  <2>1. IsFiniteSet(hashes[c])
    BY <1>3, FS_Subset, FilesAssumption DEF TypeOK
  <2>2. (\E f, g \in hashes[c] : f # g) => Cardinality(hashes[c]) > 1
    BY <2>1, Several
  <2>3. DOMAIN dupsByHash = Contents
    BY DEF TypeOK
  <2> DEFINE joined == [dupsByHash EXCEPT ![c] = @ \union hashes[c]]
  <2>4. /\ \A x \in Contents : dupsByHash[x] \subseteq joined[x]
        /\ hashes[c] \subseteq joined[c]
    BY <1>3, <2>3
  <2>5. \/ dupsByHash' = joined
        \/ dupsByHash' = dupsByHash /\ Cardinality(hashes[c]) <= 1
    BY <1>3
  <2> DEFINE size_c == Cardinality(hashes[c])
  <2> HIDE DEF joined, size_c
  <2>6. CASE dupsByHash' = joined
    BY <2>4, <2>6
  <2>7. CASE dupsByHash' = dupsByHash /\ size_c <= 1
    <3>1. ~(size_c > 1)
      BY <2>7, FS_CardinalityType, <2>1 DEF size_c
    <3>2. ~(\E f, g \in hashes[c] : f # g)
      BY <2>2, <3>1 DEF size_c
    <3>3. QED
      BY <2>7, <3>2
  <2>8. QED
    BY <2>5, <2>6, <2>7 DEF size_c
<1>7. ASSUME NEW f \in Files, f # file, content[f] = content[file],
             f \in sizes[size], f \in unhashed \/ f \in hashes[content[f]]
      PROVE  {f, file} \subseteq dupsByHash'[content[file]]
  <2>1. f \notin unhashed
    BY <1>1, <1>2, <1>4, <1>5, <1>7 DEF Alone
  <2>2. c = content[file]
    <3>1. CASE \E first \in Files : content[first] = c /\ sizes[size] = {first, file}
      BY <1>7, <3>1
    <3>2. QED
      BY <1>5, <3>1
  <2>3. {f, file} \subseteq hashes[c]
    BY <1>5, <1>7, <2>1, <2>2
  <2>4. QED
    BY <1>6, <1>7, <2>2, <2>3
<1>8. Hashed'
  <2>1. ASSUME NEW i \in 1..at, SizeOf[content[walk[i]]] # 0
        PROVE  /\ walk[i] \in sizes[SizeOf[content[walk[i]]]]
               /\ walk[i] \in unhashed \/ walk[i] \in hashes[content[walk[i]]]
    <3>1. CASE i = at
      BY <1>2, <1>5, <3>1
    <3>2. CASE i # at
      <4>1. i \in 1..(at - 1)
        BY <1>1, <3>2
      <4>2. QED
        BY <1>1, <1>4, <2>1, <4>1 DEF Hashed
    <3>3. QED
      BY <3>1, <3>2
  <2>2. QED
    BY <1>1, <2>1 DEF Hashed, given
<1>9. Alone'
  BY <1>1, <1>4 DEF Alone, given
<1>10. Comparing'
  BY <1>1 DEF Comparing
<1>11. HashesFound'
  <2>1. ASSUME NEW i \in 1..(at - 1), walk[i] # file, content[walk[i]] = content[file]
        PROVE  {walk[i], file} \subseteq dupsByHash'[content[file]]
    <3>1. /\ walk[i] \in Files /\ walk[i] \in sizes[size]
          /\ walk[i] \in unhashed \/ walk[i] \in hashes[content[walk[i]]]
      <4>1. i \in 1..HashesTo /\ SizeOf[content[walk[i]]] = size /\ size # 0
        BY <1>1, <1>2, <2>1
      <4>2. walk[i] \in Files
        BY <1>1, <1>2 DEF Visits
      <4>3. QED
        BY <1>4, <4>1, <4>2 DEF Hashed
    <3>2. QED
      BY <1>7, <2>1, <3>1
  <2>2. ASSUME NEW i \in 1..at, NEW j \in 1..at, walk[i] # walk[j], content[walk[j]] = content[walk[i]],
               SizeOf[content[walk[i]]] # 0
        PROVE  walk[i] \in dupsByHash'[content[walk[i]]]
    <3>1. CASE i = at
      <4>1. j \in 1..(at - 1) /\ walk[j] # file /\ content[walk[j]] = content[file]
        BY <1>1, <1>2, <2>2, <3>1
      <4>2. QED
        BY <1>2, <2>1, <3>1, <4>1
    <3>2. CASE i # at /\ j = at
      <4>1. i \in 1..(at - 1) /\ walk[i] # file /\ content[walk[i]] = content[file]
        BY <1>1, <1>2, <2>2, <3>2
      <4>2. QED
        BY <2>1, <4>1
    <3>3. CASE i # at /\ j # at
      <4>1. i \in 1..HashesTo /\ j \in 1..HashesTo
        BY <1>1, <3>3
      <4>2. walk[i] \in dupsByHash[content[walk[i]]]
        BY <1>4, <2>2, <4>1 DEF HashesFound
      <4>3. content[walk[i]] \in Contents
        BY <1>2, TheFile DEF Visits
      <4>4. QED
        BY <1>6, <4>2, <4>3
    <3>4. QED
      BY <3>1, <3>2, <3>3
  <2>3. QED
    BY <1>1, <2>2 DEF HashesFound, given
<1>12. QED
  BY <1>8, <1>9, <1>10, <1>11 DEF HashesExact

LEMMA HashesStep ==
    ASSUME TypeOK, TypeOK', Phases, [Next]_vars, SizesSound, HashesSound, HashesExact, Complete'
    PROVE  HashesExact'
<1> SUFFICES ASSUME opt.checksum PROVE HashesExact'
  <2>1. UNCHANGED opt
    BY Steps DEF Quiet, Visit, IsFileDupByName, Broken, SizeZero, SizeFirst, SizeAgain, SizeTest, HashOwn,
                 HashFirst, Hashing, CompareHashes, IsFileDupByRegex, Report, given
  <2>2. QED
    BY <2>1 DEF HashesExact
<1> USE DEF AfterContent, AfterName
<1>0. at \in Nat
  BY TheFile
<1>1. CASE Visit
  <2>1. UNCHANGED <<given, sizes, unhashed, hashes, dupsByHash>> /\ HashesTo = at /\ HashesTo' = at
    BY <1>0, <1>1 DEF Visit, HashesTo, seen, found
  <2>2. pc = "walk" /\ pc' \in {"name", "stat"}
    BY <1>1 DEF Visit
  <2>3. QED
    BY <2>1, <2>2, HashesFrame
<1>2. CASE IsFileDupByName
  <2>1. UNCHANGED <<given, at, sizes, unhashed, hashes, dupsByHash>> /\ pc = "name"
    BY <1>2 DEF IsFileDupByName
  <2>2. pc' = "stat"
    BY <1>2, NothingSkipped
  <2>3. QED
    BY <2>1, <2>2, HashesFrame DEF HashesTo
<1>3. CASE SizeZero \/ SizeFirst
  BY <1>3, StatStep
<1>4. CASE SizeAgain
  <2>1. UNCHANGED <<given, at, sizes, unhashed, hashes, dupsByHash>> /\ pc = "stat" /\ pc' = "hash"
    BY <1>4, NothingSkipped DEF SizeAgain, SizeTest, Phases
  <2>2. QED
    BY <2>1, HashesFrame DEF HashesTo
<1>5. CASE HashOwn
  BY <1>5, HashOwnStep
<1>6. ASSUME NEW first \in sizes[size] \intersect unhashed, HashFirst(first) PROVE HashesExact'
  BY <1>6, HashFirstStep
<1>7. CASE CompareHashes
  <2>1. pc' = AfterContent /\ checksum # {}
    BY <1>7, NothingSkipped DEF CompareHashes
  <2>2. QED
    BY <1>7, <2>1, CompareStep
<1>8. CASE IsFileDupByRegex \/ Report
  <2>1. /\ UNCHANGED <<given, at, sizes, unhashed, hashes, dupsByHash>>
        /\ pc \in {"regex", "walk"} /\ pc' \in {"walk", "done"}
    BY <1>8 DEF IsFileDupByRegex, Report, seen, found
  <2>2. QED
    BY <2>1, HashesFrame DEF HashesTo
<1>9. CASE Quiet
  BY <1>9 DEF Quiet, HashesExact, Hashed, Alone, Comparing, HashesFound, HashesTo, given, seen, found, size, file
<1>10. QED
  BY <1>1, <1>2, <1>3, <1>4, <1>5, <1>6, <1>7, <1>8, <1>9, NothingSkipped, Steps

-----------------------------------------------------------------------------
LEMMA InitInv == Init => IInv
<1> SUFFICES ASSUME Init PROVE IInv
  OBVIOUS
<1> USE DEF Init
<1>1. TypeOK
  <2>1. walk \in Seq(Files)
    BY FilesAssumption
  <2>2. at \in 0..Len(walk)
    BY <2>1
  <2>3. QED
    BY <2>2 DEF TypeOK
<1>2. Phases
  BY DEF Phases
<1>3. NamesTo = 0 /\ SizesTo = 0 /\ CapturesTo = 0 /\ HashesTo = 0 /\ 1..0 = {}
  BY DEF NamesTo, SizesTo, CapturesTo, HashesTo
<1>4. NamesSound /\ NamesExact
  BY <1>3 DEF NamesSound, NamesExact, Named, Recorded, Right, Covers, All
<1>5. SizesSound /\ SizesExact
  BY <1>3 DEF SizesSound, SizesExact, Sized, Recorded, Right, Covers, All
<1>6. CapturesSound /\ CapturesExact
  BY <1>3 DEF CapturesSound, CapturesExact, Capturing, Recorded, Right, Covers, All
<1>7. HashesSound
  BY DEF HashesSound
<1>8. HashesExact
  BY <1>3 DEF HashesExact, Hashed, Alone, Comparing, HashesFound
<1>9. QED
  BY <1>1, <1>2, <1>4, <1>5, <1>6, <1>7, <1>8 DEF IInv, Sound, Exact

LEMMA ZeroStep ==
    ASSUME TypeOK, Phases, [Next]_vars, exit = "0" => ~failed /\ PathsFound = {}
    PROVE  exit' = "0" => ~failed' /\ PathsFound' = {}
<1>1. CASE Report
  <2>1. UNCHANGED <<failed, found>> /\ (exit' = "0" => PathsFound = {} /\ ~failed)
    BY <1>1 DEF Report
  <2>2. QED
    BY <2>1 DEF found, PathsFound, Grouped
<1>2. CASE Quiet
  BY <1>2 DEF Quiet, found, PathsFound, Grouped
<1>3. CASE ~Report /\ ~Quiet
  BY <1>3, Steps DEF Visit, IsFileDupByName, Broken, Crash, SizeZero, SizeFirst, SizeAgain, SizeTest, HashOwn,
                     HashFirst, Hashing, CompareHashes, IsFileDupByRegex, Phases
<1>4. QED
  BY <1>1, <1>2, <1>3

LEMMA StepInv == IInv /\ [Next]_vars => IInv'
<1> SUFFICES ASSUME IInv, [Next]_vars PROVE IInv'
  OBVIOUS
<1>1. TypeOK /\ Phases /\ Sound /\ (Complete => Exact) /\ (exit = "0" => ~failed /\ PathsFound = {})
  BY DEF IInv
<1>2. TypeOK' /\ Phases'
  BY <1>1, TypeStep, PhasesStep
<1>3. NamesSound' /\ (Complete' /\ NamesExact => NamesExact')
  BY <1>1, <1>2, NamesStep DEF Sound
<1>4. SizesSound' /\ (Complete' /\ SizesExact => SizesExact')
  BY <1>1, <1>2, SizesStep DEF Sound
<1>5. CapturesSound' /\ (Complete' /\ CapturesExact => CapturesExact')
  BY <1>1, <1>2, CapturesStep DEF Sound
<1>6. HashesSound'
  BY <1>1, <1>2, HashesSoundStep DEF Sound
<1>7. Complete' /\ HashesExact => HashesExact'
  BY <1>1, <1>2, HashesStep DEF Sound
<1>8. Complete' => Exact
  BY <1>1, <1>2, CompleteBefore
<1>9. exit' = "0" => ~failed' /\ PathsFound' = {}
  BY <1>1, ZeroStep
<1>10. QED
  BY <1>2, <1>3, <1>4, <1>5, <1>6, <1>7, <1>8, <1>9 DEF IInv, Sound, Exact

(* The invariant the theorems rest on: where a file is on its way through   *)
(* the tests, what each test has recorded and found, and, as long as        *)
(* nothing was skipped, that it has missed nothing.  (the whole run)        *)
THEOREM Invariance == Spec => []IInv
<1>1. Init => IInv
  BY InitInv
<1>2. IInv /\ [Next]_vars => IInv'
  BY StepInv
<1>3. QED
  BY <1>1, <1>2, PTL DEF Spec

(* Every variable stays in its range.                                       *)
THEOREM TypeCorrect == Spec => []TypeOK
<1>1. IInv => TypeOK
  BY DEF IInv
<1>2. QED
  BY <1>1, Invariance, PTL

-----------------------------------------------------------------------------
(* What was found under a key is what was visited under it, if that is more *)
(* than one visit.                                                          *)
LEMMA GroupIsRight ==
    ASSUME NEW w, NEW v, NEW dups, Right(w, v, dups), NEW k \in DOMAIN v,
           NEW n \in Nat, NEW S \in SUBSET (1..n), v[k] \subseteq S
    PROVE  /\ dups[k] # {} => Cardinality(S) > 1
           /\ dups[k] \subseteq {w[i] : i \in S}
           /\ S = v[k] /\ All(w, v, dups) /\ Cardinality(S) > 1 => {w[i] : i \in S} \subseteq dups[k]
<1>1. IsFiniteSet(S)
  BY VisitsAreFinite
<1>2. dups[k] # {} => \E i, j \in S : i # j
  <2>1. dups[k] # {} => \E i, j \in v[k] : i # j
    BY DEF Right
  <2>2. QED
    BY <2>1
<1>3. dups[k] \subseteq {w[i] : i \in S}
  BY DEF Right
<1>4. ASSUME S = v[k], All(w, v, dups), \E i, j \in S : i # j, NEW i \in S
      PROVE  w[i] \in dups[k]
  BY <1>4 DEF All
<1>5. QED
  BY <1>1, <1>2, <1>3, <1>4, Several

LEMMA Bounds ==
    ASSUME TypeOK, Phases
    PROVE  /\ at \in Nat
           /\ \A last \in {NamesTo, SizesTo, CapturesTo, HashesTo} : 1..last \subseteq Visits
           /\ pc = "done" => NamesTo = at /\ SizesTo = at /\ CapturesTo = at /\ HashesTo = at
BY TheFile DEF NamesTo, SizesTo, CapturesTo, HashesTo, Visits

LEMMA NamesAreRight ==
    ASSUME TypeOK, Phases, NamesSound
    PROVE  /\ \A n \in Names : dupsByName[n] \subseteq DuplicateNames[n]
           /\ pc = "done" /\ NamesExact => dupsByName = DuplicateNames
<1>1. ASSUME NEW n \in Names
      PROVE  /\ dupsByName[n] \subseteq DuplicateNames[n]
             /\ pc = "done" /\ NamesExact => DuplicateNames[n] \subseteq dupsByName[n]
  <2> DEFINE v == Named(NamesTo)
             S == SameName(n)
  <2>1. /\ at \in Nat /\ S \in SUBSET (1..at) /\ n \in DOMAIN v /\ v[n] \subseteq S
        /\ pc = "done" => S = v[n]
    BY Bounds DEF Named, SameName, Visits
  <2>2. Right(walk, v, dupsByName) /\ (dupsByName[n] # {} => opt.name)
    BY DEF NamesSound
  <2>3. NamesExact /\ opt.name => All(walk, v, dupsByName)
    BY DEF NamesExact
  <2>4. DuplicateNames[n] = IF opt.name /\ Cardinality(S) > 1 THEN {walk[i] : i \in S} ELSE {}
    BY DEF DuplicateNames, PathsOf
  <2> HIDE DEF v, S
  <2>5. /\ dupsByName[n] # {} => Cardinality(S) > 1
        /\ dupsByName[n] \subseteq {walk[i] : i \in S}
        /\ S = v[n] /\ All(walk, v, dupsByName) /\ Cardinality(S) > 1
             => {walk[i] : i \in S} \subseteq dupsByName[n]
    BY <2>1, <2>2, GroupIsRight
  <2>6. QED
    BY <2>1, <2>2, <2>3, <2>4, <2>5
<1>2. dupsByName \in [Names -> SUBSET Files] /\ DOMAIN DuplicateNames = Names
  BY DEF TypeOK, DuplicateNames
<1>3. (\A n \in Names : dupsByName[n] = DuplicateNames[n]) => dupsByName = DuplicateNames
  BY <1>2 DEF DuplicateNames
<1>4. QED
  BY <1>1, <1>3

LEMMA SizesAreRight ==
    ASSUME TypeOK, Phases, SizesSound
    PROVE  /\ \A s \in Sizes : dupsBySize[s] \subseteq DuplicateSizes[s]
           /\ pc = "done" /\ SizesExact => dupsBySize = DuplicateSizes
<1>1. ASSUME NEW s \in Sizes
      PROVE  /\ dupsBySize[s] \subseteq DuplicateSizes[s]
             /\ pc = "done" /\ SizesExact => DuplicateSizes[s] \subseteq dupsBySize[s]
  <2> DEFINE v == Sized(SizesTo)
             S == SameSize(s)
  <2>1. /\ at \in Nat /\ S \in SUBSET (1..at) /\ s \in DOMAIN v /\ v[s] \subseteq S
        /\ pc = "done" /\ s # 0 => S = v[s]
        /\ s = 0 => v[s] = {}
    BY Bounds DEF Sized, SameSize, Visits
  <2>2. Right(walk, v, dupsBySize) /\ (dupsBySize[s] # {} => opt.size)
    BY DEF SizesSound
  <2>3. SizesExact /\ opt.size => All(walk, v, dupsBySize)
    BY DEF SizesExact
  <2>4. DuplicateSizes[s] = IF opt.size /\ s # 0 /\ Cardinality(S) > 1 THEN {walk[i] : i \in S} ELSE {}
    BY DEF DuplicateSizes, PathsOf
  <2> HIDE DEF v, S
  <2>5. /\ dupsBySize[s] # {} => Cardinality(S) > 1
        /\ dupsBySize[s] \subseteq {walk[i] : i \in S}
        /\ S = v[s] /\ All(walk, v, dupsBySize) /\ Cardinality(S) > 1
             => {walk[i] : i \in S} \subseteq dupsBySize[s]
    <3>1. at \in Nat /\ S \in SUBSET (1..at) /\ s \in DOMAIN v /\ v[s] \subseteq S
      BY <2>1
    <3>2. Right(walk, v, dupsBySize)
      BY <2>2
    <3>3. QED
      BY <3>1, <3>2, GroupIsRight, Zenon
  <2>6. s = 0 => dupsBySize[s] = {}
    BY <2>1, <2>2 DEF Right
  <2>7. QED
    BY <2>1, <2>2, <2>3, <2>4, <2>5, <2>6
<1>2. dupsBySize \in [Sizes -> SUBSET Files] /\ DOMAIN DuplicateSizes = Sizes
  BY DEF TypeOK, DuplicateSizes
<1>3. (\A s \in Sizes : dupsBySize[s] = DuplicateSizes[s]) => dupsBySize = DuplicateSizes
  BY <1>2 DEF DuplicateSizes
<1>4. QED
  BY <1>1, <1>3

LEMMA CapturesAreRight ==
    ASSUME TypeOK, Phases, CapturesSound
    PROVE  /\ \A x \in Captures : dupsByRegex[x] \subseteq DuplicateCaptures[x]
           /\ pc = "done" /\ CapturesExact => dupsByRegex = DuplicateCaptures
<1>1. ASSUME NEW x \in Captures
      PROVE  /\ dupsByRegex[x] \subseteq DuplicateCaptures[x]
             /\ pc = "done" /\ CapturesExact => DuplicateCaptures[x] \subseteq dupsByRegex[x]
  <2> DEFINE v == Capturing(CapturesTo)
             S == SameCapture(x)
  <2>1. /\ at \in Nat /\ S \in SUBSET (1..at) /\ x \in DOMAIN v /\ v[x] \subseteq S
        /\ pc = "done" => S = v[x]
    BY Bounds DEF Capturing, SameCapture, Visits
  <2>2. Right(walk, v, dupsByRegex) /\ (dupsByRegex[x] # {} => opt.regex)
    BY DEF CapturesSound
  <2>3. CapturesExact /\ opt.regex => All(walk, v, dupsByRegex)
    BY DEF CapturesExact
  <2>4. DuplicateCaptures[x] = IF opt.regex /\ Cardinality(S) > 1 THEN {walk[i] : i \in S} ELSE {}
    BY DEF DuplicateCaptures, PathsOf
  <2> HIDE DEF v, S
  <2>5. /\ dupsByRegex[x] # {} => Cardinality(S) > 1
        /\ dupsByRegex[x] \subseteq {walk[i] : i \in S}
        /\ S = v[x] /\ All(walk, v, dupsByRegex) /\ Cardinality(S) > 1
             => {walk[i] : i \in S} \subseteq dupsByRegex[x]
    BY <2>1, <2>2, GroupIsRight
  <2>6. QED
    BY <2>1, <2>2, <2>3, <2>4, <2>5
<1>2. dupsByRegex \in [Captures -> SUBSET Files] /\ DOMAIN DuplicateCaptures = Captures
  BY DEF TypeOK, DuplicateCaptures
<1>3. (\A x \in Captures : dupsByRegex[x] = DuplicateCaptures[x]) => dupsByRegex = DuplicateCaptures
  BY <1>2 DEF DuplicateCaptures
<1>4. QED
  BY <1>1, <1>3

LEMMA HashesAreRight ==
    ASSUME TypeOK, Phases, HashesSound
    PROVE  /\ \A c \in Contents : dupsByHash[c] \subseteq DuplicateContents[c]
           /\ pc = "done" /\ HashesExact => dupsByHash = DuplicateContents
<1>1. ASSUME NEW c \in Contents
      PROVE  /\ dupsByHash[c] \subseteq DuplicateContents[c]
             /\ pc = "done" /\ HashesExact => DuplicateContents[c] \subseteq dupsByHash[c]
  <2> DEFINE S == SameContent(c)
  <2>1. \A f : f \in S <=> \E i \in Visits : content[walk[i]] = c /\ walk[i] = f
    BY DEF SameContent
  <2>2. S \subseteq Files
    BY <2>1, TheFile
  <2>3. IsFiniteSet(S)
    BY <2>2, FS_Subset, FilesAssumption
  <2>4. DuplicateContents[c] = IF opt.checksum /\ SizeOf[c] # 0 /\ Cardinality(S) > 1 THEN S ELSE {}
    BY DEF DuplicateContents
  <2> HIDE DEF S
  <2>5. Cardinality(S) > 1 <=> \E f, g \in S : f # g
    BY <2>3, Several
  <2>6. /\ dupsByHash[c] \subseteq S
        /\ dupsByHash[c] # {} => /\ opt.checksum /\ SizeOf[c] # 0
                                /\ \E f, g \in S : f # g
    <3>1. dupsByHash[c] \subseteq hashes[c]
      BY DEF HashesSound
    <3>2. \A f \in hashes[c] : content[f] = c /\ SizeOf[c] # 0 /\ f \in S
      BY <2>1 DEF HashesSound
    <3>3. dupsByHash[c] # {} => opt.checksum /\ \E f, g \in dupsByHash[c] : f # g
      BY DEF HashesSound
    <3>4. QED
      BY <3>1, <3>2, <3>3
  <2>7. ASSUME pc = "done", HashesExact, opt.checksum, SizeOf[c] # 0, \E f, g \in S : f # g, NEW f \in S
        PROVE  f \in dupsByHash[c]
    <3>1. PICK g \in S : g # f
      BY <2>7
    <3>2. PICK i \in Visits : content[walk[i]] = c /\ walk[i] = f
      BY <2>1
    <3>3. PICK j \in Visits : content[walk[j]] = c /\ walk[j] = g
      BY <2>1, <3>1
    <3>4. i \in 1..HashesTo /\ j \in 1..HashesTo
      BY <2>7, <3>2, <3>3, Bounds DEF Visits
    <3>5. HashesFound
      BY <2>7 DEF HashesExact
    <3>6. QED
      BY <2>7, <3>1, <3>2, <3>3, <3>4, <3>5 DEF HashesFound
  <2>8. QED
    BY <2>4, <2>5, <2>6, <2>7
<1>2. dupsByHash \in [Contents -> SUBSET Files] /\ DOMAIN DuplicateContents = Contents
  BY DEF TypeOK, DuplicateContents
<1>3. (\A c \in Contents : dupsByHash[c] = DuplicateContents[c]) => dupsByHash = DuplicateContents
  BY <1>2 DEF DuplicateContents
<1>4. QED
  BY <1>1, <1>3

(* With nothing skipped the report is the reference.                        *)
LEMMA ReportIsExact ==
    ASSUME IInv, pc = "done", Complete
    PROVE  /\ dupsByName = DuplicateNames /\ dupsBySize = DuplicateSizes
           /\ dupsByHash = DuplicateContents /\ dupsByRegex = DuplicateCaptures
BY NamesAreRight, SizesAreRight, HashesAreRight, CapturesAreRight DEF IInv, Sound, Exact

(* A group of one is a path that was visited twice.                         *)
LEMMA SingleGroup ==
    ASSUME NEW n \in Nat, NEW w, NEW v, NEW dups, Right(w, v, dups), NEW k \in DOMAIN v, v[k] \subseteq 1..n,
           Cardinality(dups[k]) = 1, IsFiniteSet(dups[k])
    PROVE  \E i, j \in 1..n : i # j /\ w[i] = w[j]
<1>1. PICK f : dups[k] = {f}
  BY FS_Singleton
<1>2. PICK i \in v[k], j \in v[k] : i # j /\ {w[i], w[j]} \subseteq dups[k]
  BY <1>1 DEF Right
<1>3. w[i] = f /\ w[j] = f
  BY <1>1, <1>2
<1>4. QED
  BY <1>2, <1>3

LEMMA GroupSizes ==
    ASSUME TypeOK, Phases, Sound,
           NEW dups \in {dupsByName, dupsBySize, dupsByHash, dupsByRegex}, NEW k \in DOMAIN dups,
           Cardinality(dups[k]) = 1
    PROVE  \E i, j \in Visits : i # j /\ walk[i] = walk[j]
<1>1. /\ DOMAIN dupsByName = Names /\ DOMAIN dupsBySize = Sizes
      /\ DOMAIN dupsByHash = Contents /\ DOMAIN dupsByRegex = Captures
      /\ dups[k] \subseteq Files
  BY DEF TypeOK
<1>2. IsFiniteSet(dups[k])
  BY <1>1, FS_Subset, FilesAssumption
<1>3. at \in Nat /\ Visits = 1..at
  BY Bounds DEF Visits
<1>4. CASE dups = dupsByName
  <2> DEFINE v == Named(NamesTo)
  <2>1. k \in DOMAIN v /\ v[k] \subseteq 1..at /\ Right(walk, v, dups)
    BY <1>1, <1>3, <1>4, Bounds DEF Named, Sound, NamesSound
  <2> HIDE DEF v
  <2>2. QED
    BY <1>2, <1>3, <2>1, SingleGroup
<1>5. CASE dups = dupsBySize
  <2> DEFINE v == Sized(SizesTo)
  <2>1. k \in DOMAIN v /\ v[k] \subseteq 1..at /\ Right(walk, v, dups)
    BY <1>1, <1>3, <1>5, Bounds DEF Sized, Sound, SizesSound
  <2> HIDE DEF v
  <2>2. QED
    BY <1>2, <1>3, <2>1, SingleGroup
<1>6. CASE dups = dupsByRegex
  <2> DEFINE v == Capturing(CapturesTo)
  <2>1. k \in DOMAIN v /\ v[k] \subseteq 1..at /\ Right(walk, v, dups)
    BY <1>1, <1>3, <1>6, Bounds DEF Capturing, Sound, CapturesSound
  <2> HIDE DEF v
  <2>2. QED
    BY <1>2, <1>3, <2>1, SingleGroup
<1>7. CASE dups = dupsByHash
  <2>1. PICK f : dups[k] = {f}
    BY <1>2, FS_Singleton
  <2>2. k \in Contents
    BY <1>1, <1>7
  <2>3. \E f1, f2 \in dups[k] : f1 # f2
    BY <1>7, <2>1, <2>2 DEF Sound, HashesSound
  <2>4. QED
    BY <2>1, <2>3
<1>8. QED
  BY <1>4, <1>5, <1>6, <1>7

(* What was found so far is right at any time, and with --no-short-circuit  *)
(* the report is exactly the duplicates, whatever the order of the walk.    *)
(* (is_file_dup and the lazy hashing of is_file_dup_by_hash)                *)
THEOREM GroupsTheorem == Spec => []GroupsAreRight
<1>1. IInv => GroupsAreRight
  <2> SUFFICES ASSUME IInv PROVE GroupsAreRight
    OBVIOUS
  <2>1. TypeOK /\ Phases /\ Sound
    BY DEF IInv
  <2>2. /\ \A n \in Names : dupsByName[n] \subseteq DuplicateNames[n]
        /\ \A s \in Sizes : dupsBySize[s] \subseteq DuplicateSizes[s]
        /\ \A c \in Contents : dupsByHash[c] \subseteq DuplicateContents[c]
        /\ \A x \in Captures : dupsByRegex[x] \subseteq DuplicateCaptures[x]
    BY <2>1, NamesAreRight, SizesAreRight, HashesAreRight, CapturesAreRight DEF Sound
  <2>3. exit = "4" /\ opt.noShortCircuit /\ ~failed => pc = "done" /\ Complete
    BY <2>1 DEF Phases, Complete
  <2>4. QED
    BY <2>1, <2>2, <2>3, GroupSizes, ReportIsExact DEF GroupsAreRight
<1>2. QED
  BY <1>1, Invariance, PTL

(* Exit code 0 means that no two files visited are duplicates, whatever was *)
(* short-circuited on the way.  (is_file_dup, run)                          *)
THEOREM CleanTheorem == Spec => []CleanExitMeansNoDuplicates
<1>1. IInv => CleanExitMeansNoDuplicates
  <2> SUFFICES ASSUME IInv, exit = "0"
               PROVE  /\ Grouped(DuplicateNames) = {} /\ Grouped(DuplicateSizes) = {}
                      /\ Grouped(DuplicateContents) = {} /\ Grouped(DuplicateCaptures) = {}
    BY DEF CleanExitMeansNoDuplicates
  <2>1. TypeOK /\ pc = "done" /\ ~failed /\ PathsFound = {}
    BY DEF IInv, Phases
  <2>2. Complete
    BY <2>1 DEF Complete
  <2>3. QED
    BY <2>1, <2>2, ReportIsExact DEF PathsFound
<1>2. QED
  BY <1>1, Invariance, PTL

-----------------------------------------------------------------------------
(* What the walks of directory trees share.                                  *)

(* An order of a finite set is a sequence of all its members.                *)
LEMMA OrderOfSet ==
    ASSUME NEW S, IsFiniteSet(S), NEW s \in SetToSeqs(S)
    PROVE  s \in Seq(S) /\ Range(s) = S
<1> DEFINE n == Cardinality(S)
<1>1. n \in Nat /\ IsFiniteSet(1..n) /\ Cardinality(1..n) = n
  BY FS_CardinalityType, FS_Interval
<1>2. s \in [1..n -> S] /\ \A i, j \in 1..n : i # j => s[i] # s[j]
  BY DEF SetToSeqs
<1>3. s \in Injection(1..n, S)
  BY <1>2 DEF Injection, IsInjective
<1>4. s \in Surjection(1..n, S)
  BY <1>1, <1>3, FS_Injection
<1>5. QED
  BY <1>1, <1>2, <1>4 DEF Surjection, Range

(* The first and the others of a sequence.                                   *)
LEMMA FirstAndRest ==
    ASSUME NEW S, NEW s \in Seq(S), s # <<>>
    PROVE  /\ Head(s) \in S /\ Tail(s) \in Seq(S)
           /\ Range(s) = {Head(s)} \union Range(Tail(s))
<1>1. /\ Head(s) \in S /\ Tail(s) \in Seq(S) /\ Len(s) \in Nat \ {0} /\ DOMAIN s = 1..Len(s)
      /\ Len(Tail(s)) = Len(s) - 1 /\ Head(s) = s[1]
      /\ \A k \in 1..Len(Tail(s)) : Tail(s)[k] = s[k + 1]
  BY HeadTailProperties, LenProperties, EmptySeq
<1>2. DOMAIN Tail(s) = 1..(Len(s) - 1)
  BY <1>1, LenProperties
<1>3. Range(s) \subseteq {Head(s)} \union Range(Tail(s))
  <2>1. ASSUME NEW k \in DOMAIN s, k # 1
        PROVE  k - 1 \in DOMAIN Tail(s) /\ s[k] = Tail(s)[k - 1]
    BY <1>1, <1>2, <2>1
  <2>2. QED
    BY <1>1, <2>1 DEF Range
<1>4. Range(Tail(s)) \subseteq Range(s)
  BY <1>1, <1>2 DEF Range
<1>5. Head(s) \in Range(s)
  BY <1>1 DEF Range
<1>6. QED
  BY <1>1, <1>3, <1>4, <1>5

(* Sequences one after the other, and one thing more.                        *)
LEMMA Joined ==
    ASSUME NEW S, NEW s \in Seq(S), NEW t \in Seq(S)
    PROVE  s \o t \in Seq(S) /\ Range(s \o t) = Range(s) \union Range(t)
<1>1. s \o t \in Seq(S)
  BY ConcatProperties
<1>2. Range(s \o t) = Range(s) \union Range(t)
  BY RangeConcatenation
<1>3. QED
  BY <1>1, <1>2

LEMMA FourJoined ==
    ASSUME NEW S, NEW a \in Seq(S), NEW b \in Seq(S), NEW c \in Seq(S), NEW t \in Seq(S)
    PROVE  /\ a \o b \o c \o t \in Seq(S)
           /\ Range(a \o b \o c \o t) = Range(a) \union Range(b) \union Range(c) \union Range(t)
<1> DEFINE ab == a \o b
           abc == ab \o c
           all == abc \o t
<1>1. ab \in Seq(S) /\ Range(ab) = Range(a) \union Range(b)
  BY Joined
<1> HIDE DEF ab
<1>2. abc \in Seq(S) /\ Range(abc) = Range(ab) \union Range(c)
  BY <1>1, Joined
<1> HIDE DEF abc
<1>3. all \in Seq(S) /\ Range(all) = Range(abc) \union Range(t)
  BY <1>2, Joined
<1> HIDE DEF all
<1>4. a \o b \o c \o t = all
  BY DEF ab, abc, all
<1>5. QED
  BY <1>1, <1>2, <1>3, <1>4

LEMMA Appended ==
    ASSUME NEW S, NEW s \in Seq(S), NEW x \in S
    PROVE  Append(s, x) \in Seq(S) /\ Range(Append(s, x)) = Range(s) \union {x}
<1>1. /\ Append(s, x) \in Seq(S) /\ DOMAIN Append(s, x) = 1..(Len(s) + 1) /\ Len(s) \in Nat
      /\ Append(s, x)[Len(s) + 1] = x /\ \A k \in 1..Len(s) : Append(s, x)[k] = s[k]
  BY AppendProperties, LenProperties
<1>2. DOMAIN s = 1..Len(s)
  BY LenProperties
<1>3. Range(Append(s, x)) \subseteq Range(s) \union {x}
  <2>1. \A k \in 1..(Len(s) + 1) : k \in 1..Len(s) \/ k = Len(s) + 1
    BY <1>1
  <2>2. QED
    BY <1>1, <1>2, <2>1 DEF Range
<1>4. Range(s) \union {x} \subseteq Range(Append(s, x))
  BY <1>1, <1>2 DEF Range
<1>5. QED
  BY <1>1, <1>3, <1>4

(* The directories below d are d itself and those below the ones in it.      *)
LEMMA BelowUnfolds ==
    ASSUME NEW d \in Dirs, NEW subdirs \in [Dirs -> SUBSET Dirs]
    PROVE  Below(d, subdirs) = {d} \union UNION {Below(e, subdirs) : e \in subdirs[d]}
<1>1. \A e \in Dirs : e \in Below(e, subdirs) /\ Below(e, subdirs) \subseteq Dirs
  BY DEF Below
<1>2. \A e \in Dirs : Closed(Below(e, subdirs), subdirs)
  BY DEF Below, Closed
<1>3. ASSUME NEW e \in subdirs[d] PROVE Below(e, subdirs) \subseteq Below(d, subdirs)
  <2>1. e \in Dirs /\ e \in Below(d, subdirs)
    BY <1>1, <1>2, <1>3 DEF Closed
  <2>2. QED
    BY <1>1, <1>2, <2>1 DEF Below
<1>4. Below(d, subdirs) \subseteq {d} \union UNION {Below(e, subdirs) : e \in subdirs[d]}
  <2> DEFINE S == {d} \union UNION {Below(e, subdirs) : e \in subdirs[d]}
  <2>1. S \in SUBSET Dirs /\ d \in S
    BY <1>1
  <2>2. Closed(S, subdirs)
    <3>1. ASSUME NEW x \in S PROVE subdirs[x] \subseteq S
      <4>1. CASE x = d
        BY <1>1, <4>1
      <4>2. CASE \E e \in subdirs[d] : x \in Below(e, subdirs)
        BY <1>2, <4>2 DEF Closed
      <4>3. QED
        BY <4>1, <4>2
    <3>2. QED
      BY <3>1 DEF Closed
  <2>3. QED
    BY <2>1, <2>2 DEF Below
<1>5. QED
  BY <1>1, <1>3, <1>4

-----------------------------------------------------------------------------
(* What is known of the program that is run.                                 *)
LEMMA ToolFacts ==
    ASSUME run \in Runs
    PROVE  /\ run.tool.prints \in {"never", "content", "records", "reread"}
           /\ run.tool \in {Json, JsonBulk} => run.tool.prints = "records" /\ run.tool.opens
           /\ run.tool \in Filters => /\ run.tool.prints = "content"
                                      /\ run.tool.converts \in {"1", "2"}
                                      /\ run.tool.stdin # "none"
                                      /\ run.tool.converts = "1" => run.tool = YamlToJson
           /\ run.tool.prints = "reread" => run.tool.opens
           /\ run.tool.stdin = "ignored" => run.tool.prints = "never"
           /\ ~run.tool.selects => run.tool = Multimedia /\ run.excluded = {}
           /\ run.multi => run.tool = Json
           /\ run.args \in Seq(Files \union Dirs \union {"-", "missing"})
<1> DEFINE tool == run.tool
<1>1. /\ tool \in {Yaml, Xml, Json, Ldif, Ini, Ini2, Csv, Avro, Parquet, Toml, Cson, Multimedia,
                   JsonBulk} \union Filters
      /\ run.multi => tool = Json
      /\ ~tool.selects => run.excluded = {}
      /\ run.args \in Seq(Files \union Dirs \union {"-", "missing"})
  BY RunsAssumption
<1>2. CASE tool \in {Yaml, Xml}
  BY <1>1, <1>2 DEF Yaml, Xml, Json, JsonBulk, Filters, JsonToYaml, JsonToXml, XmlToJson, XmlToYaml, YamlToJson
<1>3. CASE tool \in {Json, JsonBulk}
  BY <1>1, <1>3 DEF Json, JsonBulk, Filters, JsonToYaml, JsonToXml, XmlToJson, XmlToYaml, YamlToJson
<1>4. CASE tool \in {Ldif, Ini, Ini2}
  BY <1>1, <1>4 DEF Ldif, Ini, Ini2, Json, JsonBulk, Filters, JsonToYaml, JsonToXml, XmlToJson, XmlToYaml, YamlToJson
<1>5. CASE tool \in {Csv, Avro, Parquet, Toml, Cson}
  BY <1>1, <1>5 DEF Csv, Avro, Parquet, Toml, Cson, Json, JsonBulk, Filters, JsonToYaml, JsonToXml, XmlToJson, XmlToYaml, YamlToJson
<1>6. CASE tool = Multimedia
  <2>1. tool.prints = "never" /\ tool.stdin = "none"
    BY <1>6 DEF Multimedia
  <2>2. tool \notin Filters \union {Json, JsonBulk}
    BY <2>1 DEF Json, JsonBulk, Filters, JsonToYaml, JsonToXml, XmlToJson, XmlToYaml, YamlToJson
  <2>3. QED
    BY <1>1, <1>6, <2>1, <2>2
<1>7. CASE tool \in Filters
  BY <1>1, <1>7 DEF Json, JsonBulk, Filters, JsonToYaml, JsonToXml, XmlToJson, XmlToYaml, YamlToJson
<1>8. QED
  BY <1>1, <1>2, <1>3, <1>4, <1>5, <1>6, <1>7

(* The arguments are paths, standard input or missing.                       *)
Paths == Files \union Dirs \union {"-"}

(* The arguments are a sequence, the one "-" when there are none.            *)
LEMMA ArgsAreSeq ==
    ASSUME run \in Runs
    PROVE  Args \in Seq(Paths \union {"missing"}) /\ Len(Args) \in Nat /\ DOMAIN Args = 1..Len(Args)
<1>1. run.args \in Seq(Paths \union {"missing"})
  <2>1. Files \union Dirs \union {"-", "missing"} = Paths \union {"missing"}
    BY DEF Paths
  <2>2. QED
    BY ToolFacts, <2>1
<1>2. <<"-">> \in Seq(Paths \union {"missing"})
  BY DEF Paths
<1>3. QED
  BY <1>1, <1>2, LenProperties DEF Args

(* Paths one after the other.                                               *)
LEMMA JoinedPaths ==
    ASSUME NEW s \in Seq(Paths), NEW t \in Seq(Paths)
    PROVE  Range(s \o t) = Range(s) \union Range(t)
BY Joined

(* What a directory stands for is what its entries stand for, when it is     *)
(* entered, and nothing otherwise.                                           *)
LEMMA StandsForUnfolds ==
    ASSUME NEW d \in Dirs
    PROVE  StandsFor(d) =
             IF Entered(d) THEN UNION {StandsFor(x) : x \in Tree[d] \intersect (Suffixed \union Dirs)}
             ELSE {}
<1> DEFINE entries == Tree[d] \intersect (Suffixed \union Dirs)
<1>1. Inside \in [Dirs -> SUBSET Dirs] /\ Tree[d] \in SUBSET (Files \union Dirs)
  BY TreeAssumption DEF Inside
<1>2. ASSUME NEW e \in Dirs, NEW y
      PROVE  y \in StandsFor(e) <=>
               \E x \in Below(e, Inside) : Entered(x) /\ y \in Tree[x] /\ y \in Suffixed
  BY DEF StandsFor
<1>3. \A x \in Suffixed : x \notin Dirs /\ StandsFor(x) = {x}
  BY TreeAssumption, PathsAssumption DEF StandsFor
<1>4. Below(d, Inside) = {d} \union UNION {Below(e, Inside) : e \in Inside[d]}
  BY <1>1, BelowUnfolds
<1>5. CASE ~Entered(d)
  <2>1. Inside[d] = {}
    BY <1>5 DEF Inside
  <2>2. Below(d, Inside) = {d}
    BY <1>4, <2>1
  <2>3. StandsFor(d) = {}
    BY <1>2, <1>5, <2>2
  <2>4. QED
    BY <1>5, <2>3
<1>6. CASE Entered(d)
  <2>1. Inside[d] = Tree[d] \intersect Dirs
    BY <1>6 DEF Inside
  <2>2. ASSUME NEW y \in StandsFor(d) PROVE \E x \in entries : y \in StandsFor(x)
    <3>1. PICK e \in Below(d, Inside) : Entered(e) /\ y \in Tree[e] /\ y \in Suffixed
      BY <1>2
    <3>2. CASE e = d
      BY <1>3, <3>1, <3>2
    <3>3. CASE e # d
      <4>1. PICK c \in Tree[d] \intersect Dirs : e \in Below(c, Inside)
        BY <1>4, <2>1, <3>3
      <4>2. y \in StandsFor(c) /\ c \in entries
        BY <1>2, <3>1, <4>1
      <4>3. QED
        BY <4>2
    <3>4. QED
      BY <3>2, <3>3
  <2>3. ASSUME NEW x \in entries, NEW y \in StandsFor(x) PROVE y \in StandsFor(d)
    <3>1. CASE x \in Suffixed
      <4>1. y = x /\ y \in Tree[d]
        BY <1>3, <3>1
      <4>2. d \in Below(d, Inside)
        BY <1>4
      <4>3. QED
        BY <1>2, <1>6, <3>1, <4>1, <4>2
    <3>2. CASE x \in Dirs
      <4>1. PICK e \in Below(x, Inside) : Entered(e) /\ y \in Tree[e] /\ y \in Suffixed
        BY <1>2, <3>2
      <4>2. x \in Inside[d]
        BY <2>1, <3>2
      <4>3. e \in Below(d, Inside)
        BY <1>4, <4>1, <4>2
      <4>4. QED
        BY <1>2, <4>1, <4>3
    <3>3. QED
      BY <3>1, <3>2
  <2>4. StandsFor(d) = UNION {StandsFor(x) : x \in entries}
    BY <2>2, <2>3
  <2>5. QED
    BY <1>6, <2>4
<1>7. QED
  BY <1>5, <1>6

(* Every order in which a directory is walked has its entries.               *)
LEMMA EntriesAreAll ==
    ASSUME NEW d \in Dirs, NEW first \in SetToSeqs(Earlier(d)),
           NEW rest \in SetToSeqs(Entries(d) \ Earlier(d))
    PROVE  /\ first \o rest \in Seq(Paths) /\ Range(first \o rest) = Entries(d)
           /\ Removed(d) \subseteq {f \in Files : disk[f] = Gone}
<1>0. Removed(d) \subseteq {f \in Files : disk[f] = Gone}
  BY TreeAssumption DEF Removed
<1>1. Entries(d) \subseteq Paths /\ Earlier(d) \subseteq Entries(d)
  BY TreeAssumption DEF Entries, Earlier, Paths
<1>2. IsFiniteSet(Entries(d)) /\ IsFiniteSet(Earlier(d)) /\ IsFiniteSet(Entries(d) \ Earlier(d))
  <2>1. IsFiniteSet(Files \union Dirs)
    BY PathsAssumption, FS_Union
  <2>2. Entries(d) \subseteq Files \union Dirs
    BY TreeAssumption DEF Entries
  <2>3. QED
    BY <1>1, <2>1, <2>2, FS_Subset
<1>3. first \in Seq(Earlier(d)) /\ Range(first) = Earlier(d)
  BY <1>2, OrderOfSet
<1>4. rest \in Seq(Entries(d) \ Earlier(d)) /\ Range(rest) = Entries(d) \ Earlier(d)
  BY <1>2, OrderOfSet
<1>5. first \in Seq(Paths) /\ rest \in Seq(Paths)
  BY <1>1, <1>3, <1>4, SeqMonotonic
<1>6. first \o rest \in Seq(Paths) /\ Range(first \o rest) = Range(first) \union Range(rest)
  BY <1>5, Joined
<1>7. QED
  BY <1>0, <1>1, <1>3, <1>4, <1>6

(* What the arguments stand for depends on how the program was started.      *)
LEMMA SameRun ==
    ASSUME run' = run
    PROVE  /\ Args' = Args /\ Wanted' = Wanted /\ (Shows <=> Shows') /\ Invalid' = Invalid
           /\ \A p : StandsFor(p)' = StandsFor(p)
           /\ \A n : NamedFiles(n)' = NamedFiles(n)
           /\ \A p : Excluded(p)' <=> Excluded(p)
           /\ \A v : Accepts(v)' <=> Accepts(v)
<1>1. Args' = Args /\ (Shows <=> Shows') /\ Invalid' = Invalid
  BY DEF Args, Shows, Invalid
<1>2. \A p : Entered(p)' <=> Entered(p)
  BY DEF Entered
<1>3. Inside' = Inside
  BY <1>2 DEF Inside
<1>4. ASSUME NEW p PROVE StandsFor(p)' = StandsFor(p)
  BY <1>2, <1>3 DEF StandsFor
<1>5. Wanted' = Wanted
  BY <1>1, <1>4 DEF Wanted
<1>6. QED
  BY <1>1, <1>4, <1>5 DEF Excluded, Accepts, NamedFiles

(* The ways a step may go.                                                   *)
VEnds ==
    /\ pc # "done" /\ pc' = "done" /\ exit' \in {"1", "2", "3"}
    /\ FailureHasReason'
    /\ UNCHANGED <<run, disk, changes, at, todo, held, unlisted, checks, out, failure>>
VEndsWell ==
    /\ pc = "paths" /\ todo = <<>> /\ at > Len(Args) /\ ~failure
    /\ pc' = "done" /\ exit' = "0"
    /\ UNCHANGED <<run, disk, changes, at, todo, held, unlisted, checks, out, failure>>
VBegins ==
    /\ pc = "args"
    /\ \/ pc' = "args" /\ at <= Len(Args) /\ at' = at + 1
       \/ pc' = "paths" /\ at' = 1
    /\ UNCHANGED <<run, disk, changes, todo, held, unlisted, checks, out, failure, exit>>
VAdvances ==
    /\ pc = "paths" /\ todo = <<>> /\ at <= Len(Args)
    /\ at' = at + 1
    /\ \/ Repeated(at) /\ todo' = <<>>
       \/ Excluded(Args[at]) /\ todo' = <<>>
       \/ Args[at] \in Paths /\ todo' = <<Args[at]>>
    /\ UNCHANGED <<run, disk, changes, pc, held, unlisted, checks, out, failure, exit>>
VWalks ==
    /\ pc = "paths" /\ todo # <<>> /\ Head(todo) \in Dirs
    /\ \/ /\ Entered(Head(todo))
          /\ \E s \in Seq(Paths) : Range(s) = Entries(Head(todo)) /\ todo' = s \o Tail(todo)
          /\ unlisted' = unlisted \union Removed(Head(todo))
          /\ unlisted' \in SUBSET {f \in Files : disk[f] = Gone}
          /\ UNCHANGED <<pc, exit, failure>>
       \/ /\ ~Entered(Head(todo))
          /\ todo' = Tail(todo) /\ unlisted' = unlisted
          /\ \/ run.tool.selects /\ UNCHANGED failure
             \/ ~run.tool.selects /\ run.tool = Multimedia /\ run.locked # {} /\ failure' = TRUE
          /\ \/ UNCHANGED <<pc, exit>>
             \/ ~run.tool.selects /\ pc' = "done" /\ exit' = "2"
    /\ UNCHANGED <<run, disk, changes, at, held, checks, out>>
VPasses ==
    /\ pc = "paths" /\ todo # <<>> /\ Head(todo) \notin Dirs /\ Excluded(Head(todo))
    /\ todo' = Tail(todo)
    /\ UNCHANGED <<run, disk, changes, pc, at, held, unlisted, checks, out, failure, exit>>
VReads ==
    /\ pc \in {"paths", "whole"}
    /\ todo # <<>> /\ Head(todo) \notin Dirs \union {"-"} /\ ~Excluded(Head(todo))
    /\ run.tool \in {Json, JsonBulk}
    /\ held' \in Documents(run.tool)
    /\ pc' \in {"whole", "rewind"}
    /\ UNCHANGED <<run, disk, changes, at, todo, unlisted, checks, out, failure, exit>>
VJudges ==
    \E d \in Documents(run.tool) \union {Gone}, valid \in BOOLEAN :
        /\ pc \in {"paths", "whole", "rewind"} /\ todo # <<>>
        /\ Head(todo) \notin Dirs /\ ~Excluded(Head(todo))
        /\ held' \in Documents(run.tool) \union {Gone}
        /\ run.tool.opens => held' # Gone
        /\ Judged(Head(todo), d, valid)
        /\ UNCHANGED <<run, disk, changes, at, unlisted>>
VReprints ==
    /\ pc = "reprint" /\ pc' = "paths"
    /\ \E d \in Documents(run.tool) : Printed(Head(todo), d, DOMAIN d.lines)
    /\ todo' = Tail(todo)
    /\ UNCHANGED <<run, disk, changes, at, held, unlisted, checks, failure, exit>>
VChanges ==
    /\ pc # "done"
    /\ disk' \in [Files \union {"-"} -> Documents(run.tool) \union {Gone}] /\ disk'["-"] = disk["-"]
    /\ \A f \in Files : disk[f] = Gone => disk'[f] = Gone
    /\ changes' \in 0..MaxChanges
    /\ UNCHANGED <<run, program>>

(* Documents are something, and their lines are a sequence.                  *)
LEMMA DocumentFacts ==
    ASSUME run \in Runs, NEW d \in Documents(run.tool)
    PROVE  d \in Document /\ d # Gone /\ DOMAIN d.lines \subseteq Nat \ {0}
<1>1. d \in Document
  BY DocumentsAssumption
<1>2. QED
  BY <1>1 DEF Document, Verdict, Gone

(* What is not there has no lines.                                           *)
LEMMA GoneHasNoLines == DOMAIN Gone.lines \subseteq Nat \ {0}
BY DEF Gone

(* A run that ends with 1, 2 or 3 has a reason to.                           *)
LEMMA EndStops ==
    ASSUME VTypeOK, NEW code, pc # "done", End(code), code \in {"1", "2", "3"},
           UNCHANGED <<run, disk, changes, at, todo, held, unlisted, checks, out, failure>>,
           code = "2" =>
             \/ \E s \in checks : ~s.valid
             \/ \E a \in Range(Args) : a = "missing" \/ (a = "-" /\ run.tool.stdin = "none")
             \/ \E f \in Files : disk[f] = Gone
             \/ run.tool = Multimedia /\ run.locked # {},
           code = "1" =>
             \/ run.tool \in Filters /\ \E a \in Range(Args) : a = "missing"
             \/ run.tool \in Filters /\ \E f \in Files : disk[f] = Gone
             \/ run.tool = YamlToJson /\ \E s \in checks : ~s.valid
             \/ held.whole = "raises"
             \/ \E p \in Files \union {"-"} : disk[p].whole = "raises"
             \/ ~run.seekable
    PROVE  VEnds
<1>1. Args' = Args
  BY SameRun
<1>2. FailureHasReason'
  BY <1>1 DEF FailureHasReason, End
<1>3. QED
  BY <1>2 DEF VEnds, End

(* The first look at an argument goes on, to the second loop, or ends.       *)
LEMMA CheckArgStep ==
    ASSUME VIInv, CheckArg
    PROVE  VEnds \/ VBegins
<1>1. VTypeOK /\ pc = "args" /\ pc # "done" /\ at \in Nat \ {0}
  BY DEF VIInv, VTypeOK, CheckArg
<1>2. /\ Args \in Seq(Paths \union {"missing"}) /\ Len(Args) \in Nat
      /\ DOMAIN Args = 1..Len(Args)
  BY <1>1, ArgsAreSeq DEF VTypeOK
<1>3. UNCHANGED <<run, disk, todo, held, checks, out, failure, unlisted, changes>>
  BY DEF CheckArg
<1>4. CASE run.args = <<>> /\ run.tool.stdin = "none"
  <2>1. End("3") /\ UNCHANGED at
    BY <1>4 DEF CheckArg
  <2>2. QED
    BY <1>1, <1>3, <2>1, EndStops
<1>5. CASE ~(run.args = <<>> /\ run.tool.stdin = "none") /\ at > Len(Args)
  BY <1>1, <1>3, <1>5 DEF CheckArg, Goto, VBegins
<1>6. CASE /\ ~(run.args = <<>> /\ run.tool.stdin = "none") /\ ~(at > Len(Args))
           /\ Repeated(at) \/ IsPath(Args[at])
  BY <1>1, <1>2, <1>3, <1>6 DEF CheckArg, Goto, VBegins
<1>7. CASE /\ ~(run.args = <<>> /\ run.tool.stdin = "none") /\ ~(at > Len(Args))
           /\ ~(Repeated(at) \/ IsPath(Args[at]))
  <2>1. UNCHANGED at /\ End(IF run.tool \in Filters THEN "1" ELSE "2")
    BY <1>7 DEF CheckArg
  <2>2. Args[at] \in Range(Args) /\ Args[at] \in Paths \union {"missing"}
    BY <1>1, <1>2, <1>7, ElementOfSeq DEF Range
  <2>3. \/ Args[at] = "missing" \/ (Args[at] = "-" /\ run.tool.stdin = "none")
        \/ \E f \in Files : disk[f] = Gone
    BY <1>7, <2>2 DEF IsPath, IsStdin, IsFile, Paths
  <2>4. run.tool \in Filters => run.tool.stdin # "none"
    BY <1>1, ToolFacts DEF VTypeOK
  <2>5. CASE run.tool \in Filters
    <3>1. End("1")
      BY <2>1, <2>5
    <3>2. QED
      BY <1>1, <1>3, <2>1, <2>2, <2>3, <2>4, <2>5, <3>1, EndStops
  <2>6. CASE run.tool \notin Filters
    <3>1. End("2")
      BY <2>1, <2>6
    <3>2. QED
      BY <1>1, <1>3, <2>1, <2>2, <2>3, <3>1, EndStops
  <2>7. QED
    BY <2>5, <2>6
<1>8. QED
  BY <1>4, <1>5, <1>6, <1>7

(* The second loop takes an argument, passes over it, or ends the run.       *)
LEMMA CheckPathStep ==
    ASSUME VIInv, CheckPath
    PROVE  VEnds \/ VEndsWell \/ VAdvances
<1>1. VTypeOK /\ pc = "paths" /\ todo = <<>> /\ pc # "done" /\ at \in Nat \ {0}
  BY DEF VIInv, VTypeOK, CheckPath
<1>2. /\ Args \in Seq(Paths \union {"missing"}) /\ Len(Args) \in Nat
      /\ DOMAIN Args = 1..Len(Args)
  BY <1>1, ArgsAreSeq DEF VTypeOK
<1>3. UNCHANGED <<run, disk, held, checks, out, failure, unlisted, changes>>
  BY DEF CheckPath
<1>4. CASE at > Len(Args)
  <2>1. End(ExitCode) /\ UNCHANGED <<at, todo>>
    BY <1>4 DEF CheckPath
  <2>2. CASE failure
    <3>1. End("2")
      BY <2>1, <2>2 DEF ExitCode
    <3>2. (\E s \in checks : ~s.valid) \/ (run.tool = Multimedia /\ run.locked # {})
      BY <2>2 DEF VIInv, FailedForReason
    <3>3. QED
      BY <1>1, <1>3, <2>1, <3>1, <3>2, EndStops
  <2>3. CASE ~failure
    <3>1. End("0")
      BY <2>1, <2>3 DEF ExitCode
    <3>2. QED
      BY <1>1, <1>3, <1>4, <2>1, <2>3, <3>1 DEF VEndsWell, End
  <2>4. QED
    BY <2>2, <2>3
<1> DEFINE passed == Repeated(at) \/ (run.tool = JsonBulk /\ Excluded(Args[at]))
<1>5. CASE ~(at > Len(Args)) /\ (passed \/ IsPath(Args[at]))
  <2>1. IsPath(Args[at]) => Args[at] \in Paths
    BY DEF IsPath, IsStdin, IsFile, Paths
  <2>2. at' = at + 1 /\ UNCHANGED <<pc, exit>>
    BY <1>1, <1>5 DEF CheckPath, Goto
  <2>3. \/ Repeated(at) /\ todo' = <<>>
        \/ Excluded(Args[at]) /\ todo' = <<>>
        \/ Args[at] \in Paths /\ todo' = <<Args[at]>>
    BY <1>1, <1>5, <2>1 DEF CheckPath
  <2>4. QED
    BY <1>1, <1>2, <1>3, <1>5, <2>2, <2>3 DEF VAdvances
<1>6. CASE ~(at > Len(Args)) /\ ~(passed \/ IsPath(Args[at]))
  <2>1. End("2") /\ UNCHANGED <<at, todo>>
    BY <1>6 DEF CheckPath
  <2>2. Args[at] \in Range(Args) /\ Args[at] \in Paths \union {"missing"}
    BY <1>1, <1>2, <1>6, ElementOfSeq DEF Range
  <2>3. \/ Args[at] = "missing" \/ (Args[at] = "-" /\ run.tool.stdin = "none")
        \/ \E f \in Files : disk[f] = Gone
    BY <1>6, <2>2 DEF IsPath, IsStdin, IsFile, Paths
  <2>4. QED
    BY <1>1, <1>3, <2>1, <2>2, <2>3, EndStops
<1>7. QED
  BY <1>4, <1>5, <1>6

(* A directory is entered or passed over.                                    *)
LEMMA WalkStep ==
    ASSUME VIInv, Walk
    PROVE  VWalks
<1> DEFINE d == Head(todo)
<1>1. /\ VTypeOK /\ pc = "paths" /\ todo # <<>> /\ d \in Dirs /\ Enter(d)
      /\ UNCHANGED <<run, disk, changes, at, held, checks, out>>
  BY DEF VIInv, Walk
<1>2. Entered(d) <=> ~(Excluded(d) \/ d \in run.locked)
  BY DEF Entered, Excluded
<1>3. CASE Entered(d)
  <2>1. PICK first \in SetToSeqs(Earlier(d)), rest \in SetToSeqs(Entries(d) \ Earlier(d)) :
          todo' = first \o rest \o Tail(todo)
    BY <1>1, <1>2, <1>3 DEF Enter
  <2>2. /\ first \o rest \in Seq(Paths) /\ Range(first \o rest) = Entries(d)
        /\ Removed(d) \subseteq {f \in Files : disk[f] = Gone}
    BY <1>1, EntriesAreAll
  <2>3. UNCHANGED <<pc, exit, failure>> /\ unlisted' = unlisted \union Removed(d)
    BY <1>1, <1>2, <1>3 DEF Enter, Goto
  <2>4. unlisted' \in SUBSET {f \in Files : disk[f] = Gone}
    BY <1>1, <2>2, <2>3 DEF VTypeOK
  <2>5. QED
    BY <1>1, <1>3, <2>1, <2>2, <2>3, <2>4 DEF VWalks
<1>4. CASE ~Entered(d)
  <2>1. /\ todo' = Tail(todo) /\ unlisted' = unlisted
        /\ failure' = (failure \/ ~run.tool.selects)
        /\ IF run.tool.selects \/ run.lenient THEN Goto("paths") ELSE End("2")
    BY <1>1, <1>2, <1>4 DEF Enter
  <2>2. UNCHANGED <<pc, exit>> \/ (~run.tool.selects /\ pc' = "done" /\ exit' = "2")
    BY <1>1, <2>1 DEF Goto, End
  <2>3. CASE run.tool.selects
    <3>1. failure' = failure
      BY <1>1, <2>1, <2>3, Zenon DEF VTypeOK
    <3>2. QED
      BY <1>1, <1>4, <2>1, <2>2, <2>3, <3>1 DEF VWalks
  <2>4. CASE ~run.tool.selects
    <3>1. failure' = TRUE
      BY <2>1, <2>4, Zenon
    <3>2. run.tool = Multimedia /\ run.excluded = {}
      BY <1>1, <2>4, ToolFacts DEF VTypeOK
    <3>3. run.locked # {}
      BY <1>4, <3>2 DEF Entered
    <3>4. QED
      BY <1>1, <1>4, <2>1, <2>2, <2>4, <3>1, <3>2, <3>3 DEF VWalks
  <2>5. QED
    BY <2>3, <2>4
<1>5. QED
  BY <1>3, <1>4

(* What a step that visits the file at hand finds.                           *)
LEMMA AtFile ==
    ASSUME VTypeOK, NEW p \in Files \union {"-"}, IsAt(p)
    PROVE  /\ pc = "paths" /\ todo # <<>> /\ p = Head(todo) /\ p \notin Dirs
           /\ disk[p] \in Documents(run.tool) \union {Gone}
           /\ disk[p] = Gone => p \in Files
           /\ disk[p] # Gone => disk[p] \in Documents(run.tool)
BY DEF VTypeOK, IsAt

(* A file that is gone ends the run.                                         *)
LEMMA CannotOpenStep ==
    ASSUME VIInv, NEW p \in Files \union {"-"}, CannotOpen(p)
    PROVE  VEnds
<1>1. VTypeOK /\ pc # "done" /\ p \in Files /\ disk[p] = Gone
  BY AtFile DEF VIInv, CannotOpen
<1>2. UNCHANGED <<run, disk, at, todo, held, checks, out, failure, unlisted, changes>>
  BY DEF CannotOpen
<1>3. CASE run.tool \in Filters
  <2>1. End("1")
    BY <1>3 DEF CannotOpen
  <2>2. QED
    BY <1>1, <1>2, <1>3, <2>1, EndStops
<1>4. CASE run.tool \notin Filters
  <2>1. End("2")
    BY <1>4 DEF CannotOpen
  <2>2. QED
    BY <1>1, <1>2, <2>1, EndStops
<1>5. QED
  BY <1>3, <1>4

(* So does an exception.                                                     *)
LEMMA RaisesStep ==
    ASSUME VIInv, NEW p \in Files \union {"-"}, Raises(p)
    PROVE  VEnds
<1>1. VTypeOK /\ pc # "done" /\ disk[p].whole = "raises" /\ End("1")
  BY AtFile DEF VIInv, Raises, Opened
<1>2. UNCHANGED <<run, disk, at, todo, held, checks, out, failure, unlisted, changes>>
  BY DEF Raises
<1>3. QED
  BY <1>1, <1>2, EndStops

(* The checks of a file or of standard input.                                *)
LEMMA OpenedJudges ==
    ASSUME VTypeOK, NEW p \in Files \union {"-"}, Opened(p), NEW valid \in BOOLEAN,
           held' = disk[p], Judged(p, disk[p], valid), UNCHANGED <<run, disk, at, unlisted, changes>>
    PROVE  VJudges
<1>1. /\ pc = "paths" /\ todo # <<>> /\ p = Head(todo) /\ p \notin Dirs
      /\ disk[p] \in Documents(run.tool) \union {Gone}
      /\ ~Excluded(p) /\ (run.tool.opens => disk[p] # Gone)
  BY AtFile DEF Opened
<1>2. QED
  BY <1>1 DEF VJudges

(* A file that is to be read once more is there.                             *)
LEMMA OpenedReads ==
    ASSUME VTypeOK, NEW p \in Files \union {"-"}, Opened(p), p # "-",
           run.tool \in {Json, JsonBulk}, held' = disk[p], Goto("whole") \/ Goto("rewind"),
           UNCHANGED <<run, disk, at, todo, checks, out, failure, unlisted, changes>>
    PROVE  VReads
<1>1. run.tool.opens
  BY ToolFacts DEF VTypeOK
<1>2. /\ pc = "paths" /\ todo # <<>> /\ p = Head(todo) /\ p \notin Dirs
      /\ ~Excluded(p) /\ disk[p] \in Documents(run.tool)
  BY <1>1, AtFile DEF Opened
<1>3. QED
  BY <1>2 DEF VReads, Goto

(* Every check gives a verdict or asks for a second reading.                 *)
LEMMA CheckStep ==
    ASSUME VIInv, NEW p \in Files \union {"-"},
           CheckFile(p) \/ CheckJson(p) \/ CheckBulk(p) \/ OutOfMemory(p)
    PROVE  VJudges \/ VReads
<1>1. VTypeOK
  BY DEF VIInv
<1>2. CASE CheckFile(p)
  <2> DEFINE valid == disk[p].whole = "ok"
  <2>1. /\ Opened(p) /\ held' = disk[p] /\ Judged(p, disk[p], valid)
        /\ UNCHANGED <<run, disk, at, unlisted, changes>>
    BY <1>2 DEF CheckFile
  <2>2. valid \in BOOLEAN
    OBVIOUS
  <2> HIDE DEF valid
  <2>3. QED
    BY <1>1, <2>1, <2>2, OpenedJudges
<1>3. CASE CheckJson(p)
  <2>1. /\ Opened(p) /\ held' = disk[p] /\ run.tool \in {Json, JsonBulk}
        /\ UNCHANGED <<run, disk, at, unlisted, changes>>
    BY <1>3 DEF CheckJson
  <2>2. CASE run.multi
    <3> DEFINE valid == AllLines(disk[p])
    <3>1. Judged(p, disk[p], valid)
      BY <1>3, <2>2 DEF CheckJson
    <3>2. valid \in BOOLEAN
      BY DEF AllLines
    <3> HIDE DEF valid
    <3>3. QED
      BY <1>1, <2>1, <3>1, <3>2, OpenedJudges
  <2>3. CASE ~run.multi /\ Accepts(disk[p].whole)
    <3>1. Judged(p, disk[p], TRUE)
      BY <1>3, <2>3 DEF CheckJson
    <3>2. QED
      BY <1>1, <2>1, <3>1, OpenedJudges
  <2>4. CASE ~run.multi /\ ~Accepts(disk[p].whole) /\ ~CanRewind(p)
    <3>1. Judged(p, disk[p], FALSE)
      BY <1>3, <2>4 DEF CheckJson
    <3>2. QED
      BY <1>1, <2>1, <3>1, OpenedJudges
  <2>5. CASE ~run.multi /\ ~Accepts(disk[p].whole) /\ CanRewind(p)
    <3>1. Goto("rewind") /\ UNCHANGED <<todo, checks, out, failure>> /\ p # "-"
      BY <1>3, <2>5 DEF CheckJson, CanRewind
    <3>2. QED
      BY <1>1, <2>1, <3>1, OpenedReads
  <2>6. QED
    BY <2>2, <2>3, <2>4, <2>5
<1>4. CASE CheckBulk(p)
  <2> DEFINE probed == \E k \in DOMAIN disk[p].lines : k < 10 /\ disk[p].lines[k] # "bad"
             valid == Accepts(disk[p].whole)
  <2>1. /\ Opened(p) /\ held' = disk[p] /\ run.tool \in {Json, JsonBulk}
        /\ UNCHANGED <<run, disk, at, unlisted, changes>>
        /\ IF ~CanRewind(p) THEN Judged(p, disk[p], valid)
           ELSE /\ Goto(IF probed THEN "rewind" ELSE "whole")
                /\ UNCHANGED <<todo, checks, out, failure>>
    BY <1>4 DEF CheckBulk
  <2>2. valid \in BOOLEAN
    BY DEF Accepts
  <2> HIDE DEF valid, probed
  <2>3. CASE CanRewind(p)
    <3>1. p # "-" /\ (Goto("whole") \/ Goto("rewind"))
      BY <2>1, <2>3 DEF CanRewind
    <3>2. QED
      BY <1>1, <2>1, <2>3, <3>1, OpenedReads
  <2>4. CASE ~CanRewind(p)
    BY <1>1, <2>1, <2>2, <2>4, OpenedJudges
  <2>5. QED
    BY <2>3, <2>4
<1>5. CASE OutOfMemory(p)
  <2>1. Goto("rewind") /\ UNCHANGED <<run, disk, at, todo, checks, out, failure, unlisted, changes>>
    BY <1>5 DEF OutOfMemory
  <2>2. CASE Opened(p) /\ run.tool = Json /\ p # "-" /\ held' = disk[p]
    BY <1>1, <2>1, <2>2, OpenedReads
  <2>3. CASE pc = "whole" /\ UNCHANGED held
    <3>1. /\ todo # <<>> /\ Head(todo) \notin Dirs \union {"-"} /\ run.tool \in {Json, JsonBulk}
          /\ held \in Documents(run.tool) /\ ~Excluded(Head(todo))
      BY <1>1, <2>3 DEF VTypeOK, Rereading, VIInv, NotExcluded
    <3>2. QED
      BY <2>1, <2>3, <3>1 DEF VReads, Goto
  <2>4. QED
    BY <1>5, <2>2, <2>3 DEF OutOfMemory
<1>6. QED
  BY <1>2, <1>3, <1>4, <1>5

(* The second reading finds a document.                                      *)
LEMMA AgainIsDocument ==
    ASSUME VTypeOK, Rereading
    PROVE  /\ Head(todo) \in Files \union {"-"} /\ todo # <<>> /\ Head(todo) \notin Dirs
           /\ Again \in Documents(run.tool) /\ held \in Documents(run.tool)
<1>1. /\ todo \in Seq(Paths) /\ todo # <<>> /\ Head(todo) \notin Dirs
      /\ held \in Documents(run.tool)
  BY DEF VTypeOK, Paths
<1>2. Head(todo) \in Files \union {"-"}
  BY <1>1, HeadTailProperties DEF Paths
<1>3. disk[Head(todo)] \in Documents(run.tool) \union {Gone}
  BY <1>2 DEF VTypeOK
<1>4. QED
  BY <1>1, <1>2, <1>3 DEF Again

(* What raises at the second reading raises as it was read, or is there.     *)
LEMMA RaisedAgain ==
    ASSUME VTypeOK, Rereading, Again.whole = "raises"
    PROVE  held.whole = "raises" \/ \E p \in Files \union {"-"} : disk[p].whole = "raises"
BY AgainIsDocument DEF Again

(* The second reading gives a verdict, or ends the run.                      *)
LEMMA RewindStep ==
    ASSUME VIInv, ReadWhole \/ RewindCheckMultirecord
    PROVE  VEnds \/ VJudges
<1> DEFINE valid == IF pc = "whole" THEN Accepts(Again.whole) ELSE AllLines(Again)
<1>1. /\ VTypeOK /\ pc \in {"whole", "rewind"} /\ Rereading /\ ~Excluded(Head(todo))
      /\ UNCHANGED <<run, disk, at, held, unlisted, changes>>
      /\ IF Again.whole = "raises"
         THEN End("1") /\ UNCHANGED <<todo, checks, out, failure>>
         ELSE Judged(Head(todo), Again, valid)
  BY DEF VIInv, NotExcluded, Rereading, ReadWhole, RewindCheckMultirecord
<1>2. valid \in BOOLEAN
  BY DEF Accepts, AllLines
<1> HIDE DEF valid
<1>3. CASE Again.whole = "raises"
  BY <1>1, <1>3, EndStops, RaisedAgain
<1>4. CASE Again.whole # "raises"
  <2>1. held # Gone
    BY <1>1 DEF VTypeOK
  <2>2. QED
    BY <1>1, <1>2, <1>4, <2>1, AgainIsDocument DEF VJudges
<1>5. QED
  BY <1>3, <1>4

(* What is printed from the file is printed, or ends the run.                *)
LEMMA ReprintStep ==
    ASSUME VIInv, Reprint
    PROVE  VEnds \/ VReprints
<1>1. /\ VTypeOK /\ pc = "reprint" /\ Rereading
      /\ UNCHANGED <<run, disk, at, held, checks, failure, unlisted, changes>>
  BY DEF VIInv, Reprint, Rereading
<1>2. CASE Printed(Head(todo), Again, DOMAIN Again.lines) /\ todo' = Tail(todo) /\ Goto("paths")
  BY <1>1, <1>2, AgainIsDocument DEF VReprints, Goto
<1>3. CASE /\ (Head(todo) = "-" /\ ~run.seekable) \/ Again.whole = "raises"
           /\ End("1") /\ UNCHANGED <<out, todo>>
  <2>1. ~run.seekable \/ held.whole = "raises" \/ \E p \in Files \union {"-"} : disk[p].whole = "raises"
    BY <1>1, <1>3, RaisedAgain
  <2>2. QED
    BY <1>1, <1>3, <2>1, EndStops
<1>4. QED
  BY <1>2, <1>3 DEF Reprint

(* Every step goes one of these ways.                                        *)
LEMMA VSteps ==
    ASSUME VIInv, [VNext]_VVars
    PROVE  \/ VEnds \/ VEndsWell \/ VBegins \/ VAdvances \/ VWalks \/ VPasses
           \/ VReads \/ VJudges \/ VReprints \/ VChanges \/ UNCHANGED VVars
<1>1. CASE CheckArg
  BY <1>1, CheckArgStep
<1>2. CASE CheckPath
  BY <1>2, CheckPathStep
<1>3. CASE Walk
  BY <1>3, WalkStep
<1>4. ASSUME NEW p \in Files \union {"-"},
             \/ SkipFile(p) \/ CannotOpen(p) \/ Raises(p) \/ CheckFile(p) \/ CheckJson(p)
             \/ CheckBulk(p) \/ OutOfMemory(p)
      PROVE  VEnds \/ VPasses \/ VReads \/ VJudges
  <2>1. CASE SkipFile(p)
    BY <2>1, AtFile DEF SkipFile, VPasses, VIInv
  <2>2. CASE CannotOpen(p)
    BY <2>2, CannotOpenStep
  <2>3. CASE Raises(p)
    BY <2>3, RaisesStep
  <2>4. CASE CheckFile(p) \/ CheckJson(p) \/ CheckBulk(p) \/ OutOfMemory(p)
    BY <2>4, CheckStep
  <2>5. QED
    BY <1>4, <2>1, <2>2, <2>3, <2>4
<1>5. CASE ReadWhole \/ RewindCheckMultirecord
  BY <1>5, RewindStep
<1>6. CASE Reprint
  BY <1>6, ReprintStep
<1>7. CASE Change
  <2>1. PICK f \in Files, d \in Documents(run.tool) \union {Gone} :
          disk[f] # Gone /\ disk' = [disk EXCEPT ![f] = d]
    BY <1>7 DEF Change
  <2>2. disk \in [Files \union {"-"} -> Documents(run.tool) \union {Gone}] /\ changes \in 0..MaxChanges
    BY DEF VIInv, VTypeOK
  <2>3. f # "-"
    BY PathsAssumption
  <2>4. /\ disk' \in [Files \union {"-"} -> Documents(run.tool) \union {Gone}]
        /\ disk'["-"] = disk["-"] /\ \A g \in Files : disk[g] = Gone => disk'[g] = Gone
    BY <2>1, <2>2, <2>3
  <2>5. changes' \in 0..MaxChanges
    BY <1>7, <2>2, BoundAssumption DEF Change
  <2>6. QED
    BY <1>7, <2>4, <2>5 DEF Change, VChanges
<1>8. QED
  BY <1>1, <1>2, <1>3, <1>4, <1>5, <1>6, <1>7 DEF VNext

(* What a verdict changes.                                                   *)
LEMMA JudgedFacts ==
    ASSUME VTypeOK, NEW d, NEW valid \in BOOLEAN, DOMAIN d.lines \subseteq Nat \ {0},
           pc \in {"paths", "whole", "rewind"}, Judged(Head(todo), d, valid)
    PROVE  /\ checks' = checks \union {[path |-> Head(todo), doc |-> d, valid |-> valid]}
           /\ pc' \in {"paths", "reprint", "done"}
           /\ pc' = "done" => exit' = Invalid /\ ~valid
           /\ pc' # "done" => exit' = exit
           /\ pc' = "reprint" => /\ UNCHANGED <<todo, out, failure>>
                                 /\ valid /\ run.tool.prints = "reread"
           /\ pc' # "reprint" => todo' = Tail(todo)
           /\ failure' \in BOOLEAN /\ (failure => failure') /\ (failure' => failure \/ ~valid)
           /\ ~failure' => valid \/ (Head(todo) = "-" /\ run.tool.stdin = "ignored")
           /\ \/ out' = out
              \/ \E o : /\ out' = out \union {o} /\ o.path = Head(todo) /\ o.doc = d
                        /\ \/ valid /\ run.tool.prints \in {"content", "records"}
                           \/ run.tool.prints = "records" /\ \A k \in o.lines : Accepts(d.lines[k])
           /\ (Shows /\ valid /\ run.tool.prints # "never") =>
                 pc' = "reprint" \/ \E o \in out' : o.path = Head(todo)
<1> DEFINE p == Head(todo)
           reprint == run.lenient /\ run.tool.prints = "reread" /\ valid
           ignored == p = "-" /\ run.tool.stdin = "ignored"
           onward == valid \/ (run.tool.carriesOn /\ run.lenient) \/ ignored
<1>1. checks' = checks \union {[path |-> p, doc |-> d, valid |-> valid]} /\ failure \in BOOLEAN
  BY DEF Judged, VTypeOK
<1>2. /\ run.tool.prints \in {"never", "content", "records", "reread"}
      /\ run.tool \in Filters \union {JsonBulk} => run.tool.prints \in {"content", "records"}
      /\ ByLine => run.tool.prints = "records"
  BY ToolFacts DEF VTypeOK, ByLine
<1>3. CASE reprint
  <2>1. Goto("reprint") /\ UNCHANGED <<todo, failure, out>>
    BY <1>3 DEF Judged
  <2>2. QED
    BY <1>1, <1>3, <2>1 DEF Goto
<1>4. CASE ~reprint
  <2>1. /\ todo' = Tail(todo)
        /\ failure' = (failure \/ ~(valid \/ ignored))
        /\ IF onward THEN Goto("paths") ELSE End(Invalid)
        /\ IF Shows /\ valid /\ run.tool.prints \in {"content", "records"}
           THEN Printed(p, d, DOMAIN d.lines)
           ELSE IF Shows /\ ByLine /\ LeadingLines(d) # {}
           THEN Printed(p, d, LeadingLines(d))
           ELSE UNCHANGED out
    BY <1>4 DEF Judged
  <2>2. /\ failure' \in BOOLEAN /\ (failure => failure') /\ (failure' => failure \/ ~valid)
        /\ ~failure' => valid \/ ignored
    BY <2>1
  <2>3. \/ pc' = "paths" /\ exit' = exit
        \/ pc' = "done" /\ exit' = Invalid /\ ~valid
    BY <2>1 DEF Goto, End
  <2>4. \A k \in LeadingLines(d) : Accepts(d.lines[k])
    BY DEF LeadingLines
  <2>5. CASE Shows /\ valid /\ run.tool.prints \in {"content", "records"}
    <3> DEFINE o == [path |-> p, doc |-> d, lines |-> DOMAIN d.lines]
    <3>1. out' = out \union {o} /\ o.path = p /\ o.doc = d
      BY <2>1, <2>5 DEF Printed
    <3>2. QED
      BY <1>1, <2>1, <2>2, <2>3, <2>5, <3>1
  <2>6. CASE /\ ~(Shows /\ valid /\ run.tool.prints \in {"content", "records"})
             /\ Shows /\ ByLine /\ LeadingLines(d) # {}
    <3> DEFINE o == [path |-> p, doc |-> d, lines |-> LeadingLines(d)]
    <3>1. out' = out \union {o} /\ o.path = p /\ o.doc = d /\ o.lines = LeadingLines(d)
      BY <2>1, <2>6 DEF Printed
    <3>2. QED
      BY <1>1, <1>2, <2>1, <2>2, <2>3, <2>4, <2>6, <3>1
  <2>7. CASE /\ ~(Shows /\ valid /\ run.tool.prints \in {"content", "records"})
             /\ ~(Shows /\ ByLine /\ LeadingLines(d) # {})
    <3>1. out' = out
      BY <2>1, <2>7
    <3>2. ~(Shows /\ valid /\ run.tool.prints # "never")
      BY <1>2, <1>4, <2>7 DEF Shows
    <3>3. QED
      BY <1>1, <2>1, <2>2, <2>3, <3>1, <3>2
  <2>8. QED
    BY <2>5, <2>6, <2>7
<1>5. QED
  BY <1>3, <1>4

(* A verdict is one on a document, or on nothing.                            *)
LEMMA JudgesFacts ==
    ASSUME VTypeOK, VJudges
    PROVE  \E d \in Documents(run.tool) \union {Gone}, valid \in BOOLEAN :
              DOMAIN d.lines \subseteq Nat \ {0} /\ Judged(Head(todo), d, valid)
<1>1. PICK d \in Documents(run.tool) \union {Gone}, valid \in BOOLEAN : Judged(Head(todo), d, valid)
  BY DEF VJudges
<1>2. DOMAIN d.lines \subseteq Nat \ {0}
  BY DocumentFacts, GoneHasNoLines DEF VTypeOK
<1>3. QED
  BY <1>1, <1>2, Zenon

(* What is at hand and what comes after it.                                  *)
LEMMA AheadUnfolds ==
    ASSUME VTypeOK, todo # <<>>
    PROVE  /\ Head(todo) \in Paths /\ Tail(todo) \in Seq(Paths) /\ todo \in Seq(Paths)
           /\ Ahead = StandsFor(Head(todo)) \union UNION {StandsFor(p) : p \in Range(Tail(todo))}
           /\ Head(todo) \notin Dirs => StandsFor(Head(todo)) = {Head(todo)}
<1>1. todo \in Seq(Paths)
  BY DEF VTypeOK, Paths
<1>2. /\ Head(todo) \in Paths /\ Tail(todo) \in Seq(Paths)
      /\ Range(todo) = {Head(todo)} \union Range(Tail(todo))
  BY <1>1, FirstAndRest
<1>3. Ahead = StandsFor(Head(todo)) \union UNION {StandsFor(p) : p \in Range(Tail(todo))}
  BY <1>2 DEF Ahead
<1>4. QED
  BY <1>1, <1>2, <1>3 DEF StandsFor

(* Every step keeps the types.                                               *)
LEMMA VTypeStep ==
    ASSUME VIInv, [VNext]_VVars
    PROVE  VTypeOK'
<1> USE DEF Paths
<1>1. VTypeOK /\ VIInv
  BY DEF VIInv
<1>2. at \in Nat \ {0} /\ Len(Args) \in Nat
  BY <1>1, ArgsAreSeq DEF VTypeOK
<1>3. CASE VEnds
  BY <1>1, <1>3, SameRun DEF VEnds, VTypeOK, Rereading
<1>4. CASE VEndsWell
  BY <1>1, <1>4, SameRun DEF VEndsWell, VTypeOK, Rereading
<1>5. CASE VBegins
  BY <1>1, <1>2, <1>5, SameRun DEF VBegins, VTypeOK, Rereading
<1>6. CASE VAdvances
  <2>1. Args' = Args /\ at' \in 1..(Len(Args) + 1)
    BY <1>2, <1>6, SameRun DEF VAdvances
  <2>2. todo' \in Seq(Paths)
    <3>1. <<>> \in Seq(Paths) /\ (Args[at] \in Paths => <<Args[at]>> \in Seq(Paths))
      OBVIOUS
    <3>2. QED
      BY <1>6, <3>1 DEF VAdvances
  <2>3. QED
    BY <1>1, <1>6, <2>1, <2>2 DEF VAdvances, VTypeOK, Rereading
<1>7. CASE VWalks
  <2>1. /\ UNCHANGED <<run, disk, changes, at, held>> /\ pc = "paths"
        /\ failure' \in BOOLEAN
        /\ UNCHANGED <<pc, exit>> \/ (pc' = "done" /\ exit' = "2")
        /\ unlisted' \in SUBSET {f \in Files : disk[f] = Gone}
    BY <1>1, <1>7 DEF VWalks, VTypeOK
  <2>2. todo' \in Seq(Paths)
    <3>1. todo # <<>> /\ Tail(todo) \in Seq(Paths)
      BY <1>1, <1>7, AheadUnfolds DEF VWalks
    <3>2. todo' = Tail(todo) \/ \E s \in Seq(Paths) : todo' = s \o Tail(todo)
      BY <1>7 DEF VWalks
    <3>3. QED
      BY <3>1, <3>2, ConcatProperties
  <2>3. Args' = Args
    BY <2>1, SameRun
  <2>4. QED
    BY <1>1, <2>1, <2>2, <2>3 DEF VTypeOK, Rereading
<1>8. CASE VPasses
  <2>1. todo' \in Seq(Paths)
    BY <1>1, <1>8, AheadUnfolds DEF VPasses
  <2>2. QED
    BY <1>1, <1>8, <2>1, SameRun DEF VPasses, VTypeOK, Rereading
<1>9. CASE VReads
  <2>1. held' # Gone
    BY <1>1, <1>9, DocumentFacts DEF VReads, VTypeOK
  <2>2. QED
    BY <1>1, <1>9, <2>1, SameRun DEF VReads, VTypeOK, Rereading
<1>10. CASE VJudges
  <2>1. PICK d \in Documents(run.tool) \union {Gone}, valid \in BOOLEAN : DOMAIN d.lines \subseteq Nat \ {0} /\ Judged(Head(todo), d, valid)
    BY <1>1, <1>10, JudgesFacts
  <2>2. /\ UNCHANGED <<run, disk, changes, at, unlisted>> /\ pc \in {"paths", "whole", "rewind"}
        /\ held' \in Documents(run.tool) \union {Gone} /\ (run.tool.opens => held' # Gone)
        /\ todo # <<>> /\ Head(todo) \notin Dirs
    BY <1>10 DEF VJudges
  <2>3. /\ pc' \in {"paths", "reprint", "done"} /\ failure' \in BOOLEAN
        /\ pc' = "done" => exit' = Invalid
        /\ pc' # "done" => exit' = exit
        /\ pc' = "reprint" => todo' = todo /\ run.tool.prints = "reread"
        /\ pc' # "reprint" => todo' = Tail(todo)
    BY <1>1, <2>1, <2>2, JudgedFacts
  <2>4. Invalid \in {"1", "2"} /\ (run.tool.prints = "reread" => run.tool.opens)
    BY <1>1, ToolFacts DEF VTypeOK, Invalid
  <2>5. todo' \in Seq(Paths)
    BY <1>1, <2>2, <2>3, AheadUnfolds
  <2>6. Args' = Args
    BY <2>2, SameRun
  <2>7. QED
    BY <1>1, <2>2, <2>3, <2>4, <2>5, <2>6 DEF VTypeOK, Rereading
<1>11. CASE VReprints
  <2>1. todo' \in Seq(Paths)
    BY <1>1, <1>11, AheadUnfolds DEF VReprints, VTypeOK, Rereading
  <2>2. QED
    BY <1>1, <1>11, <2>1, SameRun DEF VReprints, VTypeOK, Rereading
<1>12. CASE VChanges
  <2>1. Args' = Args
    BY <1>12, SameRun DEF VChanges
  <2>2. QED
    BY <1>1, <1>12, <2>1 DEF VChanges, VTypeOK, Rereading, program
<1>13. CASE UNCHANGED VVars
  <2>1. Args' = Args
    BY <1>13, SameRun DEF VVars
  <2>2. QED
    BY <1>1, <1>13, <2>1 DEF VVars, program, VTypeOK, Rereading
<1>14. QED
  BY <1>1, <1>3, <1>4, <1>5, <1>6, <1>7, <1>8, <1>9, <1>10, <1>11, <1>12, <1>13, VSteps

(* Whatever is entered, passed over, checked or printed: nothing is to come  *)
(* that was not, and what was checked, was gone or is to come is still one   *)
(* of these, but for what is excluded; so is what is next or was checked.    *)
LEMMA Balance ==
    ASSUME VIInv, VWalks \/ VPasses \/ VJudges \/ VReprints
    PROVE  /\ UNCHANGED <<run, at>> /\ (pc = "paths" \/ Rereading)
           /\ Ahead' \subseteq Ahead
           /\ (SeenPaths \union Ahead \union unlisted) \ run.excluded
                \subseteq (SeenPaths \union Ahead \union unlisted)'
           /\ SeenPaths' \subseteq SeenPaths \union (Ahead \ run.excluded)
           /\ (SeenPaths \union Range(todo)) \ (run.excluded \union Dirs)
                \subseteq (SeenPaths \union Range(todo))'
<1> DEFINE h == Head(todo)
           Rest == UNION {StandsFor(p) : p \in Range(Tail(todo))}
<1>1. VTypeOK
  BY DEF VIInv
<1>2. run' = run /\ at' = at /\ todo # <<>> /\ (pc = "paths" \/ Rereading)
  BY <1>1 DEF VWalks, VPasses, VJudges, VReprints, VTypeOK, Rereading
<1>3. \A p : StandsFor(p)' = StandsFor(p)
  BY <1>2, SameRun
<1>4. /\ h \in Paths /\ Tail(todo) \in Seq(Paths) /\ todo \in Seq(Paths)
      /\ Ahead = StandsFor(h) \union Rest
      /\ h \notin Dirs => StandsFor(h) = {h}
      /\ Range(todo) = {h} \union Range(Tail(todo))
  BY <1>1, <1>2, AheadUnfolds, FirstAndRest
<1>5. ASSUME todo' = todo PROVE Ahead' = Ahead
  BY <1>3, <1>5 DEF Ahead
<1>6. ASSUME todo' = Tail(todo) PROVE Ahead' = Rest
  BY <1>3, <1>6 DEF Ahead
<1>7. ASSUME checks' = checks PROVE SeenPaths' = SeenPaths
  BY <1>7 DEF SeenPaths
<1> HIDE DEF Rest
<1>8. CASE VWalks
  <2>1. h \in Dirs /\ SeenPaths' = SeenPaths
    BY <1>7, <1>8 DEF VWalks
  <2>2. CASE Entered(h)
    <3> DEFINE entries == Tree[h] \intersect (Suffixed \union Dirs)
    <3>1. PICK s \in Seq(Paths) : Range(s) = Entries(h) /\ todo' = s \o Tail(todo)
      BY <1>8, <2>2 DEF VWalks
    <3>2. Range(todo') = Entries(h) \union Range(Tail(todo))
      <4>1. s \in Seq(Paths) /\ Tail(todo) \in Seq(Paths)
        BY <1>4
      <4>2. Range(s \o Tail(todo)) = Range(s) \union Range(Tail(todo))
        BY <4>1, JoinedPaths, Zenon
      <4>3. QED
        BY <3>1, <4>2, Zenon
    <3>3. StandsFor(h) = UNION {StandsFor(x) : x \in entries}
      BY <2>1, <2>2, StandsForUnfolds
    <3>4. Entries(h) = entries \ Removed(h) /\ unlisted' = unlisted \union Removed(h)
      BY <1>8, <2>2 DEF Entries, VWalks
    <3>5. ASSUME NEW x \in Removed(h) PROVE StandsFor(x) = {x}
      BY <2>1, TreeAssumption, PathsAssumption DEF Removed, StandsFor
    <3>6. ASSUME NEW y PROVE y \in Ahead' <=> \E p \in Range(todo') : y \in StandsFor(p)
      BY <1>3 DEF Ahead
    <3>7. ASSUME NEW y PROVE y \in Rest <=> \E p \in Range(Tail(todo)) : y \in StandsFor(p)
      BY DEF Rest
    <3>8. ASSUME NEW y PROVE y \in StandsFor(h) <=> \E p \in entries : y \in StandsFor(p)
      BY <3>3
    <3> HIDE DEF entries
    <3>9. ASSUME NEW y \in Ahead' PROVE y \in Ahead
      BY <1>4, <3>2, <3>4, <3>6, <3>7, <3>8
    <3>10. ASSUME NEW y \in Ahead PROVE y \in Ahead' \union unlisted'
      <4>1. y \in Rest \/ \E p \in entries : y \in StandsFor(p)
        BY <1>4, <3>8
      <4>2. ASSUME NEW p \in entries, y \in StandsFor(p) PROVE y \in Ahead' \union unlisted'
        BY <3>2, <3>4, <3>5, <3>6, <4>2
      <4>3. QED
        BY <3>2, <3>6, <3>7, <4>1, <4>2
    <3>11. QED
      BY <1>2, <1>4, <2>1, <3>2, <3>4, <3>9, <3>10
  <2>3. CASE ~Entered(h)
    <3>1. StandsFor(h) = {} /\ todo' = Tail(todo) /\ unlisted' = unlisted
      BY <1>8, <2>1, <2>3, StandsForUnfolds DEF VWalks
    <3>2. Ahead' = Ahead
      BY <1>4, <1>6, <3>1
    <3>3. QED
      BY <1>2, <1>4, <2>1, <3>1, <3>2
  <2>4. QED
    BY <2>2, <2>3
<1>9. CASE VPasses
  <2>1. /\ h \notin Dirs /\ h \in run.excluded /\ Ahead' = Rest /\ SeenPaths' = SeenPaths
        /\ unlisted' = unlisted /\ todo' = Tail(todo)
    BY <1>6, <1>7, <1>9 DEF VPasses, Excluded
  <2>2. QED
    BY <1>2, <1>4, <2>1
<1>10. CASE VJudges
  <2>1. PICK d \in Documents(run.tool) \union {Gone}, valid \in BOOLEAN :
          DOMAIN d.lines \subseteq Nat \ {0} /\ Judged(Head(todo), d, valid)
    BY <1>1, <1>10, JudgesFacts
  <2>2. /\ h \notin Dirs /\ h \notin run.excluded /\ pc \in {"paths", "whole", "rewind"}
        /\ unlisted' = unlisted
    BY <1>10 DEF VJudges, Excluded
  <2> DEFINE c == [path |-> h, doc |-> d, valid |-> valid]
  <2>3. checks' = checks \union {c} /\ c.path = h /\ (todo' = todo \/ todo' = Tail(todo))
    BY <1>1, <2>1, <2>2, JudgedFacts
  <2> HIDE DEF c
  <2>4. SeenPaths' = SeenPaths \union {h}
    BY <2>3 DEF SeenPaths
  <2>5. \/ Ahead' = Ahead /\ Range(todo') = Range(todo)
        \/ Ahead' = Rest /\ Range(todo') = Range(Tail(todo))
    BY <1>5, <1>6, <2>3
  <2>6. QED
    BY <1>2, <1>4, <2>2, <2>4, <2>5
<1>11. CASE VReprints
  <2>1. /\ h \notin Dirs /\ Ahead' = Rest /\ SeenPaths' = SeenPaths
        /\ unlisted' = unlisted /\ todo' = Tail(todo)
    BY <1>1, <1>6, <1>7, <1>11 DEF VReprints, VTypeOK, Rereading
  <2>2. h \in SeenPaths
    BY <1>11 DEF VIInv, Reprinted, VReprints, SeenPaths
  <2>3. QED
    BY <1>2, <1>4, <2>1, <2>2
<1>12. QED
  BY <1>8, <1>9, <1>10, <1>11

(* A step that leaves the checks and what is to do alone.                    *)
LEMMA VRests ==
    ASSUME VIInv, VEnds \/ VEndsWell \/ VBegins \/ VReads \/ VChanges \/ UNCHANGED VVars
    PROVE  /\ UNCHANGED <<run, todo, unlisted, checks, out, failure>>
           /\ SeenPaths' = SeenPaths /\ Ahead' = Ahead /\ Wanted' = Wanted /\ Args' = Args
<1>1. UNCHANGED <<run, todo, unlisted, checks, out, failure>>
  BY DEF VEnds, VEndsWell, VBegins, VReads, VChanges, VVars, program
<1>2. QED
  BY <1>1, SameRun DEF SeenPaths, Ahead

(* The next argument is one that was asked for.                              *)
LEMMA NextArg ==
    ASSUME VIInv, VAdvances
    PROVE  /\ run' = run /\ SeenPaths' = SeenPaths /\ Ahead = {} /\ pc' = pc /\ exit' = exit
           /\ unlisted' = unlisted /\ Range(todo) = {}
           /\ at \in 1..Len(Args) /\ at' = at + 1
           /\ \/ Ahead' = {} /\ (Repeated(at) \/ Excluded(Args[at]))
              \/ /\ Ahead' = StandsFor(Args[at]) /\ StandsFor(Args[at]) \ run.excluded \subseteq Wanted
                 /\ Range(todo') = {Args[at]}
<1>1. /\ VTypeOK /\ run' = run /\ checks' = checks /\ unlisted' = unlisted /\ pc' = pc /\ exit' = exit
      /\ todo = <<>> /\ at' = at + 1 /\ at <= Len(Args)
  BY DEF VIInv, VAdvances
<1>2. at \in 1..Len(Args) /\ Args[at] \in Range(Args)
  BY <1>1, ArgsAreSeq DEF VTypeOK, Range
<1>3. \A p : StandsFor(p)' = StandsFor(p)
  BY <1>1, SameRun
<1>4. Range(<<>>) = {} /\ Range(<<Args[at]>>) = {Args[at]}
  BY DEF Range
<1>5. Ahead = {}
  BY <1>1, <1>4 DEF Ahead
<1>6. CASE (Repeated(at) \/ Excluded(Args[at])) /\ todo' = <<>>
  BY <1>1, <1>2, <1>4, <1>5, <1>6 DEF Ahead, SeenPaths
<1>7. CASE Args[at] \in Paths /\ todo' = <<Args[at]>>
  <2>1. Ahead' = StandsFor(Args[at])
    BY <1>3, <1>4, <1>7 DEF Ahead
  <2>2. StandsFor(Args[at]) \ run.excluded \subseteq Wanted
    <3>1. Args[at] \in Range(Args) \intersect (Files \union Dirs \union {"-"})
      BY <1>2, <1>7 DEF Paths
    <3>2. ASSUME NEW y \in StandsFor(Args[at]), y \notin run.excluded PROVE y \in Wanted
      BY <3>1, <3>2, Zenon DEF Wanted
    <3>3. QED
      BY <3>2
  <2>3. QED
    BY <1>1, <1>2, <1>4, <1>5, <1>7, <2>1, <2>2 DEF SeenPaths
<1>8. QED
  BY <1>6, <1>7 DEF VAdvances

(* No step visits what is not wanted.                                        *)
LEMMA OnlyWantedStep ==
    ASSUME VIInv, [VNext]_VVars
    PROVE  OnlyWanted'
<1>1. SeenPaths \union (Ahead \ run.excluded) \subseteq Wanted
  BY DEF VIInv, OnlyWanted
<1>2. CASE VEnds \/ VEndsWell \/ VBegins \/ VReads \/ VChanges \/ UNCHANGED VVars
  BY <1>1, <1>2, VRests DEF OnlyWanted
<1>3. CASE VAdvances
  <2>1. run' = run /\ SeenPaths' = SeenPaths
        /\ (Ahead' = {} \/ Ahead' \ run.excluded \subseteq Wanted)
    BY <1>3, NextArg
  <2>2. Wanted' = Wanted
    BY <2>1, SameRun
  <2>3. QED
    BY <1>1, <2>1, <2>2 DEF OnlyWanted
<1>4. CASE VWalks \/ VPasses \/ VJudges \/ VReprints
  <2>1. run' = run /\ Ahead' \subseteq Ahead /\ SeenPaths' \subseteq SeenPaths \union (Ahead \ run.excluded)
    BY <1>4, Balance
  <2>2. Wanted' = Wanted
    BY <2>1, SameRun
  <2>3. QED
    BY <1>1, <2>1, <2>2 DEF OnlyWanted
<1>5. QED
  BY <1>2, <1>3, <1>4, VSteps

(* An excluded path stands for nothing but what is excluded.                 *)
LEMMA ExcludedStandsForNothing ==
    ASSUME NEW p, Excluded(p)
    PROVE  StandsFor(p) \ run.excluded = {}
<1>1. CASE p \in Dirs
  <2>1. ~Entered(p)
    BY DEF Entered, Excluded
  <2>2. QED
    BY <1>1, <2>1, StandsForUnfolds
<1>2. CASE p \notin Dirs
  BY <1>2 DEF StandsFor, Excluded
<1>3. QED
  BY <1>1, <1>2

(* Every step accounts for the arguments behind: for what they stand for,    *)
(* and for those that are files themselves.                                  *)
LEMMA AccountedStep ==
    ASSUME VIInv, [VNext]_VVars
    PROVE  Accounted'
<1> DEFINE Asked(j) == StandsFor(Args[j]) \ run.excluded
           Itself(j) == {Args[j]} \intersect ((Files \union {"-"}) \ run.excluded)
           Met == SeenPaths \union Ahead \union unlisted
           Due == SeenPaths \union Range(todo)
<1>1. VTypeOK /\ at \in Nat \ {0} /\ Len(Args) \in Nat
  BY ArgsAreSeq DEF VIInv, VTypeOK
<1>2. ASSUME NEW n PROVE NamedFiles(n) = UNION {Itself(j) : j \in 1..n}
  BY DEF NamedFiles
<1>3. (Running \/ exit = "0") =>
         \A j \in 1..(at - 1) : Asked(j) \subseteq Met /\ Itself(j) \subseteq Due
  BY <1>2 DEF VIInv, Accounted
<1>4. ASSUME run' = run PROVE \A j : Asked(j)' = Asked(j) /\ Itself(j)' = Itself(j)
  BY <1>4, SameRun
<1>5. \A j : /\ Asked(j) \intersect run.excluded = {}
             /\ Itself(j) \intersect (run.excluded \union Dirs) = {}
  BY PathsAssumption
<1>6. \A j : Asked(j) = StandsFor(Args[j]) \ run.excluded
  OBVIOUS
<1>7. \A j : /\ Itself(j) \subseteq {Args[j]}
             /\ Excluded(Args[j]) => Itself(j) = {}
  BY DEF Excluded
<1>8. \A i, j : Args[i] = Args[j] => Asked(i) = Asked(j) /\ Itself(i) = Itself(j)
  OBVIOUS
<1> HIDE DEF Asked, Itself
<1>9. (Running' \/ exit' = "0") =>
         \A j \in 1..(at' - 1) : Asked(j)' \subseteq Met' /\ Itself(j)' \subseteq Due'
  <2>1. CASE VEnds
    BY <2>1 DEF VEnds, Running, Rereading
  <2>2. CASE VEndsWell \/ VReads \/ VChanges \/ UNCHANGED VVars
    <3>1. at' = at /\ (Running' \/ exit' = "0" => Running \/ exit = "0")
      BY <2>2 DEF VEndsWell, VReads, VChanges, VVars, program, Running, Rereading
    <3>2. run' = run /\ SeenPaths' = SeenPaths /\ Ahead' = Ahead /\ UNCHANGED <<todo, unlisted>>
      BY <2>2, VRests
    <3>3. QED
      BY <1>3, <1>4, <3>1, <3>2
  <2>3. CASE VBegins
    <3>1. at' - 1 = 0 \/ (pc' = "args" /\ exit' = exit /\ exit # "0")
      BY <1>1, <2>3 DEF VBegins, VTypeOK
    <3>2. QED
      BY <3>1 DEF Running, Rereading
  <2>4. CASE VAdvances
    <3>1. /\ run' = run /\ SeenPaths' = SeenPaths /\ Ahead = {} /\ at' = at + 1 /\ Running
          /\ unlisted' = unlisted /\ Range(todo) = {}
          /\ \/ Ahead' = {} /\ (Repeated(at) \/ Excluded(Args[at]))
             \/ Ahead' = StandsFor(Args[at]) /\ Range(todo') = {Args[at]}
      BY <2>4, NextArg DEF VAdvances, Running
    <3>2. \A j \in 1..(at - 1) : Asked(j) \subseteq SeenPaths \union unlisted /\ Itself(j) \subseteq SeenPaths
      BY <1>3, <3>1
    <3>3. Asked(at) \subseteq Met' /\ Itself(at) \subseteq Due'
      <4>1. CASE Ahead' = StandsFor(Args[at]) /\ Range(todo') = {Args[at]}
        BY <1>6, <1>7, <4>1
      <4>2. CASE Repeated(at)
        <5>1. PICK j \in 1..(at - 1) : Args[j] = Args[at]
          BY <4>2 DEF Repeated
        <5>2. Asked(j) = Asked(at) /\ Itself(j) = Itself(at)
          BY <1>8, <5>1
        <5>3. QED
          BY <3>1, <3>2, <5>1, <5>2
      <4>3. CASE Excluded(Args[at])
        BY <1>6, <1>7, <4>3, ExcludedStandsForNothing
      <4>4. QED
        BY <3>1, <4>1, <4>2, <4>3
    <3>4. \A j \in 1..(at' - 1) : j \in 1..(at - 1) \/ j = at
      BY <1>1, <3>1
    <3>5. \A j \in 1..(at' - 1) : Asked(j) \subseteq Met' /\ Itself(j) \subseteq Due'
      BY <3>1, <3>2, <3>3, <3>4
    <3>6. QED
      BY <1>4, <3>1, <3>5
  <2>5. CASE VWalks \/ VPasses \/ VJudges \/ VReprints
    <3>1. /\ run' = run /\ at' = at /\ Running
          /\ Met \ run.excluded \subseteq Met'
          /\ Due \ (run.excluded \union Dirs) \subseteq Due'
      BY <2>5, Balance DEF Running
    <3> HIDE DEF Met, Due
    <3>2. \A j \in 1..(at - 1) : Asked(j) \subseteq Met' /\ Itself(j) \subseteq Due'
      BY <1>3, <1>5, <3>1
    <3>3. QED
      BY <1>4, <3>1, <3>2
  <2>6. QED
    BY <2>1, <2>2, <2>3, <2>4, <2>5, VSteps
<1>10. \A j : /\ Asked(j)' = (StandsFor(Args[j]) \ run.excluded)'
              /\ Itself(j)' = ({Args[j]} \intersect ((Files \union {"-"}) \ run.excluded))'
  BY DEF Asked, Itself
<1>11. ASSUME \A j \in 1..(at' - 1) : Itself(j)' \subseteq Due' PROVE NamedFiles(at - 1)' \subseteq Due'
  BY <1>10, <1>11 DEF NamedFiles
<1>12. QED
  BY <1>9, <1>10, <1>11 DEF Accounted

(* A run that has ended stays as it is, what is printed and checked before   *)
(* the first visit is nothing, and exit code 0 comes from the last argument. *)
LEMMA Fates ==
    ASSUME VIInv, [VNext]_VVars
    PROVE  /\ run' = run
           /\ pc' = "args" => pc = "args" /\ UNCHANGED <<todo, checks, out, failure>>
           /\ exit' = "0" => VEndsWell \/ UNCHANGED VVars
           /\ (~failure' /\ exit' \in {"running", "0"}) => ~failure /\ exit \in {"running", "0"}
           /\ pc # "done" => exit = "running"
<1>1. VTypeOK /\ VIInv /\ failure \in BOOLEAN /\ (exit = "running" <=> pc # "done")
  BY DEF VIInv, VTypeOK
<1>2. CASE VEnds
  BY <1>1, <1>2 DEF VEnds
<1>3. CASE VEndsWell
  BY <1>1, <1>3 DEF VEndsWell
<1>4. CASE VBegins \/ VAdvances \/ VPasses \/ VReads
  BY <1>1, <1>4 DEF VBegins, VAdvances, VPasses, VReads
<1>5. CASE VWalks
  <2>1. run' = run /\ pc = "paths" /\ pc' \in {"paths", "done"} /\ exit' \in {exit, "2"} /\ (failure => failure')
    BY <1>1, <1>5 DEF VWalks
  <2>2. QED
    BY <1>1, <2>1
<1>6. CASE VJudges
  <2>1. /\ pc \in {"paths", "whole", "rewind"} /\ run' = run /\ pc' # "args" /\ (failure => failure')
        /\ exit' \in {exit, Invalid}
    <3>1. PICK d \in Documents(run.tool) \union {Gone}, valid \in BOOLEAN :
            DOMAIN d.lines \subseteq Nat \ {0} /\ Judged(Head(todo), d, valid)
      BY <1>1, <1>6, JudgesFacts
    <3>2. pc \in {"paths", "whole", "rewind"} /\ run' = run
      BY <1>6 DEF VJudges
    <3>3. /\ pc' \in {"paths", "reprint", "done"} /\ (failure => failure')
          /\ pc' = "done" => exit' = Invalid
          /\ pc' # "done" => exit' = exit
      BY <1>1, <3>1, <3>2, JudgedFacts
    <3>4. QED
      BY <3>2, <3>3
  <2>2. Invalid \in {"1", "2"}
    BY <1>1, ToolFacts DEF VTypeOK, Invalid
  <2>3. QED
    BY <1>1, <2>1, <2>2
<1>7. CASE VReprints
  BY <1>1, <1>7 DEF VReprints
<1>8. CASE VChanges \/ UNCHANGED VVars
  BY <1>1, <1>8 DEF VChanges, VVars, program
<1>9. QED
  BY <1>1, <1>2, <1>3, <1>4, <1>5, <1>6, <1>7, <1>8, VSteps

(* Before the first visit nothing was checked or printed.                    *)
LEMMA BeginningStep ==
    ASSUME VIInv, [VNext]_VVars
    PROVE  Beginning'
BY Fates DEF VIInv, Beginning

(* Exit code 0 comes at the end of the arguments.                            *)
LEMMA ExitZeroStep ==
    ASSUME VIInv, [VNext]_VVars
    PROVE  ExitZero'
<1>1. CASE VEndsWell
  BY <1>1, SameRun DEF VEndsWell, ExitZero
<1>2. CASE UNCHANGED VVars
  BY <1>2, SameRun DEF VVars, program, VIInv, ExitZero
<1>3. QED
  BY <1>1, <1>2, Fates DEF ExitZero

(* The checks are only added to, by a verdict.                               *)
LEMMA NewCheck ==
    ASSUME VIInv, [VNext]_VVars
    PROVE  checks' = checks \/ (VJudges /\ pc \in {"paths", "whole", "rewind"})
<1>1. VTypeOK
  BY DEF VIInv
<1>2. CASE VEnds \/ VEndsWell \/ VBegins \/ VReads \/ VChanges \/ UNCHANGED VVars
  BY <1>2, VRests
<1>3. CASE VAdvances \/ VWalks \/ VPasses \/ VReprints
  BY <1>3 DEF VAdvances, VWalks, VPasses, VReprints
<1>4. CASE VJudges
  BY <1>4 DEF VJudges
<1>5. QED
  BY <1>2, <1>3, <1>4, VSteps

(* An invalid document sets self.failed.                                     *)
LEMMA ValidSoFarStep ==
    ASSUME VIInv, [VNext]_VVars
    PROVE  ValidSoFar'
<1>1. VTypeOK /\ ValidSoFar
  BY DEF VIInv
<1>2. /\ run' = run
      /\ (~failure' /\ exit' \in {"running", "0"}) => ~failure /\ exit \in {"running", "0"}
  BY Fates
<1>3. CASE checks' = checks
  BY <1>1, <1>2, <1>3 DEF ValidSoFar
<1>4. CASE VJudges /\ pc \in {"paths", "whole", "rewind"}
  <2>1. PICK d \in Documents(run.tool) \union {Gone}, valid \in BOOLEAN :
          DOMAIN d.lines \subseteq Nat \ {0} /\ Judged(Head(todo), d, valid)
    BY <1>1, <1>4, JudgesFacts
  <2> DEFINE c == [path |-> Head(todo), doc |-> d, valid |-> valid]
  <2>2. /\ checks' = checks \union {c} /\ c.path = Head(todo) /\ c.valid = valid
        /\ ~failure' => valid \/ (Head(todo) = "-" /\ run.tool.stdin = "ignored")
    BY <1>1, <1>4, <2>1, JudgedFacts
  <2> HIDE DEF c
  <2>3. QED
    BY <1>1, <1>2, <2>2 DEF ValidSoFar
<1>5. QED
  BY <1>3, <1>4, NewCheck

(* Nothing else does, but a directory that cannot be listed.                 *)
LEMMA FailedForReasonStep ==
    ASSUME VIInv, [VNext]_VVars
    PROVE  FailedForReason'
<1>1. VTypeOK /\ FailedForReason
  BY DEF VIInv
<1>2. CASE VEnds \/ VEndsWell \/ VBegins \/ VReads \/ VChanges \/ UNCHANGED VVars
  BY <1>1, <1>2, VRests DEF FailedForReason
<1>3. CASE VAdvances \/ VPasses \/ VReprints
  BY <1>1, <1>3 DEF FailedForReason, VAdvances, VPasses, VReprints
<1>4. CASE VWalks
  <2>1. run' = run /\ checks' = checks /\ (failure' = failure \/ (run.tool = Multimedia /\ run.locked # {}))
    BY <1>4 DEF VWalks
  <2>2. QED
    BY <1>1, <2>1 DEF FailedForReason
<1>5. CASE VJudges
  <2>1. PICK d \in Documents(run.tool) \union {Gone}, valid \in BOOLEAN :
          DOMAIN d.lines \subseteq Nat \ {0} /\ Judged(Head(todo), d, valid)
    BY <1>1, <1>5, JudgesFacts
  <2> DEFINE c == [path |-> Head(todo), doc |-> d, valid |-> valid]
  <2>2. run' = run /\ pc \in {"paths", "whole", "rewind"}
    BY <1>5 DEF VJudges
  <2>3. checks' = checks \union {c} /\ c.valid = valid /\ (failure' => failure \/ ~valid)
    BY <1>1, <2>1, <2>2, JudgedFacts
  <2> HIDE DEF c
  <2>4. QED
    BY <1>1, <2>2, <2>3 DEF FailedForReason
<1>6. QED
  BY <1>2, <1>3, <1>4, <1>5, VSteps

(* Every step that ends the run badly has a reason to.                       *)
LEMMA FailureHasReasonStep ==
    ASSUME VIInv, [VNext]_VVars
    PROVE  FailureHasReason'
<1>1. VTypeOK /\ FailureHasReason
  BY DEF VIInv
<1>2. run' = run /\ (pc # "done" => exit = "running")
  BY Fates
<1>3. CASE VEnds
  BY <1>3 DEF VEnds
<1>4. CASE VEndsWell
  BY <1>4 DEF VEndsWell, FailureHasReason
<1>5. CASE VBegins \/ VAdvances \/ VPasses \/ VReads \/ VReprints \/ VChanges
  <2>1. pc # "done" /\ exit' = exit
    BY <1>5 DEF VBegins, VAdvances, VPasses, VReads, VReprints, VChanges, program
  <2>2. QED
    BY <1>2, <2>1 DEF FailureHasReason
<1>6. CASE UNCHANGED VVars
  <2>1. UNCHANGED <<run, disk, held, checks, exit>> /\ Args' = Args
    BY <1>6, SameRun DEF VVars, program
  <2>2. QED
    BY <1>1, <2>1 DEF FailureHasReason
<1>7. CASE VWalks
  <2>1. exit' = "running" \/ (exit' = "2" /\ run.tool = Multimedia /\ run.locked # {})
    BY <1>2, <1>7 DEF VWalks
  <2>2. QED
    BY <1>2, <2>1 DEF FailureHasReason
<1>8. CASE VJudges
  <2>1. PICK d \in Documents(run.tool) \union {Gone}, valid \in BOOLEAN :
          DOMAIN d.lines \subseteq Nat \ {0} /\ Judged(Head(todo), d, valid)
    BY <1>1, <1>8, JudgesFacts
  <2> DEFINE c == [path |-> Head(todo), doc |-> d, valid |-> valid]
  <2>2. pc \in {"paths", "whole", "rewind"}
    BY <1>8 DEF VJudges
  <2>3. /\ checks' = checks \union {c} /\ c.valid = valid
        /\ exit' = "running" \/ (exit' = Invalid /\ ~valid)
    BY <1>1, <1>2, <2>1, <2>2, JudgedFacts
  <2> HIDE DEF c
  <2>4. Invalid = "2" \/ (Invalid = "1" /\ run.tool = YamlToJson)
    BY <1>1, ToolFacts DEF VTypeOK, Invalid
  <2>5. exit' = "running" \/ ((exit' = "2" \/ (exit' = "1" /\ run.tool = YamlToJson)) /\ \E s \in checks' : ~s.valid)
    BY <2>3, <2>4
  <2>6. QED
    BY <1>2, <2>5 DEF FailureHasReason
<1>9. QED
  BY <1>3, <1>4, <1>5, <1>6, <1>7, <1>8, VSteps

(* What is read again is not excluded, and what is printed was valid.        *)
LEMMA RereadStep ==
    ASSUME VIInv, [VNext]_VVars
    PROVE  NotExcluded' /\ Reprinted'
<1>1. VTypeOK /\ NotExcluded /\ Reprinted
  BY DEF VIInv
<1>2. run' = run /\ \A p : Excluded(p)' <=> Excluded(p)
  BY Fates, SameRun
<1>3. CASE VEnds \/ VEndsWell \/ VBegins \/ VAdvances \/ VWalks \/ VPasses \/ VReprints
  <2>1. ~Rereading'
    BY <1>3 DEF VEnds, VEndsWell, VBegins, VAdvances, VWalks, VPasses, VReprints, Rereading
  <2>2. QED
    BY <2>1 DEF NotExcluded, Reprinted, Rereading
<1>4. CASE VReads
  BY <1>2, <1>4 DEF VReads, NotExcluded, Reprinted, Rereading
<1>5. CASE VJudges
  <2>1. PICK d \in Documents(run.tool) \union {Gone}, valid \in BOOLEAN :
          DOMAIN d.lines \subseteq Nat \ {0} /\ Judged(Head(todo), d, valid)
    BY <1>1, <1>5, JudgesFacts
  <2> DEFINE c == [path |-> Head(todo), doc |-> d, valid |-> valid]
  <2>2. pc \in {"paths", "whole", "rewind"} /\ ~Excluded(Head(todo))
    BY <1>5 DEF VJudges
  <2>3. /\ checks' = checks \union {c} /\ c.path = Head(todo) /\ c.valid = valid
        /\ pc' \in {"paths", "reprint", "done"}
        /\ pc' = "reprint" => todo' = todo /\ valid
    BY <1>1, <2>1, <2>2, JudgedFacts
  <2> HIDE DEF c
  <2>4. NotExcluded'
    BY <1>2, <2>2, <2>3 DEF NotExcluded, Rereading
  <2>5. QED
    BY <2>3, <2>4 DEF Reprinted
<1>6. CASE VChanges \/ UNCHANGED VVars
  <2>1. UNCHANGED <<pc, todo, checks>>
    BY <1>6 DEF VChanges, VVars, program
  <2>2. QED
    BY <1>1, <1>2, <2>1 DEF NotExcluded, Reprinted, Rereading
<1>7. QED
  BY <1>3, <1>4, <1>5, <1>6, VSteps

(* Every step prints what it has checked, or is about to.                    *)
LEMMA PrintedSoFarStep ==
    ASSUME VIInv, [VNext]_VVars
    PROVE  PrintedSoFar'
<1>1. VTypeOK /\ PrintedSoFar
  BY DEF VIInv
<1>2. /\ run' = run /\ (Shows <=> Shows')
      /\ (~failure' /\ exit' \in {"running", "0"}) => ~failure /\ exit \in {"running", "0"}
  BY Fates, SameRun
<1>3. CASE VEnds
  BY <1>3 DEF VEnds, PrintedSoFar
<1>4. CASE VEndsWell \/ VBegins \/ VAdvances \/ VWalks \/ VPasses \/ VReads
  <2>1. pc # "reprint" /\ checks' = checks /\ out' = out
    BY <1>4 DEF VEndsWell, VBegins, VAdvances, VWalks, VPasses, VReads
  <2>2. QED
    BY <1>1, <1>2, <2>1 DEF PrintedSoFar
<1>5. CASE VChanges \/ UNCHANGED VVars
  <2>1. UNCHANGED <<pc, todo, checks, out>>
    BY <1>5 DEF VChanges, VVars, program
  <2>2. QED
    BY <1>1, <1>2, <2>1 DEF PrintedSoFar
<1>6. CASE VReprints
  <2>1. PICK d \in Documents(run.tool) : Printed(Head(todo), d, DOMAIN d.lines)
    BY <1>6 DEF VReprints
  <2> DEFINE o == [path |-> Head(todo), doc |-> d, lines |-> DOMAIN d.lines]
  <2>2. out' = out \union {o} /\ o.path = Head(todo) /\ checks' = checks
    BY <1>6, <2>1 DEF VReprints, Printed
  <2> HIDE DEF o
  <2>3. QED
    BY <1>1, <1>2, <2>2 DEF PrintedSoFar
<1>7. CASE VJudges
  <2>1. PICK d \in Documents(run.tool) \union {Gone}, valid \in BOOLEAN :
          DOMAIN d.lines \subseteq Nat \ {0} /\ Judged(Head(todo), d, valid)
    BY <1>1, <1>7, JudgesFacts
  <2> DEFINE c == [path |-> Head(todo), doc |-> d, valid |-> valid]
  <2>2. pc \in {"paths", "whole", "rewind"}
    BY <1>7 DEF VJudges
  <2>3. /\ checks' = checks \union {c} /\ c.path = Head(todo)
        /\ pc' = "reprint" => todo' = todo
        /\ ~failure' => valid \/ (Head(todo) = "-" /\ run.tool.stdin = "ignored")
        /\ (Shows /\ valid /\ run.tool.prints # "never") =>
              pc' = "reprint" \/ \E o \in out' : o.path = Head(todo)
    BY <1>1, <2>1, <2>2, JudgedFacts
  <2>4. out \subseteq out'
    BY <1>1, <2>1, <2>2, JudgedFacts
  <2> HIDE DEF c
  <2>5. run.tool.stdin = "ignored" => run.tool.prints = "never"
    BY <1>1, ToolFacts DEF VTypeOK
  <2>6. SUFFICES ASSUME Shows, run.tool.prints # "never", ~failure', exit' \in {"running", "0"},
                        NEW s \in checks'
                 PROVE  (pc' = "reprint" /\ s.path = Head(todo)') \/ \E o \in out' : o.path = s.path
    BY <1>2 DEF PrintedSoFar
  <2>7. CASE s \in checks
    <3>1. \E o \in out : o.path = s.path
      BY <1>1, <1>2, <2>2, <2>6, <2>7 DEF PrintedSoFar
    <3>2. QED
      BY <2>4, <3>1
  <2>8. CASE s = c
    BY <2>3, <2>5, <2>6, <2>8
  <2>9. QED
    BY <2>3, <2>7, <2>8
<1>8. QED
  BY <1>3, <1>4, <1>5, <1>6, <1>7, VSteps

(* What may be printed, by what the program prints.                          *)
SoundOne(o) ==
    \/ /\ run.tool.prints # "reread"
       /\ \E s \in checks : s.path = o.path /\ s.valid /\ s.doc = o.doc
    \/ run.tool.prints = "reread" /\ \E s \in checks : s.path = o.path /\ s.valid
    \/ /\ run.tool.prints \notin {"content", "reread"}
       /\ \A k \in o.lines : Accepts(o.doc.lines[k])

(* PrintedSound says it of each document that was printed.                   *)
LEMMA SoundOnes == PrintedSound <=> \A o \in out : SoundOne(o)
BY DEF PrintedSound, SoundOne

(* Every step prints only what may be.                                       *)
LEMMA PrintedSoundStep ==
    ASSUME VIInv, [VNext]_VVars
    PROVE  PrintedSound'
<1>1. VTypeOK /\ \A o \in out : SoundOne(o)
  BY SoundOnes DEF VIInv
<1>2. run' = run /\ \A v : Accepts(v)' <=> Accepts(v)
  BY Fates, SameRun
<1>3. checks \subseteq checks'
  <2>1. CASE VJudges /\ pc \in {"paths", "whole", "rewind"}
    BY <1>1, <2>1, JudgesFacts, JudgedFacts
  <2>2. QED
    BY <2>1, NewCheck
<1>4. \A o \in out : SoundOne(o)'
  BY <1>1, <1>2, <1>3 DEF SoundOne
<1>5. ASSUME NEW o \in out', o \notin out PROVE SoundOne(o)'
  <2>1. CASE VReprints
    <3>1. PICK d \in Documents(run.tool) : Printed(Head(todo), d, DOMAIN d.lines)
      BY <2>1 DEF VReprints
    <3>2. o = [path |-> Head(todo), doc |-> d, lines |-> DOMAIN d.lines]
      BY <1>5, <3>1 DEF Printed
    <3>3. PICK s \in checks : s.path = Head(todo) /\ s.valid
      BY <2>1 DEF VReprints, VIInv, Reprinted
    <3>4. run.tool.prints = "reread" /\ o.path = Head(todo) /\ checks' = checks
      BY <2>1, <3>2 DEF VTypeOK, VIInv, VReprints
    <3>5. QED
      BY <1>2, <3>3, <3>4 DEF SoundOne
  <2>2. CASE VJudges
    <3>1. PICK d \in Documents(run.tool) \union {Gone}, valid \in BOOLEAN :
            DOMAIN d.lines \subseteq Nat \ {0} /\ Judged(Head(todo), d, valid)
      BY <1>1, <2>2, JudgesFacts
    <3> DEFINE c == [path |-> Head(todo), doc |-> d, valid |-> valid]
    <3>2. pc \in {"paths", "whole", "rewind"}
      BY <2>2 DEF VJudges
    <3>3. checks' = checks \union {c} /\ c.path = Head(todo) /\ c.doc = d /\ c.valid = valid
      BY <1>1, <3>1, <3>2, JudgedFacts
    <3>4. /\ o.path = Head(todo) /\ o.doc = d
          /\ \/ valid /\ run.tool.prints \in {"content", "records"}
             \/ run.tool.prints = "records" /\ \A k \in o.lines : Accepts(d.lines[k])
      BY <1>1, <1>5, <3>1, <3>2, JudgedFacts
    <3> HIDE DEF c
    <3>5. QED
      BY <1>2, <3>3, <3>4 DEF SoundOne
  <2>3. CASE VEnds \/ VEndsWell \/ VBegins \/ VReads \/ VChanges \/ UNCHANGED VVars
    BY <1>5, <2>3, VRests
  <2>4. CASE VAdvances \/ VWalks \/ VPasses
    BY <1>5, <2>4 DEF VAdvances, VWalks, VPasses
  <2>5. QED
    BY <2>1, <2>2, <2>3, <2>4, VSteps
<1>6. \A o \in out' : SoundOne(o)'
  BY <1>4, <1>5
<1>7. QED
  BY <1>6 DEF PrintedSound, SoundOne

(* The start of a run.                                                       *)
LEMMA ValidatorsBegin == VInit => VIInv
<1> SUFFICES ASSUME VInit PROVE VIInv
  OBVIOUS
<1>1. run \in Runs /\ pc = "args" /\ at = 1 /\ todo = <<>> /\ checks = {} /\ out = {} /\ ~failure
      /\ exit = "running" /\ held = Gone /\ changes = 0 /\ failure = FALSE /\ unlisted = {}
  BY DEF VInit
<1>2. disk \in [Files \union {"-"} -> Documents(run.tool) \union {Gone}] /\ disk["-"] # Gone
  <2>1. DOMAIN disk = Files \union {"-"} /\ disk = [p \in DOMAIN disk |-> disk[p]]
    BY DocumentsAssumption DEF VInit
  <2>2. \A p \in Files \union {"-"} : disk[p] \in Documents(run.tool)
    BY DEF VInit
  <2>3. QED
    BY <1>1, <2>1, <2>2, DocumentFacts
<1>3. Len(Args) \in Nat /\ MaxChanges \in Nat
  BY <1>1, ArgsAreSeq, BoundAssumption
<1>4. VTypeOK
  <2>1. at \in 1..(Len(Args) + 1) /\ changes \in 0..MaxChanges
    BY <1>1, <1>3
  <2>2. todo \in Seq(Files \union Dirs \union {"-"}) /\ held \in Documents(run.tool) \union {Gone}
    BY <1>1
  <2>3. QED
    BY <1>1, <1>2, <2>1, <2>2 DEF VTypeOK, Rereading
<1>5. Ahead = {} /\ SeenPaths = {}
  BY <1>1 DEF Ahead, SeenPaths, Range
<1>6. Beginning /\ ExitZero /\ OnlyWanted /\ Accounted
  BY <1>1, <1>5 DEF Beginning, ExitZero, OnlyWanted, Accounted, Running, Rereading
<1>7. ValidSoFar /\ FailedForReason /\ FailureHasReason
  BY <1>1 DEF ValidSoFar, FailedForReason, FailureHasReason
<1>8. NotExcluded /\ Reprinted /\ PrintedSoFar /\ PrintedSound
  BY <1>1 DEF NotExcluded, Reprinted, PrintedSoFar, PrintedSound, Rereading
<1>9. QED
  BY <1>4, <1>6, <1>7, <1>8 DEF VIInv

(* The inductive invariant holds in every state.                             *)
THEOREM ValidatorsInvariance == VSpec => []VIInv
<1>1. VIInv /\ [VNext]_VVars => VIInv'
  BY VTypeStep, BeginningStep, ExitZeroStep, OnlyWantedStep, AccountedStep, ValidSoFarStep,
     FailedForReasonStep, FailureHasReasonStep, RereadStep, PrintedSoFarStep, PrintedSoundStep
     DEF VIInv
<1>2. QED
  BY <1>1, ValidatorsBegin, PTL DEF VSpec

(* The types of the validators' state.                                       *)
THEOREM ValidatorsTypeCorrect == VSpec => []VTypeOK
<1>1. VIInv => VTypeOK
  BY DEF VIInv
<1>2. QED
  BY <1>1, ValidatorsInvariance, PTL

(* Only what the arguments ask for is read, and exit code 0 means that all   *)
(* of it was checked and was valid, for any tree, whatever is rewritten or   *)
(* removed meanwhile: but for the files that had been removed before their   *)
(* directory was listed, and that are not arguments themselves.              *)
THEOREM ZeroTheorem == VSpec => []ZeroMeansAllValid
<1>1. ASSUME VIInv PROVE ZeroMeansAllValid
  <2>1. SeenPaths \subseteq Wanted
    BY <1>1 DEF VIInv, OnlyWanted
  <2>2. ASSUME exit = "0"
        PROVE  Wanted \subseteq SeenPaths \union unlisted /\ NamedFiles(Len(Args)) \subseteq SeenPaths
    <3>1. at > Len(Args) /\ Ahead = {} /\ Range(todo) = {}
      BY <1>1, <2>2 DEF VIInv, ExitZero, Ahead, Range
    <3>2. at \in 1..(Len(Args) + 1) /\ Len(Args) \in Nat /\ DOMAIN Args = 1..Len(Args)
      BY <1>1, ArgsAreSeq DEF VIInv, VTypeOK
    <3>3. at - 1 = Len(Args)
      BY <3>1, <3>2
    <3>4. /\ \A j \in 1..Len(Args) : StandsFor(Args[j]) \ run.excluded \subseteq SeenPaths \union unlisted
          /\ NamedFiles(Len(Args)) \subseteq SeenPaths
      BY <1>1, <2>2, <3>1, <3>3 DEF VIInv, Accounted
    <3>5. ASSUME NEW y \in Wanted PROVE y \in SeenPaths \union unlisted
      <4>1. PICK p \in Range(Args) \intersect (Files \union Dirs \union {"-"}) : y \in StandsFor(p)
        BY DEF Wanted
      <4>2. y \notin run.excluded
        BY DEF Wanted
      <4>3. PICK j \in 1..Len(Args) : p = Args[j]
        BY <3>2 DEF Range
      <4>4. QED
        BY <3>4, <4>1, <4>2, <4>3
    <3>6. QED
      BY <3>4, <3>5
  <2>3. ASSUME exit = "0"
        PROVE  \A s \in checks : s.valid \/ (s.path = "-" /\ run.tool.stdin = "ignored")
    BY <1>1, <2>3 DEF VIInv, ExitZero, ValidSoFar
  <2>4. QED
    BY <2>1, <2>2, <2>3 DEF ZeroMeansAllValid
<1>2. QED
  BY <1>1, ValidatorsInvariance, PTL

(* A run that ends with 1 or 2 has a reason to.                              *)
THEOREM ReasonTheorem == VSpec => []FailureHasReason
<1>1. VIInv => FailureHasReason
  BY DEF VIInv
<1>2. QED
  BY <1>1, ValidatorsInvariance, PTL

(* What is printed passed a check, and a run that ends with 0 printed all    *)
(* that it checked.                                                          *)
THEOREM PrintedTheorem == VSpec => []PrintedWasValid
<1>1. ASSUME VIInv PROVE PrintedWasValid
  BY <1>1 DEF VIInv, VTypeOK, ExitZero, PrintedSoFar, PrintedWasValid
<1>2. QED
  BY <1>1, ValidatorsInvariance, PTL

(* A set of numbers has a least one.                                         *)
LEMMA LeastNumber ==
    ASSUME NEW T \in SUBSET Nat, T # {}
    PROVE  \E n \in T : \A m \in T : n <= m
<1> DEFINE Upto == {0..n : n \in T}
           Less == StrictSubsetOrdering(Nat)
<1>1. Upto \subseteq FiniteSubsetsOf(Nat)
  <2>1. ASSUME NEW n \in T PROVE 0..n \subseteq Nat /\ IsFiniteSet(0..n)
    BY FS_Interval
  <2>2. QED
    BY <2>1 DEF FiniteSubsetsOf
<1>2. IsWellFoundedOn(Less, FiniteSubsetsOf(Nat))
  BY FS_StrictSubsetOrderingWellFounded
<1>3. PICK D \in Upto : \A E \in Upto : <<E, D>> \notin Less
  <2>1. Upto # {}
    OBVIOUS
  <2> HIDE DEF Upto, Less
  <2>2. QED
    BY <1>1, <1>2, <2>1, WFMin
<1>4. PICK n \in T : D = 0..n
  BY <1>3
<1>5. ASSUME NEW m \in T, m < n PROVE FALSE
  <2>1. 0..m \in Upto /\ 0..m \subseteq 0..n /\ 0..m # 0..n /\ 0..m \subseteq Nat /\ 0..n \subseteq Nat
    BY <1>5
  <2>2. <<0..m, 0..n>> \in Less
    BY <2>1 DEF StrictSubsetOrdering
  <2>3. QED
    BY <1>3, <1>4, <2>1, <2>2
<1>6. QED
  BY <1>4, <1>5

-----------------------------------------------------------------------------
(* The search for missing files: the types of its state.                     *)
ItemType == [op : {"walk", "file"}, of : Dirs \union Files]
IsGood(item) == item.of \in (IF item.op = "walk" THEN Dirs ELSE Files \ run.skipped)

(* How the search was started.                                               *)
LEMMA SearchFacts ==
    ASSUME run \in Searches
    PROVE  /\ run.paths \in Seq(Dirs \union Files \union {"missing"})
           /\ Len(run.paths) \in Nat /\ DOMAIN run.paths = 1..Len(run.paths)
           /\ run.fixed \in BOOLEAN
BY SearchesAssumption, LenProperties

(* The items for a set of paths, in any order.                               *)
LEMMA ItemsAre ==
    ASSUME NEW op \in {"walk", "file"}, NEW S \in SUBSET (Dirs \union Files), NEW s \in SetToSeqs(S)
    PROVE  Items(op, s) \in Seq(ItemType) /\ Range(Items(op, s)) = {Item(op, x) : x \in S}
<1>1. IsFiniteSet(S)
  BY PathsAssumption, FS_Union, FS_Subset
<1>2. s \in Seq(S) /\ Range(s) = S
  BY <1>1, OrderOfSet
<1>3. Len(s) \in Nat /\ DOMAIN s = 1..Len(s) /\ \A k \in DOMAIN s : s[k] \in S
  BY <1>2, LenProperties, ElementOfSeq
<1>4. \A x \in S : Item(op, x) \in ItemType
  BY DEF Item, ItemType
<1>5. DOMAIN Items(op, s) = DOMAIN s /\ \A k \in DOMAIN s : Items(op, s)[k] = Item(op, s[k])
  BY DEF Items
<1>6. Items(op, s) \in [1..Len(s) -> ItemType]
  BY <1>3, <1>4 DEF Items
<1>7. Items(op, s) \in Seq(ItemType)
  BY <1>3, <1>6
<1>8. Range(Items(op, s)) = {Item(op, x) : x \in S}
  BY <1>2, <1>5 DEF Range
<1>9. QED
  BY <1>7, <1>8

(* The item at hand and those after it.                                      *)
LEMMA AtItem ==
    ASSUME FSTypeOK, TodoIsItems
    PROVE  /\ todo \in Seq(ItemType)
           /\ \A item \in Range(todo) : IsGood(item)
           /\ todo # <<>> =>
                /\ Head(todo) \in ItemType /\ Tail(todo) \in Seq(ItemType)
                /\ Range(todo) = {Head(todo)} \union Range(Tail(todo))
                /\ Head(todo).op = "walk" => Head(todo).of \in Dirs
                /\ Head(todo).op = "file" => /\ Head(todo).of \in Files \ run.skipped
                                             /\ File \in NameType
<1>1. todo \in Seq(ItemType)
  BY DEF TodoIsItems, ItemType
<1>2. \A item \in Range(todo) : IsGood(item)
  BY DEF FSTypeOK, IsGood, Range
<1>3. ASSUME todo # <<>>
      PROVE  /\ Head(todo) \in ItemType /\ Tail(todo) \in Seq(ItemType)
             /\ Range(todo) = {Head(todo)} \union Range(Tail(todo))
  BY <1>1, <1>3, FirstAndRest
<1>4. ASSUME todo # <<>>, Head(todo).op = "walk" PROVE Head(todo).of \in Dirs
  BY <1>2, <1>3, <1>4 DEF IsGood
<1>5. ASSUME todo # <<>>, Head(todo).op = "file"
      PROVE  Head(todo).of \in Files \ run.skipped /\ File \in NameType
  BY <1>2, <1>3, <1>5, NameAssumption DEF IsGood, File
<1>6. QED
  BY <1>1, <1>2, <1>3, <1>4, <1>5

(* What the visit of a directory leaves to do.                               *)
LEMMA Processed ==
    ASSUME FSTypeOK, TodoIsItems, ProcessDirectory
    PROVE  /\ Head(todo).of \in Dirs /\ Head(todo) \in ItemType
           /\ Range(todo) = {Head(todo)} \union Range(Tail(todo))
           /\ todo' \in Seq(ItemType)
           /\ Range(todo') = {Item("file", f) : f \in ListedIn(Head(todo).of)}
                             \union {Item("walk", s) : s \in ProcessedIn(Head(todo).of)}
                             \union {Item("walk", s) : s \in DirsIn(Head(todo).of)}
                             \union Range(Tail(todo))
<1> DEFINE d == Head(todo).of
<1>1. todo # <<>> /\ Head(todo).op = "walk"
  BY DEF ProcessDirectory
<1>2. /\ d \in Dirs /\ Head(todo) \in ItemType /\ Tail(todo) \in Seq(ItemType)
      /\ Range(todo) = {Head(todo)} \union Range(Tail(todo))
  BY <1>1, AtItem
<1>3. PICK fs \in SetToSeqs(ListedIn(d)), ds \in SetToSeqs(ProcessedIn(d)),
           entered \in SetToSeqs(DirsIn(d)) :
        todo' = Items("file", fs) \o Items("walk", ds) \o Items("walk", entered) \o Tail(todo)
  BY DEF ProcessDirectory
<1>4. Items("file", fs) \in Seq(ItemType) /\ Range(Items("file", fs)) = {Item("file", x) : x \in ListedIn(d)}
  <2>1. ListedIn(d) \in SUBSET (Dirs \union Files)
    BY DEF ListedIn, FSTypeOK
  <2>2. QED
    BY <2>1, ItemsAre
<1>5. Items("walk", ds) \in Seq(ItemType) /\ Range(Items("walk", ds)) = {Item("walk", x) : x \in ProcessedIn(d)}
  <2>1. ProcessedIn(d) \in SUBSET (Dirs \union Files)
    BY <1>2, SubdirsAssumption DEF ProcessedIn, DirsIn
  <2>2. QED
    BY <2>1, ItemsAre
<1>6. Items("walk", entered) \in Seq(ItemType) /\ Range(Items("walk", entered)) = {Item("walk", x) : x \in DirsIn(d)}
  <2>1. DirsIn(d) \in SUBSET (Dirs \union Files)
    BY <1>2, SubdirsAssumption DEF DirsIn
  <2>2. QED
    BY <2>1, ItemsAre
<1> DEFINE a == Items("file", fs)
           b == Items("walk", ds)
           c == Items("walk", entered)
           t == Tail(todo)
<1>7. a \in Seq(ItemType) /\ b \in Seq(ItemType) /\ c \in Seq(ItemType) /\ t \in Seq(ItemType)
      /\ todo' = a \o b \o c \o t
  BY <1>2, <1>3, <1>4, <1>5, <1>6
<1>8. /\ Range(a) = {Item("file", x) : x \in ListedIn(d)} /\ Range(b) = {Item("walk", x) : x \in ProcessedIn(d)}
      /\ Range(c) = {Item("walk", x) : x \in DirsIn(d)}
  BY <1>4, <1>5, <1>6
<1> HIDE DEF a, b, c, t
<1>9. todo' \in Seq(ItemType) /\ Range(todo') = Range(a) \union Range(b) \union Range(c) \union Range(t)
  <2>1. /\ a \o b \o c \o t \in Seq(ItemType)
        /\ Range(a \o b \o c \o t) = Range(a) \union Range(b) \union Range(c) \union Range(t)
    BY <1>7, FourJoined
  <2>2. QED
    BY <1>7, <2>1, Zenon
<1>10. QED
  BY <1>2, <1>8, <1>9 DEF t

(* What the next path leaves to do.                                          *)
LEMMA NextPathFacts ==
    ASSUME FSTypeOK, TodoIsItems, NextPath, ~(at > Len(run.paths)), ~Skipped(run.paths[at]), Exists(at)
    PROVE  \E item \in ItemType : todo' = <<item>> /\ item.of = run.paths[at] /\ IsGood(item)
<1>1. at \in DOMAIN run.paths /\ run.paths[at] \in Dirs \union Files
  BY SearchFacts DEF FSTypeOK, Exists
<1>2. CASE run.paths[at] \in Dirs
  <2>1. Item("walk", run.paths[at]) \in ItemType /\ todo' = <<Item("walk", run.paths[at])>>
    BY <1>1, <1>2 DEF NextPath, Item, ItemType
  <2>2. QED
    BY <1>2, <2>1 DEF Item, IsGood
<1>3. CASE run.paths[at] \notin Dirs
  <2>1. Item("file", run.paths[at]) \in ItemType /\ todo' = <<Item("file", run.paths[at])>>
    BY <1>1, <1>3 DEF NextPath, Item, ItemType
  <2>2. run.paths[at] \in Files \ run.skipped
    BY <1>1, <1>3 DEF Skipped
  <2>3. QED
    BY <2>1, <2>2 DEF Item, IsGood
<1>4. QED
  BY <1>2, <1>3

(* Every step keeps the list one of items that are what they are said to be. *)
LEMMA TodoStep ==
    ASSUME FSIInv, [FSNext]_FSVars
    PROVE  run' = run /\ todo' \in Seq(ItemType) /\ \A item \in Range(todo') : IsGood(item)
<1>1. FSTypeOK /\ TodoIsItems /\ todo \in Seq(ItemType) /\ \A item \in Range(todo) : IsGood(item)
  BY AtItem DEF FSIInv
<1>2. run' = run
  BY DEF FSNext, FSVars, NextPath, ProcessDirectory, PathDone, CheckName, Backfill, PrintMissing, Alarm, ComesOrGoes
<1>3. CASE todo' = todo
  BY <1>1, <1>2, <1>3
<1>4. CASE todo # <<>> /\ todo' = Tail(todo)
  BY <1>1, <1>2, <1>4, AtItem
<1>5. CASE ProcessDirectory
  <2> DEFINE d == Head(todo).of
  <2>1. /\ d \in Dirs /\ todo' \in Seq(ItemType) /\ Range(Tail(todo)) \subseteq Range(todo)
        /\ Range(todo') = {Item("file", f) : f \in ListedIn(d)} \union {Item("walk", s) : s \in ProcessedIn(d)}
                          \union {Item("walk", s) : s \in DirsIn(d)} \union Range(Tail(todo))
    BY <1>1, <1>5, Processed
  <2>2. \A f \in ListedIn(d) : IsGood(Item("file", f))
    BY <1>1 DEF FSTypeOK, ListedIn, Skipped, Item, IsGood
  <2>3. \A s \in DirsIn(d) : IsGood(Item("walk", s))
    BY <2>1, SubdirsAssumption DEF DirsIn, Item, IsGood
  <2>4. ProcessedIn(d) \subseteq DirsIn(d)
    BY DEF ProcessedIn
  <2>5. QED
    BY <1>1, <1>2, <2>1, <2>2, <2>3, <2>4
<1>6. CASE NextPath /\ todo' # todo
  <2>1. ~(at > Len(run.paths)) /\ ~Skipped(run.paths[at]) /\ Exists(at)
    BY <1>6 DEF NextPath
  <2>2. PICK item \in ItemType : todo' = <<item>> /\ IsGood(item)
    BY <1>1, <1>6, <2>1, NextPathFacts
  <2>3. Range(<<item>>) = {item}
    BY DEF Range
  <2>4. QED
    BY <1>2, <2>2, <2>3
<1>7. CASE CheckName
  BY <1>3, <1>4, <1>7 DEF CheckName
<1>8. CASE PrintMissing
  BY <1>1, <1>4, <1>8 DEF PrintMissing, FSTypeOK
<1>9. CASE \/ PathDone \/ Backfill \/ Alarm \/ UNCHANGED FSVars
           \/ \E f \in Files : ComesOrGoes(f)
  BY <1>3, <1>9 DEF PathDone, Backfill, Alarm, FSVars, ComesOrGoes
<1>10. QED
  BY <1>3, <1>5, <1>6, <1>7, <1>8, <1>9 DEF FSNext

(* Every step of the search keeps the types.                                 *)
LEMMA FSTypeStep ==
    ASSUME FSIInv, [FSNext]_FSVars
    PROVE  FSTypeOK'
<1>1. FSTypeOK /\ TodoIsItems
  BY DEF FSIInv
<1>2. /\ run' = run
      /\ \A k \in DOMAIN todo' :
           todo'[k].of \in (IF todo'[k].op = "walk" THEN Dirs ELSE Files \ run'.skipped)
  <2>1. run' = run /\ \A item \in Range(todo') : IsGood(item)
    BY TodoStep
  <2>2. \A k \in DOMAIN todo' : todo'[k] \in Range(todo')
    BY DEF Range
  <2>3. QED
    BY <2>1, <2>2 DEF IsGood
<1>3. Len(run.paths) \in Nat /\ number \in Nat /\ missing_files \in Seq(Reportable)
  BY <1>1, SearchFacts DEF FSTypeOK, TodoIsItems
<1>4. CASE NextPath
  <2>1. /\ UNCHANGED <<disk, changes, number, missing_files, steady, ever>> /\ pc = "paths"
        /\ at' \in 1..(Len(run.paths) + 1)
        /\ \/ UNCHANGED <<pc, exit>>
           \/ pc' = "visit" /\ exit' = exit
           \/ pc' = "done" /\ exit' \in {"0", "error"}
    BY <1>1, <1>3, <1>4 DEF NextPath, Goto, End, FSTypeOK
  <2>2. QED
    BY <1>1, <1>2, <2>1 DEF FSTypeOK
<1>5. CASE ProcessDirectory
  <2>1. UNCHANGED <<disk, changes, pc, at, number, missing_files, steady, ever, exit>> /\ pc = "visit"
    BY <1>5 DEF ProcessDirectory
  <2>2. QED
    BY <1>1, <1>2, <2>1 DEF FSTypeOK
<1>6. CASE PathDone
  <2>1. /\ UNCHANGED <<disk, changes, at, number, missing_files, steady, ever, exit>>
        /\ pc = "visit" /\ pc' = "paths"
    BY <1>6 DEF PathDone, Goto
  <2>2. QED
    BY <1>1, <1>2, <2>1 DEF FSTypeOK
<1>7. CASE CheckName
  <2>1. /\ UNCHANGED <<disk, changes, at, missing_files, steady, ever>>
        /\ pc = "visit" /\ todo # <<>> /\ Head(todo).op = "file"
        /\ \/ pc' = pc /\ exit' = exit
           \/ pc' = "done" /\ exit' = "error"
           \/ pc' = "backfill" /\ todo' = todo /\ number' = File.number /\ exit' = exit
    BY <1>7 DEF CheckName, Goto, End
  <2>2. CASE (pc' = pc /\ exit' = exit) \/ (pc' = "done" /\ exit' = "error")
    BY <1>1, <1>2, <2>1, <2>2 DEF FSTypeOK
  <2>3. CASE pc' = "backfill" /\ todo' = todo /\ number' = File.number /\ exit' = exit
    <3>1. File' = File /\ File.number \in Nat /\ missing_files = <<>>
      BY <1>1, <2>1, <2>3, AtItem DEF File, NameType, FSTypeOK
    <3>2. number' = File'.number - Len(missing_files)'
      BY <2>1, <2>3, <3>1
    <3>3. QED
      BY <1>1, <1>2, <2>1, <2>3, <3>2 DEF FSTypeOK
  <2>4. QED
    BY <2>1, <2>2, <2>3
<1>8. CASE Backfill
  <2>1. /\ UNCHANGED <<disk, changes, pc, at, todo, steady, ever, exit>> /\ pc = "backfill" /\ number > 1
        /\ \/ number' = 0
           \/ \E r : number' = number - 1 /\ missing_files' = Append(missing_files, r)
    BY <1>8 DEF Backfill, More
  <2>2. File' = File /\ number = File.number - Len(missing_files) /\ todo # <<>> /\ Head(todo).op = "file"
    BY <1>1, <1>3, <2>1 DEF FSTypeOK, File
  <2>3. File.number \in Nat /\ number \in Nat
    BY <1>1, <1>3, <2>2, AtItem DEF NameType
  <2>4. number' > 0 => number' = File'.number - Len(missing_files')
    <3>1. CASE number' = 0
      BY <3>1
    <3>2. CASE \E r : number' = number - 1 /\ missing_files' = Append(missing_files, r)
      <4>1. PICK r : number' = number - 1 /\ missing_files' = Append(missing_files, r)
        BY <3>2
      <4>2. Len(missing_files') = Len(missing_files) + 1 /\ Len(missing_files) \in Nat
        BY <1>3, <4>1
      <4>3. QED
        BY <2>2, <2>3, <4>1, <4>2
    <3>3. QED
      BY <2>1, <3>1, <3>2
  <2>5. QED
    BY <1>1, <1>2, <2>1, <2>2, <2>4 DEF FSTypeOK
<1>9. CASE PrintMissing
  <2>1. /\ UNCHANGED <<disk, changes, at, steady, ever, exit>> /\ pc = "backfill" /\ pc' = "visit"
        /\ missing_files' = <<>>
    BY <1>9 DEF PrintMissing, Goto
  <2>2. QED
    BY <1>1, <1>2, <2>1 DEF FSTypeOK
<1>10. CASE Alarm
  <2>1. UNCHANGED <<disk, changes, at, steady, ever>> /\ pc' = "done" /\ exit' = "3"
    BY <1>10 DEF Alarm, End
  <2>2. QED
    BY <1>1, <1>2, <2>1 DEF FSTypeOK
<1>11. CASE \E f \in Files : ComesOrGoes(f)
  <2>1. PICK f \in Files : ComesOrGoes(f)
    BY <1>11
  <2>2. /\ UNCHANGED <<pc, at, todo, number, missing_files, exit>>
        /\ disk' \subseteq Files /\ steady' \subseteq disk' /\ disk' \subseteq ever' /\ ever' \subseteq Files
        /\ changes' \in 0..MaxChanges
    BY <1>1, <2>1, BoundAssumption DEF ComesOrGoes, FSTypeOK
  <2>3. File' = File
    BY <2>2 DEF File
  <2>4. QED
    BY <1>1, <1>2, <2>2, <2>3 DEF FSTypeOK
<1>12. CASE UNCHANGED FSVars
  <2>1. UNCHANGED <<disk, changes, pc, at, todo, number, missing_files, steady, ever, exit, File>>
    BY <1>12 DEF FSVars, File
  <2>2. QED
    BY <1>1, <1>2, <2>1 DEF FSTypeOK
<1>13. QED
  BY <1>4, <1>5, <1>6, <1>7, <1>8, <1>9, <1>10, <1>11, <1>12 DEF FSNext

(* What is looked for and not found is a name like the one at hand.          *)
LEMMA PaddedFacts ==
    ASSUME FSTypeOK, TodoIsItems, Backfill
    PROVE  /\ File \in NameType /\ number \in Nat /\ number > 1 /\ run.fixed \in BOOLEAN
           /\ Padded(number - 1) \in NameType
           /\ Padded(number - 1) = [File EXCEPT !.number = number - 1]
           /\ Reported(Padded(number - 1)) \in Reportable
<1>1. /\ File \in NameType /\ number \in Nat /\ number > 1 /\ run.fixed \in BOOLEAN
  BY AtItem, SearchFacts DEF FSTypeOK, TodoIsItems, Backfill, More
<1>2. Padded(number - 1) \in NameType /\ Padded(number - 1) = [File EXCEPT !.number = number - 1]
  BY <1>1 DEF Padded, NameType
<1>3. Reported(Padded(number - 1)) \in Reportable
  BY <1>2 DEF Reported, Reportable, NameType
<1>4. QED
  BY <1>1, <1>2, <1>3

(* Every step leaves items to do and reports names.                          *)
LEMMA TodoIsItemsStep ==
    ASSUME FSIInv, [FSNext]_FSVars
    PROVE  TodoIsItems'
<1>1. FSTypeOK /\ TodoIsItems
  BY DEF FSIInv
<1>2. run' = run /\ todo' \in Seq([op : {"walk", "file"}, of : Dirs \union Files])
  BY TodoStep DEF ItemType
<1>3. /\ pc' = "paths" => todo' = <<>>
      /\ exit' = "0" => at' > Len(run.paths) /\ todo' = <<>>
  <2>1. /\ pc = "paths" => todo = <<>>
        /\ exit = "0" => at > Len(run.paths) /\ todo = <<>>
        /\ exit = "running" <=> pc # "done"
    BY <1>1 DEF TodoIsItems, FSTypeOK
  <2>2. CASE NextPath
    BY <2>1, <2>2 DEF NextPath, Goto, End
  <2>3. CASE ProcessDirectory \/ PathDone
    BY <2>1, <2>3 DEF ProcessDirectory, PathDone, Goto
  <2>4. CASE CheckName \/ PrintMissing
    BY <2>1, <2>4 DEF CheckName, PrintMissing, Goto, End
  <2>5. CASE Backfill \/ Alarm
    BY <2>1, <2>5 DEF Backfill, Alarm, End
  <2>6. CASE UNCHANGED FSVars \/ \E f \in Files : ComesOrGoes(f)
    BY <2>1, <2>6 DEF FSVars, ComesOrGoes
  <2>7. QED
    BY <2>2, <2>3, <2>4, <2>5, <2>6 DEF FSNext
<1>4. number' \in Nat /\ missing_files' \in Seq(Reportable) /\ output' \subseteq Reportable
  <2>1. number \in Nat /\ missing_files \in Seq(Reportable) /\ output \subseteq Reportable
    BY <1>1 DEF TodoIsItems
  <2>2. CASE CheckName
    <3>1. File.number \in Nat
      BY <1>1, <2>2, AtItem DEF CheckName, NameType
    <3>2. QED
      BY <2>1, <2>2, <3>1 DEF CheckName
  <2>3. CASE Backfill
    <3>1. Reported(Padded(number - 1)) \in Reportable /\ number > 1
      BY <1>1, <2>3, PaddedFacts
    <3>2. UNCHANGED output /\ number' \in Nat
      BY <2>1, <2>3, <3>1 DEF Backfill
    <3>3. \/ missing_files' = missing_files
          \/ missing_files' = Append(missing_files, Reported(Padded(number - 1)))
      BY <2>3 DEF Backfill
    <3>4. Append(missing_files, Reported(Padded(number - 1))) \in Seq(Reportable)
      BY <2>1, <3>1, AppendProperties
    <3>5. QED
      BY <2>1, <3>2, <3>3, <3>4
  <2>4. CASE PrintMissing
    <3>1. Range(missing_files) \subseteq Reportable
      BY <2>1 DEF Range
    <3>2. QED
      BY <2>1, <2>4, <3>1 DEF PrintMissing
  <2>5. CASE NextPath \/ ProcessDirectory \/ PathDone
    BY <2>1, <2>5 DEF NextPath, ProcessDirectory, PathDone
  <2>6. CASE Alarm \/ UNCHANGED FSVars \/ \E f \in Files : ComesOrGoes(f)
    BY <2>1, <2>6 DEF Alarm, FSVars, ComesOrGoes
  <2>7. QED
    BY <2>2, <2>3, <2>4, <2>5, <2>6 DEF FSNext
<1>5. QED
  BY <1>2, <1>3, <1>4 DEF TodoIsItems

(* Files come and go: what was there at any time grows, what was there all   *)
(* the time shrinks, in every step.                                          *)
LEMMA Histories ==
    ASSUME FSIInv, [FSNext]_FSVars
    PROVE  ever \subseteq ever' /\ steady' \subseteq steady /\ steady \subseteq disk /\ disk \subseteq ever
<1>1. steady \subseteq disk /\ disk \subseteq ever
  BY DEF FSIInv, FSTypeOK
<1>2. CASE \E f \in Files : ComesOrGoes(f)
  BY <1>1, <1>2 DEF ComesOrGoes
<1>3. CASE ~\E f \in Files : ComesOrGoes(f)
  BY <1>1, <1>3 DEF FSNext, FSVars, NextPath, ProcessDirectory, PathDone, CheckName, Backfill, PrintMissing, Alarm
<1>4. QED
  BY <1>1, <1>2, <1>3

(* What was not there all the time was not, whatever comes and goes.         *)
LEMMA AbsentStays ==
    ASSUME run' = run, ever \subseteq ever', steady' \subseteq steady, NEW e, Absent(e)
    PROVE  Absent(e)'
<1>1. ASSUME NEW g \in Group(ever, e) PROVE g \in Group(ever, e)'
  BY <1>1 DEF Group
<1>2. ASSUME NEW g \in Group(steady, e)' PROVE g \in Group(steady, e)
  BY <1>2 DEF Group
<1>3. Uniform(e)' => Uniform(e)
  BY <1>1 DEF Uniform, Globbed
<1>4. QED
  BY <1>2, <1>3 DEF Absent

(* A name that is not found is not that of a file that was there all the     *)
(* time.                                                                     *)
LEMMA NotFoundIsAbsent ==
    ASSUME run.fixed \in BOOLEAN, steady \subseteq disk, disk \subseteq ever, disk \subseteq Files,
           NEW e \in NameType, ~IsFound(e)
    PROVE  Absent(Reported(e))
<1> DEFINE r == Reported(e)
<1>1. /\ r.dir = e.dir /\ r.prefix = e.prefix /\ r.number = e.number /\ r.width = e.width
      /\ run.fixed => r = e
  BY DEF Reported, NameType
<1> HIDE DEF r
<1>2. SUFFICES ASSUME Uniform(r), NEW g \in Group(steady, r), g.number = r.number PROVE FALSE
  BY DEF Absent, r
<1>3. PICK f \in steady : /\ g = Name[f] /\ g.dir = r.dir /\ g.prefix = r.prefix
                          /\ run.fixed => g.suffix = r.suffix
  BY DEF Group
<1>4. f \in disk /\ f \in ever /\ g \in NameType
  BY <1>3, NameAssumption
<1>5. g.width = r.width /\ Globbed(e)
  BY <1>1, <1>2, <1>3, <1>4 DEF Uniform, Group, Globbed
<1>6. CASE run.fixed
  <2>1. g = e
    BY <1>1, <1>2, <1>3, <1>4, <1>5, <1>6 DEF NameType
  <2>2. QED
    BY <1>3, <1>4, <1>6, <2>1 DEF IsFound
<1>7. CASE ~run.fixed
  <2>1. Begins(g, e)
    BY <1>1, <1>2, <1>3, <1>5 DEF Begins
  <2>2. QED
    BY <1>3, <1>4, <1>5, <1>7, <2>1 DEF IsFound
<1>8. QED
  BY <1>6, <1>7

(* No step reports a name that was there all the time.                       *)
LEMMA AbsentOnlyStep ==
    ASSUME FSIInv, [FSNext]_FSVars
    PROVE  AbsentOnly'
<1>1. FSTypeOK /\ TodoIsItems /\ \A e \in output \union Range(missing_files) : Absent(e)
  BY DEF FSIInv, AbsentOnly
<1>2. run' = run /\ ever \subseteq ever' /\ steady' \subseteq steady /\ steady \subseteq disk /\ disk \subseteq ever
  BY TodoStep, Histories
<1>3. \A e \in output \union Range(missing_files) : Absent(e)'
  BY <1>1, <1>2, AbsentStays
<1>4. ASSUME NEW e \in (output \union Range(missing_files))', e \notin output \union Range(missing_files)
      PROVE  Absent(e)'
  <2>1. CASE Backfill
    <3> DEFINE n == Padded(number - 1)
    <3>1. n \in NameType /\ missing_files \in Seq(Reportable) /\ Reported(n) \in Reportable /\ run.fixed \in BOOLEAN
      BY <1>1, <2>1, PaddedFacts DEF TodoIsItems
    <3>2. ~IsFound(n) /\ missing_files' = Append(missing_files, Reported(n))
      BY <1>4, <2>1 DEF Backfill
    <3>3. e = Reported(n)
      <4>1. Range(Append(missing_files, Reported(n))) = Range(missing_files) \union {Reported(n)}
        BY <3>1, Appended
      <4>2. output' = output
        BY <2>1 DEF Backfill
      <4>3. QED
        BY <1>4, <3>2, <4>1, <4>2
    <3>4. Absent(e)
      BY <1>1, <1>2, <3>1, <3>2, <3>3, NotFoundIsAbsent DEF FSTypeOK
    <3>5. QED
      BY <1>2, <3>4, AbsentStays
  <2>2. CASE PrintMissing
    <3>1. Range(<<>>) = {}
      BY DEF Range
    <3>2. QED
      BY <1>4, <2>2, <3>1 DEF PrintMissing
  <2>3. CASE ~Backfill /\ ~PrintMissing
    <3>1. output' = output /\ missing_files' = missing_files
      BY <2>3 DEF FSNext, FSVars, NextPath, ProcessDirectory, PathDone, CheckName, Alarm, ComesOrGoes
    <3>2. QED
      BY <1>4, <3>1
  <2>4. QED
    BY <2>1, <2>2, <2>3
<1>5. QED
  BY <1>3, <1>4 DEF AbsentOnly

(* What was accounted for stays so, for as long as what is reported stays,   *)
(* and what applies to a file applied before.                                *)
LEMMA StaysAccounted ==
    ASSUME FSIInv, [FSNext]_FSVars, NEW f \in Files
    PROVE  /\ Applies(f)' => Applies(f)
           /\ \A m : (AccountedFor(f, m, output) /\ output \subseteq output')
                        => AccountedFor(f, m, output)'
           /\ \A m : (AccountedFor(f, m, Range(missing_files)) /\ Range(missing_files) \subseteq Range(missing_files'))
                        => AccountedFor(f, m, Range(missing_files))'
           /\ \A m : (AccountedFor(f, m, Range(missing_files)) /\ Range(missing_files) \subseteq output')
                        => AccountedFor(f, m, output)'
<1>1. run' = run /\ ever \subseteq ever'
  BY TodoStep, Histories
<1>2. ASSUME NEW g \in Group(ever, Name[f]) PROVE g \in Group(ever, Name[f])'
  BY <1>1 DEF Group
<1>3. Applies(f)' => Applies(f)
  BY <1>1, <1>2 DEF Applies, Uniform, Globbed, NoLookalike
<1>4. ASSUME NEW e PROVE Reported(e)' = Reported(e)
  BY <1>1 DEF Reported
<1>5. QED
  BY <1>2, <1>3, <1>4 DEF AccountedFor

(* The file at hand stays the file at hand.                                  *)
LEMMA FileAtHand ==
    ASSUME FSTypeOK, TodoIsItems, todo # <<>>, Head(todo).op = "file"
    PROVE  Head(todo).of \in Files /\ File = Name[Head(todo).of] /\ File \in NameType
BY AtItem DEF File

(* A name that is found is one of the sequence, when it is numbered alike.   *)
LEMMA FoundIsInGroup ==
    ASSUME FSTypeOK, TodoIsItems, Backfill, Uniform(File), NoLookalike(File), IsFound(Padded(number - 1))
    PROVE  \E g \in Group(ever, File) : g.number = number - 1
<1> DEFINE e == Padded(number - 1)
<1>1. /\ File \in NameType /\ number \in Nat /\ e \in NameType
      /\ e = [File EXCEPT !.number = number - 1]
  BY PaddedFacts
<1>2. /\ e.dir = File.dir /\ e.prefix = File.prefix /\ e.number = number - 1
      /\ e.width = File.width /\ e.suffix = File.suffix
  BY <1>1 DEF NameType
<1>3. disk \subseteq ever /\ disk \subseteq Files
  BY DEF FSTypeOK
<1> HIDE DEF e
<1>4. CASE run.fixed
  <2>1. PICK f \in disk : e = Name[f]
    BY <1>4 DEF IsFound, e
  <2>2. e \in Group(ever, File)
    BY <1>2, <1>3, <2>1 DEF Group
  <2>3. QED
    BY <1>2, <2>2
<1>5. CASE ~run.fixed
  <2>1. PICK x \in {Name[f] : f \in disk} \union Lookalikes : Begins(x, e)
    BY <1>5 DEF IsFound, e
  <2>2. x \notin Lookalikes
    BY <1>2, <1>5, <2>1 DEF NoLookalike, Begins
  <2>3. PICK f \in disk : x = Name[f]
    BY <2>1, <2>2
  <2>4. Name[f] \in Group(ever, File) /\ Name[f] \in NameType
    BY <1>2, <1>3, <1>5, <2>1, <2>3, NameAssumption DEF Group, Begins
  <2>5. Name[f].width = File.width
    BY <2>4 DEF Uniform
  <2>6. Name[f].number = number - 1
    BY <1>1, <1>2, <2>1, <2>3, <2>4, <2>5 DEF NameType, Begins
  <2>7. QED
    BY <2>4, <2>6
<1>6. QED
  BY <1>4, <1>5

(* The loop accounts for one number after the other.                         *)
LEMMA CoveredAtHandStep ==
    ASSUME FSIInv, [FSNext]_FSVars
    PROVE  CoveredAtHand'
<1>1. FSTypeOK /\ TodoIsItems /\ CoveredAtHand /\ FSTypeOK' /\ TodoIsItems'
  BY FSTypeStep, TodoIsItemsStep DEF FSIInv
<1>2. SUFFICES ASSUME pc' = "backfill" PROVE CoveredAtHand'
  BY DEF CoveredAtHand
<1>3. todo' = todo /\ todo # <<>> /\ Head(todo).op = "file" /\ (pc = "backfill" \/ CheckName)
  <2>1. todo' # <<>> /\ Head(todo').op = "file"
    BY <1>1, <1>2 DEF FSTypeOK
  <2>2. CASE CheckName
    BY <1>1, <1>2, <2>1, <2>2 DEF CheckName, Goto
  <2>3. CASE Backfill \/ UNCHANGED FSVars \/ \E f \in Files : ComesOrGoes(f)
    BY <1>2, <2>1, <2>3 DEF Backfill, FSVars, ComesOrGoes
  <2>4. CASE NextPath \/ ProcessDirectory \/ PathDone \/ PrintMissing \/ Alarm
    BY <1>1, <1>2, <2>4 DEF NextPath, ProcessDirectory, PathDone, PrintMissing, Alarm, Goto, End
  <2>5. QED
    BY <2>2, <2>3, <2>4 DEF FSNext
<1>4. PICK f \in Files : /\ f = Head(todo).of /\ f = Head(todo').of
                         /\ File = Name[f] /\ File' = Name[f] /\ Name[f] \in NameType
  BY <1>1, <1>3, FileAtHand DEF File
<1>5. (pc = "backfill" /\ Applies(f)) =>
         \A m \in 1..(Name[f].number - 1) :
            (m < number /\ number > 0) \/ AccountedFor(f, m, Range(missing_files))
  BY <1>1, <1>4 DEF CoveredAtHand
<1>6. Name[f].number \in Nat /\ number \in Nat /\ missing_files \in Seq(Reportable)
  BY <1>1, <1>4 DEF NameType, TodoIsItems
<1>7. ASSUME Applies(f)', NEW m \in 1..(Name[f].number - 1)
      PROVE  (m < number' /\ number' > 0) \/ AccountedFor(f, m, Range(missing_files))'
  <2>1. Applies(f)
    BY <1>7, StaysAccounted
  <2>2. CASE CheckName
    BY <1>1, <1>2, <1>3, <1>4, <1>6, <2>2 DEF CheckName, FSTypeOK, Goto, End
  <2>3. CASE Backfill
    <3> DEFINE e == Padded(number - 1)
    <3>1. number > 1 /\ (m < number \/ AccountedFor(f, m, Range(missing_files)))
      BY <1>5, <1>6, <2>1, <2>3 DEF Backfill, More
    <3>2. ever' = ever /\ run' = run
      BY <2>3 DEF Backfill
    <3>3. CASE IsFound(e)
      <4>1. missing_files' = missing_files
        BY <2>3, <3>3 DEF Backfill
      <4>2. number \in Nat /\ (pc = "backfill" => number = File.number - Len(missing_files)) /\ Len(missing_files) \in Nat
        BY <1>1, <1>6, <3>1, LenProperties DEF FSTypeOK
      <4>3. number - 1 < Name[f].number
        BY <1>4, <1>6, <2>3, <4>2 DEF Backfill
      <4>4. PICK g \in Group(ever, Name[f]) : g.number = number - 1
        BY <1>1, <1>4, <2>1, <2>3, <3>3, FoundIsInGroup DEF Applies
      <4>5. AccountedFor(f, m, Range(missing_files))
        BY <1>6, <3>1, <4>3, <4>4 DEF AccountedFor
      <4>6. QED
        BY <4>1, <4>5, StaysAccounted
    <3>4. CASE ~IsFound(e)
      <4>1. number' = number - 1 /\ missing_files' = Append(missing_files, Reported(e))
        BY <2>3, <3>4 DEF Backfill
      <4>2. Range(missing_files') = Range(missing_files) \union {Reported(e)}
        <5>1. Reported(e) \in Reportable
          BY <1>1, <2>3, PaddedFacts
        <5>2. QED
          BY <1>6, <4>1, <5>1, Appended
      <4>3. CASE m < number - 1
        BY <1>6, <3>1, <4>1, <4>3
      <4>4. CASE m = number - 1
        <5>1. e = [Name[f] EXCEPT !.number = m]
          BY <1>4, <4>4 DEF Padded
        <5>2. AccountedFor(f, m, Range(missing_files))'
          BY <3>2, <4>2, <5>1 DEF AccountedFor, Reported
        <5>3. QED
          BY <5>2
      <4>5. CASE m >= number
        <5>1. AccountedFor(f, m, Range(missing_files))
          BY <1>6, <3>1, <4>5
        <5>2. AccountedFor(f, m, Range(missing_files))'
          BY <4>2, <5>1, StaysAccounted
        <5>3. QED
          BY <5>2
      <4>6. QED
        BY <1>6, <3>1, <4>3, <4>4, <4>5
    <3>5. QED
      BY <3>3, <3>4
  <2>4. CASE UNCHANGED FSVars \/ \E h \in Files : ComesOrGoes(h)
    <3>1. UNCHANGED <<pc, number, missing_files>>
      BY <2>4 DEF FSVars, ComesOrGoes
    <3>2. QED
      BY <1>2, <1>5, <2>1, <3>1, StaysAccounted
  <2>5. CASE NextPath \/ ProcessDirectory \/ PathDone \/ PrintMissing \/ Alarm
    BY <1>1, <1>2, <2>5 DEF NextPath, ProcessDirectory, PathDone, PrintMissing, Alarm, Goto, End
  <2>6. QED
    BY <2>2, <2>3, <2>4, <2>5 DEF FSNext
<1>8. QED
  BY <1>4, <1>7 DEF CoveredAtHand

(* The arguments ask for the same files throughout.                          *)
LEMMA SameSought ==
    ASSUME run' = run
    PROVE  /\ Sought' = Sought
           /\ \A p : Skipped(p)' <=> Skipped(p)
           /\ \A p, f : AsksFor(p, f)' <=> AsksFor(p, f)
<1>1. Reached' = Reached
  BY DEF Reached, DirsIn
<1>2. ASSUME NEW p PROVE Skipped(p)' <=> Skipped(p)
  BY DEF Skipped
<1>3. ASSUME NEW p, NEW f PROVE AsksFor(p, f)' <=> AsksFor(p, f)
  BY <1>1 DEF AsksFor
<1>4. QED
  BY <1>2, <1>3 DEF Sought

(* What is reported stays reported.                                          *)
LEMMA CoveredStays ==
    ASSUME FSIInv, [FSNext]_FSVars, NEW f \in Files, Covered(f)
    PROVE  Covered(f)'
<1>1. output \subseteq output'
  BY DEF FSNext, FSVars, NextPath, ProcessDirectory, PathDone, CheckName, Backfill, PrintMissing, Alarm, ComesOrGoes
<1>2. QED
  BY <1>1, StaysAccounted DEF Covered

(* A file is to come until all below it is accounted for.                    *)
LEMMA ComingStep ==
    ASSUME FSIInv, [FSNext]_FSVars, NEW f \in steady \intersect Sought, Coming(f)
    PROVE  Coming(f)' \/ Covered(f)'
<1>1. FSTypeOK /\ TodoIsItems /\ steady \subseteq disk /\ run' = run
  BY TodoStep DEF FSIInv, FSTypeOK
<1>2. f \in Files /\ f \notin run.skipped /\ f \in disk /\ f \notin Dirs
  BY <1>1, PathsAssumption DEF Sought
<1>3. Len(run.paths) \in Nat /\ DOMAIN run.paths = 1..Len(run.paths) /\ at \in 1..(Len(run.paths) + 1)
  BY <1>1, SearchFacts DEF FSTypeOK
<1>4. /\ \A p : Skipped(p)' <=> Skipped(p)
      /\ \A p : AsksFor(p, f)' <=> AsksFor(p, f)
  BY <1>1, SameSought
<1>5. ASSUME Range(todo) \subseteq Range(todo'), at' = at PROVE Coming(f)'
  BY <1>1, <1>4, <1>5 DEF Coming
<1>6. ASSUME todo # <<>>, Head(todo).op = "file", todo' = Tail(todo), at' = at,
             Head(todo).of = f => Covered(f)'
      PROVE  Coming(f)' \/ Covered(f)'
  <2>1. Range(todo) = {Head(todo)} \union Range(todo') /\ Head(todo).of \notin Dirs
    BY <1>1, <1>6, AtItem, PathsAssumption
  <2>2. AsksFor(Head(todo).of, f) => Head(todo).of = f
    BY <2>1 DEF AsksFor
  <2>3. QED
    BY <1>1, <1>4, <1>6, <2>1, <2>2 DEF Coming
<1>7. CASE NextPath
  <2>1. todo = <<>>
    BY <1>1, <1>7 DEF NextPath, TodoIsItems
  <2>2. PICK k \in DOMAIN run.paths : k >= at /\ ~Skipped(run.paths[k]) /\ AsksFor(run.paths[k], f)
    BY <2>1 DEF Coming, Range
  <2>3. CASE at' = at
    BY <1>1, <1>4, <2>2, <2>3 DEF Coming
  <2>4. CASE at' = at + 1 /\ Skipped(run.paths[at])
    <3>1. k >= at + 1
      BY <1>3, <2>2, <2>4
    <3>2. QED
      BY <1>1, <1>4, <2>2, <2>4, <3>1 DEF Coming
  <2>5. CASE at' = at + 1 /\ ~Skipped(run.paths[at])
    <3>1. ~(at > Len(run.paths)) /\ Exists(at)
      BY <1>3, <1>7, <2>5 DEF NextPath
    <3>2. PICK item \in ItemType : todo' = <<item>> /\ item.of = run.paths[at]
      BY <1>1, <1>7, <2>5, <3>1, NextPathFacts
    <3>3. item \in Range(todo')
      BY <3>2 DEF Range
    <3>4. CASE k = at
      BY <1>4, <2>2, <3>2, <3>3, <3>4 DEF Coming
    <3>5. CASE k # at
      <4>1. k >= at'
        BY <1>3, <2>2, <2>5, <3>5
      <4>2. QED
        BY <1>1, <1>4, <2>2, <4>1 DEF Coming
    <3>6. QED
      BY <3>4, <3>5
  <2>6. QED
    BY <1>7, <2>3, <2>4, <2>5 DEF NextPath
<1>8. CASE ProcessDirectory
  <2> DEFINE d == Head(todo).of
  <2>1. /\ d \in Dirs /\ Range(todo) = {Head(todo)} \union Range(Tail(todo))
        /\ Range(Tail(todo)) \subseteq Range(todo')
        /\ \A x \in ListedIn(d) : Item("file", x) \in Range(todo')
        /\ \A s \in DirsIn(d) : Item("walk", s) \in Range(todo')
    BY <1>1, <1>8, Processed
  <2>2. at' = at
    BY <1>8 DEF ProcessDirectory
  <2>3. ASSUME AsksFor(d, f) PROVE \E item \in Range(todo') : AsksFor(item.of, f)
    <3>1. Name[f].dir \in Below(d, Reached) /\ Name[f].dir \notin run.locked
      BY <1>2, <2>1, <2>3 DEF AsksFor
    <3>2. CASE Name[f].dir = d
      <4>1. f \in ListedIn(d)
        BY <1>2, <3>1, <3>2 DEF ListedIn, Skipped
      <4>2. AsksFor(Item("file", f).of, f)
        BY DEF AsksFor, Item
      <4>3. QED
        BY <2>1, <4>1, <4>2
    <3>3. CASE Name[f].dir # d
      <4>1. Reached \in [Dirs -> SUBSET Dirs] /\ Reached[d] = DirsIn(d)
        BY <2>1, SubdirsAssumption DEF Reached, DirsIn
      <4>2. PICK s \in DirsIn(d) : Name[f].dir \in Below(s, Reached)
        BY <2>1, <3>1, <3>3, <4>1, BelowUnfolds
      <4>3. AsksFor(Item("walk", s).of, f)
        BY <2>1, <3>1, <4>1, <4>2 DEF AsksFor, Item
      <4>4. QED
        BY <2>1, <4>2, <4>3
    <3>4. QED
      BY <3>2, <3>3
  <2>4. QED
    BY <1>1, <1>4, <2>1, <2>2, <2>3 DEF Coming
<1>9. CASE CheckName
  <2>1. /\ todo # <<>> /\ Head(todo).op = "file" /\ at' = at
        /\ \/ todo' = todo
           \/ todo' = Tail(todo) /\ File.width = 0
    BY <1>9 DEF CheckName, End
  <2>2. CASE todo' = todo
    BY <1>5, <2>1, <2>2
  <2>3. CASE todo' = Tail(todo) /\ File.width = 0
    <3>1. Head(todo).of = f => Covered(f)'
      BY <2>3 DEF File, Covered, Applies
    <3>2. QED
      BY <1>6, <2>1, <2>3, <3>1
  <2>4. QED
    BY <2>1, <2>2, <2>3
<1>10. CASE PrintMissing
  <2>1. /\ pc = "backfill" /\ ~(number > 1) /\ at' = at /\ todo' = Tail(todo)
        /\ Range(missing_files) \subseteq output' /\ todo # <<>> /\ Head(todo).op = "file"
    BY <1>1, <1>10 DEF PrintMissing, More, FSTypeOK
  <2>2. ASSUME Head(todo).of = f PROVE Covered(f)'
    <3>1. Applies(f) => \A m \in 1..(Name[f].number - 1) :
             (m < number /\ number > 0) \/ AccountedFor(f, m, Range(missing_files))
      BY <2>1, <2>2 DEF FSIInv, CoveredAtHand, File
    <3>2. number \in Nat
      BY <1>1 DEF TodoIsItems
    <3>3. Applies(f) => \A m \in 1..(Name[f].number - 1) : AccountedFor(f, m, Range(missing_files))
      BY <2>1, <3>1, <3>2
    <3>4. QED
      BY <1>2, <2>1, <3>3, StaysAccounted DEF Covered
  <2>3. QED
    BY <1>6, <2>1, <2>2
<1>11. CASE PathDone \/ Backfill \/ Alarm \/ UNCHANGED FSVars \/ \E h \in Files : ComesOrGoes(h)
  <2>1. todo' = todo /\ at' = at
    BY <1>11 DEF PathDone, Backfill, Alarm, FSVars, ComesOrGoes
  <2>2. QED
    BY <1>5, <2>1
<1>12. QED
  BY <1>7, <1>8, <1>9, <1>10, <1>11 DEF FSNext

(* Hence every file asked for is to come or accounted for.                   *)
LEMMA AllCoveredStep ==
    ASSUME FSIInv, [FSNext]_FSVars
    PROVE  AllCovered'
<1>1. Sought' = Sought /\ steady' \subseteq steady /\ Sought \subseteq Files
  BY TodoStep, SameSought, Histories DEF Sought
<1>2. ASSUME NEW f \in steady \intersect Sought PROVE Coming(f)' \/ Covered(f)'
  BY <1>1, ComingStep, CoveredStays DEF FSIInv, AllCovered
<1>3. QED
  BY <1>1, <1>2 DEF AllCovered

(* The start of a search.                                                    *)
LEMMA SearchBegins == FSInit => FSIInv
<1> SUFFICES ASSUME FSInit PROVE FSIInv
  OBVIOUS
<1>1. /\ run \in Searches /\ changes = 0 /\ pc = "paths" /\ at = 1 /\ todo = <<>> /\ number = 0
      /\ missing_files = <<>> /\ output = {} /\ steady = disk /\ ever = disk /\ exit = "running"
      /\ disk \subseteq Files
  BY ListingsAssumption DEF FSInit
<1>2. Len(run.paths) \in Nat /\ DOMAIN run.paths = 1..Len(run.paths) /\ MaxChanges \in Nat
  BY <1>1, SearchFacts, BoundAssumption
<1>3. FSTypeOK
  <2>1. at \in 1..(Len(run.paths) + 1) /\ changes \in 0..MaxChanges
    BY <1>1, <1>2
  <2>2. QED
    BY <1>1, <2>1 DEF FSTypeOK
<1>4. TodoIsItems
  BY <1>1 DEF TodoIsItems
<1>5. AbsentOnly /\ CoveredAtHand
  BY <1>1 DEF AbsentOnly, CoveredAtHand, Range
<1>6. AllCovered
  <2>1. ASSUME NEW f \in Sought PROVE Coming(f)
    BY <1>1, <1>2 DEF Sought, Coming
  <2>2. QED
    BY <2>1 DEF AllCovered
<1>7. QED
  BY <1>3, <1>4, <1>5, <1>6 DEF FSIInv

(* The inductive invariant of the search holds in every state.               *)
THEOREM SearchInvariance == FSSpec => []FSIInv
<1>1. FSIInv /\ [FSNext]_FSVars => FSIInv'
  BY FSTypeStep, TodoIsItemsStep, AbsentOnlyStep, AllCoveredStep, CoveredAtHandStep DEF FSIInv
<1>2. QED
  BY <1>1, SearchBegins, PTL DEF FSSpec

(* The types of the state of the search.                                     *)
THEOREM SearchTypeCorrect == FSSpec => []FSTypeOK
<1>1. FSIInv => FSTypeOK
  BY DEF FSIInv
<1>2. QED
  BY <1>1, SearchInvariance, PTL

(* Files of one sequence have the same group and are reported alike.         *)
LEMMA SameSequence ==
    ASSUME run \in Searches, NEW f \in Files, NEW h \in Files, Applies(f), h \in ever,
           Name[h] \in Group(ever, Name[f])
    PROVE  /\ Applies(h) /\ Group(ever, Name[h]) = Group(ever, Name[f])
           /\ \A n : Reported([Name[h] EXCEPT !.number = n]) = Reported([Name[f] EXCEPT !.number = n])
<1>1. /\ Name[f] \in NameType /\ Name[h] \in NameType /\ run.fixed \in BOOLEAN
  BY SearchFacts, NameAssumption
<1>2. /\ Name[h].dir = Name[f].dir /\ Name[h].prefix = Name[f].prefix
      /\ run.fixed => Name[h].suffix = Name[f].suffix
      /\ Name[h].width = Name[f].width
  BY DEF Group, Applies, Uniform
<1>3. Group(ever, Name[h]) = Group(ever, Name[f])
  BY <1>2 DEF Group
<1>4. Applies(h)
  BY <1>2, <1>3 DEF Applies, Uniform, Globbed, NoLookalike
<1>5. ASSUME NEW n
      PROVE Reported([Name[h] EXCEPT !.number = n]) = Reported([Name[f] EXCEPT !.number = n])
  <2>1. CASE run.fixed
    BY <1>1, <1>2, <2>1 DEF Reported, NameType
  <2>2. CASE ~run.fixed
    BY <1>1, <1>2, <2>2 DEF Reported, NameType
  <2>3. QED
    BY <2>1, <2>2
<1>6. QED
  BY <1>3, <1>4, <1>5

(* What is reported missing was not there all the time, and when the search  *)
(* ends with 0 every gap below a file is reported, however many files there  *)
(* are, whatever their names and whoever comes and goes.                     *)
THEOREM MissingTheorem == FSSpec => []MissingAreReported
<1>1. ASSUME FSIInv PROVE MissingAreReported
  <2>1. FSTypeOK /\ TodoIsItems /\ run \in Searches /\ steady \subseteq ever
    BY <1>1 DEF FSIInv, FSTypeOK
  <2>2. \A e \in output : Absent(e)
    BY <1>1 DEF FSIInv, AbsentOnly
  <2>3. ASSUME exit = "0", NEW f \in steady \intersect Sought,
               Name[f].width > 0, Uniform(Name[f]), NoLookalike(Name[f]),
               NEW before, before = {g \in Group(ever, Name[f]) : g.number < Name[f].number},
               before \subseteq Group(steady \intersect Sought, Name[f]),
               NEW n \in 1..(Name[f].number - 1)
        PROVE  \/ \E g \in before : g.number = n
               \/ Reported([Name[f] EXCEPT !.number = n]) \in output
    <3>1. at > Len(run.paths) /\ todo = <<>> /\ DOMAIN run.paths = 1..Len(run.paths)
          /\ Len(run.paths) \in Nat /\ at \in Nat
      BY <2>1, <2>3, SearchFacts DEF TodoIsItems, FSTypeOK
    <3>2. ASSUME NEW h \in steady \intersect Sought PROVE Covered(h)
      <4>1. ~Coming(h)
        BY <3>1 DEF Coming, Range
      <4>2. QED
        BY <1>1, <4>1 DEF FSIInv, AllCovered
    <3>3. Sought \subseteq Files /\ Applies(f)
      BY <2>3 DEF Sought, Applies
    <3>4. Name[f] \in Group(steady \intersect Sought, Name[f]) /\ Name[f].number \in Nat
      BY <2>3, <3>3, NameAssumption DEF Group, NameType
    <3> DEFINE T == {Name[h].number : h \in {x \in steady \intersect Sought :
                        Name[x] \in Group(ever, Name[f]) /\ n < Name[x].number /\ Name[x].number <= Name[f].number}}
    <3>5. T \in SUBSET Nat
      BY <3>3, NameAssumption DEF NameType
    <3>6. Name[f] \in Group(ever, Name[f])
      BY <2>1, <2>3 DEF Group
    <3>7. Name[f].number \in T
      BY <2>3, <3>4, <3>6
    <3>8. PICK k \in T : \A l \in T : k <= l
      <4> HIDE DEF T
      <4>1. T # {}
        BY <3>7
      <4>2. QED
        BY <3>5, <4>1, LeastNumber
    <3>9. PICK h \in steady \intersect Sought :
            /\ Name[h] \in Group(ever, Name[f]) /\ n < k /\ k <= Name[f].number
            /\ k = Name[h].number
      BY <3>8
    <3>10. h \in Files /\ h \in ever /\ f \in Files /\ k \in Nat /\ n \in Nat /\ n >= 1
      BY <2>1, <3>3, <3>4, <3>5, <3>8
    <3>11. /\ Applies(h) /\ Group(ever, Name[h]) = Group(ever, Name[f])
           /\ Reported([Name[h] EXCEPT !.number = n]) = Reported([Name[f] EXCEPT !.number = n])
      BY <2>1, <3>3, <3>9, <3>10, SameSequence
    <3>12. AccountedFor(h, n, output)
      <4>1. n \in 1..(Name[h].number - 1)
        BY <3>9, <3>10
      <4>2. QED
        BY <3>2, <3>9, <3>11, <4>1 DEF Covered
    <3>13. ASSUME NEW g \in Group(ever, Name[f]), n <= g.number, g.number < k
           PROVE  g \in before /\ g.number = n
      <4>1. g.number \in Nat
        <5>1. PICK x \in ever : g = Name[x]
          BY <3>13 DEF Group
        <5>2. x \in Files
          BY <2>1 DEF FSTypeOK
        <5>3. QED
          BY <5>1, <5>2, NameAssumption DEF NameType
      <4>2. g \in before
        BY <2>3, <3>4, <3>9, <3>10, <3>13, <4>1
      <4>3. PICK x \in steady \intersect Sought : g = Name[x]
        BY <2>3, <4>2 DEF Group
      <4>4. CASE n < g.number
        <5>1. g.number \in T
          BY <3>4, <3>9, <3>10, <3>13, <4>1, <4>3, <4>4
        <5>2. k <= g.number
          BY <3>8, <5>1
        <5>3. QED
          BY <3>10, <3>13, <4>1, <5>2
      <4>5. QED
        BY <3>10, <3>13, <4>1, <4>2, <4>4
    <3>14. QED
      BY <3>9, <3>11, <3>12, <3>13 DEF AccountedFor
  <2>4. QED
    BY <2>2, <2>3 DEF MissingAreReported
<1>2. QED
  BY <1>1, SearchInvariance, PTL
=============================================================================
