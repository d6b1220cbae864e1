-------------------------- MODULE DuplicateFiles --------------------------
(* find_duplicate_files.py: every file met on the command line's trees is  *)
(* compared with those met before it, by basename, size, size + checksum   *)
(* and regex capture.  Checksums are lazy: the first file of a size is     *)
(* hashed only when a second one of that size turns up ("backtracking").   *)
(* Files may be removed by others while the program runs.                  *)
(*                                                                         *)
(* A checksum is identified with the contents it was taken from.  Entries  *)
(* the code keeps under sizes[0] / sizes[False] are left out: no branch    *)
(* that reads sizes is reached with a size of zero.                        *)
EXTENDS Naturals, Sequences, FiniteSets, FilePrograms

CONSTANTS
    Names,          \* their basenames
    Captures,       \* what the regex captures of a basename
    CaptureOf,      \* basename -> set of captures: empty if it does not match
    Contents,
    SizeOf,         \* contents -> size in bytes
    Options,        \* the option settings a run may be started with
    Walks,          \* the orders in which the arguments' trees yield files
    MaxRemoved      \* bound: how many files others remove during the run

OptionType ==
    [name : BOOLEAN, size : BOOLEAN, checksum : BOOLEAN, regex : BOOLEAN,
     noShortCircuit : BOOLEAN, quiet : BOOLEAN, python : {2, 3}]

(* With no method given, process_args enables name and checksum.           *)
ASSUME OptionsAssumption ==
    /\ Options \subseteq OptionType
    /\ \A o \in Options : o.name \/ o.size \/ o.checksum \/ o.regex

ASSUME FilesAssumption ==
    /\ IsFiniteSet(Files)
    /\ Walks \subseteq Seq(Files)
    /\ SizeOf \in [Contents -> Nat]
    /\ CaptureOf \in [Names -> SUBSET Captures]
    /\ \A n \in Names : \A x, y \in CaptureOf[n] : x = y
    /\ MaxRemoved \in Nat

Sizes == {SizeOf[c] : c \in Contents}

VARIABLES
    opt, basename, content,     \* the run's options and its files
    walk,                       \* the walk, of which it has seen at many files
    removed,                    \* the files that no longer exist
    files,                      \* basename -> {} or {first path with it}
    sizes,                      \* size -> the paths recorded under it
    unhashed,                   \* the recorded paths whose checksum is None
    hashes,                     \* checksum -> paths
    checksum,                   \* the local of is_file_dup_by_hash: {} or {c}
    captured,                   \* capture -> {} or {first path with it}
    dupsByName, dupsBySize, dupsByHash, dupsByRegex,
    failed,                     \* self.failed
    printed

found == <<dupsByName, dupsBySize, dupsByHash, dupsByRegex>>
seen == <<files, sizes, unhashed, hashes, captured>>
given == <<opt, basename, content, walk>>
vars == <<given, at, removed, seen, checksum, found, failed, pc, printed, exit>>

Init ==
    /\ opt \in Options
    /\ basename \in [Files -> Names]
    /\ content \in [Files -> Contents]
    /\ walk \in Walks
    /\ at = 0
    /\ removed = {}
    /\ files = [n \in Names |-> {}]
    /\ sizes = [s \in Sizes |-> {}]
    /\ unhashed = {}
    /\ hashes = [c \in Contents |-> {}]
    /\ checksum = {}
    /\ captured = [x \in Captures |-> {}]
    /\ dupsByName = [n \in Names |-> {}]
    /\ dupsBySize = [s \in Sizes |-> {}]
    /\ dupsByHash = [c \in Contents |-> {}]
    /\ dupsByRegex = [x \in Captures |-> {}]
    /\ failed = FALSE
    /\ pc = "walk"
    /\ printed = {}
    /\ exit = "running"

file == walk[at]                \* the argument of is_file_dup
size == SizeOf[content[file]]   \* what os.stat says of it

-----------------------------------------------------------------------------
(* The order of is_file_dup: name, then checksum or else size, then regex; *)
(* a duplicate is not looked at any further unless --no-short-circuit.     *)
AfterContent == IF opt.regex THEN "regex" ELSE "walk"

AfterName ==
    IF opt.checksum THEN "stat" ELSE IF opt.size THEN "size" ELSE AfterContent

OnDuplicate(next) == IF opt.noShortCircuit THEN next ELSE "walk"

(* An exception that is not an OSError ends the program.                   *)
Crash ==
    /\ pc' = "done"
    /\ exit' = "error"

(* check_path catches OSError, notes the failure and goes on to the next.  *)
OSError ==
    /\ pc' = "walk"
    /\ failed' = TRUE
    /\ UNCHANGED exit

(* The next file of check_path.  Symlinks and .DS_Store are no part of a   *)
(* walk here: is_file_dup returns for them without having done anything.   *)
Visit ==
    /\ pc = "walk"
    /\ at < Len(walk)
    /\ at' = at + 1
    /\ pc' = IF opt.name THEN "name" ELSE AfterName
    /\ UNCHANGED <<given, removed, seen, checksum, found, failed, printed, exit>>

(* check_path dies on an argument that is neither a file nor a directory:   *)
(* it was removed, with what was in it, after check_args.                   *)
NotFound ==
    /\ pc = "walk"
    /\ at < Len(walk)
    /\ walk[at + 1] \in removed
    /\ pc' = "done"
    /\ exit' = "2"
    /\ UNCHANGED <<given, at, removed, seen, checksum, found, failed, printed>>

IsFileDupByName ==
    /\ pc = "name"
    /\ LET b == basename[file] IN
       IF files[b] # {}
       THEN /\ dupsByName' = [dupsByName EXCEPT ![b] = @ \union files[b] \union {file}]
            /\ pc' = OnDuplicate(AfterName)
            /\ UNCHANGED files
       ELSE /\ files' = [files EXCEPT ![b] = {file}]
            /\ pc' = AfterName
            /\ UNCHANGED dupsByName
    /\ UNCHANGED <<given, at, removed, sizes, unhashed, hashes, captured, checksum,
                   dupsBySize, dupsByHash, dupsByRegex, failed, printed, exit>>

(* is_file_dup_by_size, as the whole test (pc = "size") and as the first   *)
(* half of is_file_dup_by_hash (pc = "stat").  set.add takes one argument: *)
(* it fails once sizes[size] holds a second path.                          *)
IsFileDupBySize(next) ==
    \/ /\ file \in removed
       /\ OSError
       /\ UNCHANGED <<sizes, unhashed, dupsBySize>>
    \/ /\ file \notin removed
       /\ size = 0 \/ sizes[size] = {}
       /\ sizes' = IF size = 0 THEN sizes ELSE [sizes EXCEPT ![size] = {file}]
       /\ unhashed' = IF size = 0 THEN unhashed ELSE unhashed \union {file}
       /\ pc' = AfterContent
       /\ UNCHANGED <<dupsBySize, failed, exit>>
    \/ /\ file \notin removed
       /\ size # 0 /\ sizes[size] # {}
       /\ opt.size /\ Cardinality(sizes[size]) > 1
       /\ Crash
       /\ UNCHANGED <<sizes, unhashed, dupsBySize, failed>>
    \/ /\ file \notin removed
       /\ size # 0 /\ sizes[size] # {}
       /\ opt.size => Cardinality(sizes[size]) = 1
       /\ dupsBySize' = IF opt.size
                        THEN [dupsBySize EXCEPT ![size] = @ \union sizes[size] \union {file}]
                        ELSE dupsBySize
       /\ pc' = next
       /\ UNCHANGED <<sizes, unhashed, failed, exit>>

BySize ==
    /\ pc = "size"
    /\ IsFileDupBySize(OnDuplicate(AfterContent))
    /\ UNCHANGED <<given, at, removed, files, hashes, captured, checksum,
                   dupsByName, dupsByHash, dupsByRegex, printed>>

StatForHash ==
    /\ pc = "stat"
    /\ IsFileDupBySize("hash")
    /\ UNCHANGED <<given, at, removed, files, hashes, captured, checksum,
                   dupsByName, dupsByHash, dupsByRegex, printed>>

(* hash(f): open() fails with an IOError, which is an OSError in Python 3  *)
(* only; md5() of the str read from a text file fails in Python 3.         *)
HashFails(f) ==
    /\ f \in removed \/ opt.python = 3
    /\ IF f \in removed /\ opt.python = 3
       THEN OSError
       ELSE Crash /\ UNCHANGED failed
    /\ UNCHANGED <<unhashed, hashes, checksum>>

HashOf(f) ==
    /\ f \notin removed
    /\ opt.python = 2
    /\ unhashed' = unhashed \ {f}
    /\ hashes' = [hashes EXCEPT ![content[f]] = @ \union {f}]
    /\ checksum' = {content[f]}

(* Mutant: the first file of a size is never hashed.                       *)
HashFileNoBacktrack ==
    /\ pc = "hash"
    /\ \/ HashFails(file) /\ UNCHANGED sizes
       \/ /\ HashOf(file)
          /\ sizes' = [sizes EXCEPT ![size] = @ \union {file}]
          /\ pc' = "compare"
          /\ UNCHANGED <<failed, exit>>
    /\ UNCHANGED <<given, at, removed, files, captured, found, printed>>

(* The file itself, now that its size is known to be shared.               *)
HashFile ==
    /\ pc = "hash"
    /\ \/ HashFails(file) /\ UNCHANGED sizes
       \/ /\ HashOf(file)
          /\ sizes' = [sizes EXCEPT ![size] = @ \union {file}]
          /\ pc' = IF Cardinality(sizes'[size]) = 2 /\ sizes'[size] \intersect unhashed' # {}
                   THEN "backtrack" ELSE "compare"
          /\ UNCHANGED <<failed, exit>>
    /\ UNCHANGED <<given, at, removed, files, captured, found, printed>>

(* The first file of this size, which was only recorded so far.  It stays  *)
(* in the variable checksum.                                               *)
Backtrack ==
    /\ pc = "backtrack"
    /\ \E first \in sizes[size] \intersect unhashed :
         \/ HashFails(first)
         \/ HashOf(first) /\ pc' = "compare" /\ UNCHANGED <<failed, exit>>
    /\ UNCHANGED <<given, at, removed, files, sizes, captured, found, printed>>

(* Mutant: the checksum of one call is still there in the next.            *)
CompareHashesNoReset ==
    /\ pc = "compare"
    /\ \E c \in checksum :
         IF Cardinality(hashes[c]) > 1
         THEN /\ dupsByHash' = [dupsByHash EXCEPT ![c] = @ \union hashes[c]]
              /\ pc' = OnDuplicate(AfterContent)
         ELSE /\ pc' = AfterContent
              /\ UNCHANGED dupsByHash
    /\ UNCHANGED <<given, at, removed, seen, checksum, dupsByName, dupsBySize,
                   dupsByRegex, failed, printed, exit>>

CompareHashes ==
    /\ pc = "compare"
    /\ \E c \in checksum :
         IF Cardinality(hashes[c]) > 1
         THEN /\ dupsByHash' = [dupsByHash EXCEPT ![c] = @ \union hashes[c]]
              /\ pc' = OnDuplicate(AfterContent)
         ELSE /\ pc' = AfterContent
              /\ UNCHANGED dupsByHash
    /\ checksum' = {}
    /\ UNCHANGED <<given, at, removed, seen, dupsByName, dupsBySize, dupsByRegex,
                   failed, printed, exit>>

IsFileDupByRegex ==
    /\ pc = "regex"
    /\ pc' = "walk"
    /\ LET matched == CaptureOf[basename[file]] IN
       \/ /\ matched = {}
          /\ UNCHANGED <<captured, dupsByRegex>>
       \/ \E x \in matched :
            IF captured[x] # {}
            THEN /\ dupsByRegex' = [dupsByRegex EXCEPT ![x] = @ \union captured[x] \union {file}]
                 /\ UNCHANGED captured
            ELSE /\ captured' = [captured EXCEPT ![x] = {file}]
                 /\ UNCHANGED dupsByRegex
    /\ UNCHANGED <<given, at, removed, files, sizes, unhashed, hashes, checksum,
                   dupsByName, dupsBySize, dupsByHash, failed, printed, exit>>

-----------------------------------------------------------------------------
Grouped(dups) == UNION {dups[k] : k \in DOMAIN dups}

NamesFound == {n \in Names : dupsByName[n] # {}}

PathsFound ==
    Grouped(dupsByName) \union Grouped(dupsBySize)
        \union Grouped(dupsByHash) \union Grouped(dupsByRegex)

(* The end of run().  Quiet mode takes the keys of dups_by_name where it   *)
(* takes the paths of the other methods, and itervalues() is no method of  *)
(* a Python 3 dict.                                                        *)
Report ==
    /\ pc = "walk"
    /\ at = Len(walk)
    /\ pc' = "done"
    /\ IF PathsFound = {}
       THEN /\ exit' = IF failed THEN "2" ELSE "0"
            /\ UNCHANGED printed
       ELSE IF opt.quiet
       THEN IF opt.python = 3
            THEN exit' = "error" /\ UNCHANGED printed
            ELSE /\ exit' = "4"
                 /\ printed' = NamesFound \union Grouped(dupsBySize)
                                 \union Grouped(dupsByHash) \union Grouped(dupsByRegex)
       ELSE /\ exit' = "4"
            /\ printed' = PathsFound
    /\ UNCHANGED <<given, at, removed, seen, checksum, found, failed>>

(* Somebody else removes a file, other than one that a later argument      *)
(* would find missing: os.walk yields only what is there.                  *)
RemoveFile(f) ==
    /\ pc # "done"
    /\ f \notin removed
    /\ \A i, j \in DOMAIN walk : (walk[i] = f /\ walk[j] = f) => i = j
    /\ Cardinality(removed) < MaxRemoved
    /\ removed' = removed \union {f}
    /\ UNCHANGED <<given, at, seen, checksum, found, failed, pc, printed, exit>>

Next ==
    \/ Visit \/ NotFound \/ IsFileDupByName \/ BySize \/ StatForHash \/ HashFile \/ Backtrack
    \/ CompareHashes \/ IsFileDupByRegex \/ Report
    \/ \E f \in Files : RemoveFile(f)

Spec == Init /\ [][Next]_vars

-----------------------------------------------------------------------------
(* The type invariant; unhashed paths are recorded ones, and the local     *)
(* checksum is set only between hashing and comparing.                     *)
TypeOK ==
    /\ opt \in Options /\ walk \in Walks
    /\ basename \in [Files -> Names] /\ content \in [Files -> Contents]
    /\ at \in 0..Len(walk)
    /\ removed \in SUBSET Files
    /\ files \in [Names -> SUBSET Files]
    /\ sizes \in [Sizes -> SUBSET Files]
    /\ unhashed \in SUBSET Files
    /\ \A f \in unhashed : f \in sizes[SizeOf[content[f]]]
    /\ hashes \in [Contents -> SUBSET Files]
    /\ checksum \in SUBSET Contents
    /\ captured \in [Captures -> SUBSET Files]
    /\ dupsByName \in [Names -> SUBSET Files]
    /\ dupsBySize \in [Sizes -> SUBSET Files]
    /\ dupsByHash \in [Contents -> SUBSET Files]
    /\ dupsByRegex \in [Captures -> SUBSET Files]
    /\ failed \in BOOLEAN
    /\ pc \in {"walk", "name", "size", "stat", "hash", "backtrack", "compare", "regex", "done"}
    /\ checksum # {} => pc \in {"backtrack", "compare", "done"}
    /\ exit \in {"running", "0", "2", "4", "error"}

(* What each method should find among the visits 1..at: the files of every *)
(* key that was met more than once.                                        *)
Visits == 1..at

SameName(n) == {i \in Visits : basename[walk[i]] = n}
SameCapture(x) == {i \in Visits : x \in CaptureOf[basename[walk[i]]]}
SameSize(s) == {i \in Visits : SizeOf[content[walk[i]]] = s}
SameContent(c) == {walk[i] : i \in {j \in Visits : content[walk[j]] = c}}

PathsOf(visits) == {walk[i] : i \in visits}

DuplicateNames == [n \in Names |->
    IF opt.name /\ Cardinality(SameName(n)) > 1 THEN PathsOf(SameName(n)) ELSE {}]
DuplicateCaptures == [x \in Captures |->
    IF opt.regex /\ Cardinality(SameCapture(x)) > 1 THEN PathsOf(SameCapture(x)) ELSE {}]
DuplicateSizes == [s \in Sizes |->
    IF opt.size /\ s # 0 /\ Cardinality(SameSize(s)) > 1 THEN PathsOf(SameSize(s)) ELSE {}]
DuplicateContents == [c \in Contents |->
    IF opt.checksum /\ SizeOf[c] # 0 /\ Cardinality(SameContent(c)) > 1
    THEN SameContent(c) ELSE {}]

(* At any time, short-circuiting or not, what was found so far is right,   *)
(* and a group has two files unless the walk yields a path twice; with     *)
(* --no-short-circuit the report holds exactly the duplicates of each      *)
(* enabled method, whatever the order of the walk: lazy hashing and        *)
(* backtracking in is_file_dup_by_hash lose no file and add none.          *)
GroupsAreRight ==
    /\ \A n \in Names : dupsByName[n] \subseteq DuplicateNames[n]
    /\ \A s \in Sizes : dupsBySize[s] \subseteq DuplicateSizes[s]
    /\ \A c \in Contents : dupsByHash[c] \subseteq DuplicateContents[c]
    /\ \A x \in Captures : dupsByRegex[x] \subseteq DuplicateCaptures[x]
    /\ \A dups \in {dupsByName, dupsBySize, dupsByHash, dupsByRegex} :
         \A k \in DOMAIN dups :
            Cardinality(dups[k]) = 1 => \E i, j \in Visits : i # j /\ walk[i] = walk[j]
    /\ (exit = "4" /\ opt.noShortCircuit /\ ~failed) =>
         /\ dupsByName = DuplicateNames
         /\ dupsBySize = DuplicateSizes
         /\ dupsByHash = DuplicateContents
         /\ dupsByRegex = DuplicateCaptures

(* Exit code 0 means that no two files visited are duplicates by any of    *)
(* the enabled methods, although short-circuiting skipped checks.          *)
CleanExitMeansNoDuplicates ==
    exit = "0" =>
        /\ Grouped(DuplicateNames) = {} /\ Grouped(DuplicateSizes) = {}
        /\ Grouped(DuplicateContents) = {} /\ Grouped(DuplicateCaptures) = {}

-----------------------------------------------------------------------------
(* What the invariants rest on: where a file is on its way through the     *)
(* tests of is_file_dup.                                                   *)
Phases ==
    /\ pc = "name" => opt.name
    /\ pc = "size" => opt.size /\ ~opt.checksum
    /\ pc \in {"stat", "hash", "backtrack", "compare"} => opt.checksum
    /\ pc \in {"hash", "backtrack", "compare"} => size # 0 /\ sizes[size] # {}
    /\ pc \in {"backtrack", "compare"} => opt.python = 2
    /\ pc = "regex" => opt.regex
    /\ pc \notin {"walk", "done"} => at \in Visits
    /\ (exit = "running") = (pc # "done")

(* The last visit a test has dealt with.                                   *)
NamesTo == IF pc = "name" THEN at - 1 ELSE at
SizesTo == IF pc \in {"name", "size", "stat"} THEN at - 1 ELSE at
HashesTo ==
    IF pc \in {"name", "size", "stat", "hash", "backtrack", "compare"} THEN at - 1 ELSE at
CapturesTo == IF pc \in {"walk", "done"} THEN at ELSE at - 1

(* The visits up to there, by what is compared.                            *)
Named(last) == [n \in Names |-> {i \in 1..last : basename[walk[i]] = n}]
Sized(last) ==
    [s \in Sizes |-> {i \in 1..last : s # 0 /\ SizeOf[content[walk[i]]] = s}]
Capturing(last) ==
    [x \in Captures |-> {i \in 1..last : x \in CaptureOf[basename[walk[i]]]}]

(* For visits grouped by key: what is recorded under a key was visited, and *)
(* what was found is of a key visited twice; every key visited is recorded, *)
(* and every key visited twice was found with all its paths.                *)
Recorded(w, visits, table) ==
    \A k \in DOMAIN visits : \A f \in table[k] : \E i \in visits[k] : w[i] = f
Right(w, visits, dups) ==
    \A k \in DOMAIN visits :
        /\ \A f \in dups[k] : \E i \in visits[k] : w[i] = f
        /\ dups[k] # {} =>
             \E i, j \in visits[k] :
                 i # j /\ {w[i], w[j]} \subseteq dups[k]
Covers(visits, table) == \A k \in DOMAIN visits : visits[k] # {} => table[k] # {}
All(w, visits, dups) ==
    \A k \in DOMAIN visits : \A i, j \in visits[k] : i # j => w[i] \in dups[k]

(* What holds whether or not files were skipped or failed.                 *)
NamesSound ==
    /\ Recorded(walk, Named(NamesTo), files)
    /\ Right(walk, Named(NamesTo), dupsByName)
    /\ \A n \in Names : dupsByName[n] # {} => opt.name
SizesSound ==
    /\ Recorded(walk, Sized(SizesTo), sizes)
    /\ Right(walk, Sized(SizesTo), dupsBySize)
    /\ \A s \in Sizes : dupsBySize[s] # {} => opt.size
CapturesSound ==
    /\ Recorded(walk, Capturing(CapturesTo), captured)
    /\ Right(walk, Capturing(CapturesTo), dupsByRegex)
    /\ \A x \in Captures : dupsByRegex[x] # {} => opt.regex
HashesSound ==
    \A c \in Contents :
        /\ \A f \in hashes[c] :
             content[f] = c /\ SizeOf[c] # 0 /\ \E i \in Visits : walk[i] = f
        /\ dupsByHash[c] \subseteq hashes[c]
        /\ dupsByHash[c] # {} => opt.checksum /\ \E f, g \in dupsByHash[c] : f # g

(* No test was skipped so far and none failed.                             *)
Complete ==
    /\ ~failed
    /\ exit \notin {"2", "error"}
    /\ opt.noShortCircuit \/ PathsFound = {}

(* What holds as long as that is so.                                       *)
NamesExact ==
    opt.name => Covers(Named(NamesTo), files) /\ All(walk, Named(NamesTo), dupsByName)
SizesExact ==
    /\ opt.size \/ opt.checksum => Covers(Sized(SizesTo), sizes)
    /\ opt.size => All(walk, Sized(SizesTo), dupsBySize)
CapturesExact ==
    opt.regex => /\ Covers(Capturing(CapturesTo), captured)
                 /\ All(walk, Capturing(CapturesTo), dupsByRegex)

(* Lazy hashing: a path met is hashed unless it is the only one of its     *)
(* size, or the first of two and its turn comes next ...                   *)
Hashed ==
    \A i \in 1..HashesTo :
        LET f == walk[i] IN
        SizeOf[content[f]] # 0 =>
            /\ f \in sizes[SizeOf[content[f]]]
            /\ f \in unhashed \/ f \in hashes[content[f]]
Alone ==
    \A u \in unhashed :
        \/ sizes[SizeOf[content[u]]] = {u}
        \/ /\ pc = "backtrack" /\ u # file
           /\ SizeOf[content[u]] = size /\ sizes[size] = {u, file}

(* ... and the checksum that is then compared may be the first one's, but  *)
(* in that case there are only these two.                                  *)
Comparing ==
    /\ pc \in {"backtrack", "compare"} =>
         file \in sizes[size] /\ file \in hashes[content[file]] /\ file \notin unhashed
    /\ pc = "compare" =>
         \A c \in checksum :
            \/ c = content[file]
            \/ \E first \in Files : content[first] = c /\ sizes[size] = {first, file}

HashesFound ==
    \A i, j \in 1..HashesTo :
        LET c == content[walk[i]] IN
        walk[i] # walk[j] /\ content[walk[j]] = c /\ SizeOf[c] # 0 => walk[i] \in dupsByHash[c]

HashesExact == opt.checksum => Hashed /\ Alone /\ Comparing /\ HashesFound

Sound == NamesSound /\ SizesSound /\ CapturesSound /\ HashesSound
Exact == NamesExact /\ SizesExact /\ CapturesExact /\ HashesExact

IInv ==
    /\ TypeOK /\ Phases /\ Sound
    /\ Complete => Exact
    /\ exit = "0" => ~failed /\ PathsFound = {}

=============================================================================
