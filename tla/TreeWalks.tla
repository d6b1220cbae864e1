------------------------------ MODULE TreeWalks ------------------------------
(* What the programs that walk directory trees have in common: others change *)
(* the files meanwhile, and a directory stands for all that is below it.    *)
EXTENDS Naturals, FiniteSets, FilePrograms

CONSTANTS
    Dirs,           \* the paths of directories
    MaxChanges      \* bound: changes by others

(* "-" is standard input, "missing" a path where there never is anything.   *)
ASSUME PathsAssumption ==
    /\ IsFiniteSet(Files) /\ IsFiniteSet(Dirs)
    /\ Files \intersect Dirs = {}
    /\ {"-", "missing"} \intersect (Files \union Dirs) = {}
ASSUME BoundAssumption == MaxChanges \in Nat

VARIABLES
    run,            \* how the program was started
    disk,           \* the files there are
    changes,        \* how often others changed them
    todo            \* what is left to visit of the argument at hand

(* The directories below d, d among them, when subdirs has the directories  *)
(* in each that count: what is in every set that has d, and with a          *)
(* directory those in it.                                                   *)
Closed(S, subdirs) == \A e \in S : subdirs[e] \subseteq S
Below(d, subdirs) ==
    {s \in Dirs : \A S \in SUBSET Dirs : (d \in S /\ Closed(S, subdirs)) => s \in S}
==============================================================================
