---------------------------- MODULE FilePrograms ----------------------------
(* What the programs that go through files have in common: they take one   *)
(* thing after the other from a list, and end with an exit code.           *)
CONSTANT Files      \* the paths of files

VARIABLES
    pc,             \* what the program does next
    at,             \* how far it is in its list
    exit            \* "running" or the exit code

Goto(label) == pc' = label /\ UNCHANGED exit
End(code) == pc' = "done" /\ exit' = code
=============================================================================
