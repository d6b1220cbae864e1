------------------------- MODULE ServerSelection -------------------------
(* What the find_active_* programs promise their caller, with no threads   *)
(* and no queue: every host gets at most one verdict, and at most one      *)
(* decision is announced - a host whose verdict was "passed", or that no   *)
(* host passed, or that the run gave up because its time was over.         *)
EXTENDS Naturals

CONSTANT Hosts

VARIABLES
    verdict,    \* host -> "unknown" | "passed" | "failed"
    outcome,    \* "open" | "found" | "nobody" | "gaveup"
    answer      \* the hosts announced: empty, or the one that was chosen

vars == <<verdict, outcome, answer>>

TypeOK ==
    /\ verdict \in [Hosts -> {"unknown", "passed", "failed"}]
    /\ outcome \in {"open", "found", "nobody", "gaveup"}
    /\ answer \in SUBSET Hosts

Init ==
    /\ verdict = [h \in Hosts |-> "unknown"]
    /\ outcome = "open"
    /\ answer = {}

(* The check of one host ends.  It may end after the decision was taken    *)
(* but before the process has gone.                                        *)
Judge(h) ==
    /\ verdict[h] = "unknown"
    /\ \E v \in {"passed", "failed"} : verdict' = [verdict EXCEPT ![h] = v]
    /\ UNCHANGED <<outcome, answer>>

Announce(h) ==
    /\ outcome = "open"
    /\ verdict[h] = "passed"
    /\ outcome' = "found"
    /\ answer' = {h}
    /\ UNCHANGED verdict

AnnounceNobody ==
    /\ outcome = "open"
    /\ \A h \in Hosts : verdict[h] = "failed"
    /\ outcome' = "nobody"
    /\ UNCHANGED <<verdict, answer>>

GiveUp ==
    /\ outcome = "open"
    /\ outcome' = "gaveup"
    /\ UNCHANGED <<verdict, answer>>

Next ==
    \/ \E h \in Hosts : Judge(h) \/ Announce(h)
    \/ AnnounceNobody
    \/ GiveUp

Spec == Init /\ [][Next]_vars
==========================================================================
