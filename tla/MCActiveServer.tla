------------------------- MODULE MCActiveServer -------------------------
(* Model checking of ActiveServer: three hosts, the settings of every      *)
(* find_active program and set of options with one or two threads, with    *)
(* and without alarm, under both Pythons.  --quiet is tried with the       *)
(* socket check only, --regex with the web check only.                     *)
EXTENDS FindActive

MCConfs ==
    {c \in [protocol : {"http", "ping", "socket"}, regex : BOOLEAN,
            threads : {1, 2}, quiet : BOOLEAN, python : {2, 3}, alarm : BOOLEAN] :
        /\ c.regex => c.protocol = "http"
        /\ c.quiet => c.protocol = "socket"
        /\ \E p \in Programs, o \in SUBSET AllOptions :
             Accepted(p, o) /\ c = Settings(p, o, c.threads, c.python, c.alarm)}
==========================================================================
