------------------------- MODULE MCDuplicateFiles -------------------------
(* Model checking of DuplicateFiles: three files of every combination of   *)
(* basename and contents, met once each or, when the arguments overlap,    *)
(* one of them twice.                                                      *)
EXTENDS DuplicateFiles

MCCaptureOf == [n \in Names |-> IF n = "n3" THEN {} ELSE {"x"}]

MCSizeOf == [c \in Contents |-> IF c = "empty" THEN 0 ELSE 1]

(* The methods asked for, by the options given.                            *)
Asked(n, s, c, r) == [name |-> n, size |-> s, checksum |-> c, regex |-> r]

Methods ==
    {Asked(TRUE, FALSE, TRUE, FALSE), Asked(FALSE, TRUE, FALSE, FALSE),
     Asked(FALSE, FALSE, TRUE, TRUE), Asked(TRUE, TRUE, FALSE, TRUE),
     Asked(FALSE, TRUE, TRUE, FALSE)}

MCOptions ==
    {[name |-> m.name, size |-> m.size, checksum |-> m.checksum, regex |-> m.regex,
      noShortCircuit |-> n, quiet |-> q, python |-> p] :
        m \in Methods, n \in BOOLEAN, q \in {FALSE}, p \in {2}}
    \union
    {[name |-> m.name, size |-> m.size, checksum |-> m.checksum, regex |-> m.regex,
      noShortCircuit |-> FALSE, quiet |-> TRUE, python |-> p] :
        m \in {Asked(TRUE, FALSE, TRUE, FALSE), Asked(TRUE, TRUE, FALSE, TRUE)}, p \in {2, 3}}

MCWalks == {<<"f1", "f2", "f3">>, <<"f1", "f2", "f1", "f3">>}

=============================================================================
