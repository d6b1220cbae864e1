---------------------------- MODULE MCFileSequence ----------------------------
(* Model checking of FileSequence: a directory cd with d below it; in cd    *)
(* the numbers 1 to 4 of one sequence, with a tenth that is not padded like *)
(* the others, and one file that is not numbered; in d two suffixes, and a  *)
(* prefix with a bracket in it; and in d something called like the third    *)
(* part that is not numbered.  Now and then d cannot be listed, or the regex *)
(* captures no number from the cover.                                       *)
EXTENDS FileSequence

F(d, p, n, w, s) == [dir |-> d, prefix |-> p, number |-> n, width |-> w, suffix |-> s]

MCSubdirs == [d \in {"cd", "d"} |-> IF d = "cd" THEN {"d"} ELSE {}]
MCName ==
    [first |-> F("cd", "track", 1, 1, "mp3"), third |-> F("cd", "track", 3, 1, "mp3"),
     fourth |-> F("cd", "track", 4, 1, "mp3"), tenth |-> F("cd", "track", 10, 2, "mp3"),
     cover |-> F("cd", "cover", 0, 0, "jpg"),
     second |-> F("d", "part", 2, 2, "mp3"), ogg |-> F("d", "part", 2, 2, "ogg"),
     fifth |-> F("d", "part", 5, 2, "mp3"),
     live1 |-> F("d", "[live] ", 1, 1, "mp3"), live2 |-> F("d", "[live] ", 2, 1, "mp3")]

MCLookalikes == {[dir |-> "d", prefix |-> "part", number |-> 3, width |-> 2]}

MCListings ==
    {a \union b : a \in {{"first", "third", "cover"}, {"third", "fourth"}, {"first", "tenth"}, {"fourth"}},
                  b \in {{"second", "fifth"}, {"ogg", "fifth"}, {"live1", "live2"}}}

MCSearches ==
    [paths : {<<"cd">>, <<"d", "cd">>, <<"third", "missing">>, <<"fourth", "third">>},
     skipped : {{}, {"d"}, {"third", "ogg"}, {"cd"}},
     locked : {{}}, odd : {{}}, fixed : BOOLEAN, stdin : {FALSE}, ends : {FALSE}]
    \union
    [paths : {<<"cd">>, <<"d", "cd">>}, skipped : {{}, {"d"}}, locked : {{}}, odd : {{}},
     fixed : {FALSE}, stdin : {TRUE}, ends : BOOLEAN]
    \union
    [paths : {<<"cd">>, <<"fifth", "cd">>}, skipped : {{}}, locked : {{}, {"d"}}, odd : {{}, {"cover"}},
     fixed : BOOLEAN, stdin : {FALSE}, ends : {FALSE}]
===============================================================================
