---------------------------- MODULE MCSelection -----------------------------
(* Instances of Selection for TLC.                                         *)
EXTENDS Selection, TLC

CONSTANTS A, B, C

Ordinary(domain, sector) ==
    [gate |-> TRUE, star |-> FALSE, up |-> FALSE, evidence |-> TRUE, heat |-> "no",
     domain |-> domain, sector |-> sector, points |-> 0, flags |-> {}]

\* One stock of each sort that some rule tells apart; six of them make a top fifth of two.
SomeKinds ==
    {Ordinary("main", A), Ordinary("supplementary", A), Ordinary("external", B),
     [Ordinary("main", B) EXCEPT !.up = TRUE, !.flags = {"exploration", "unexhausted"}],
     [Ordinary("main", C) EXCEPT !.points = 3, !.flags = {"promotion", "elastic", "hot"}],
     [Ordinary("main", A) EXCEPT !.heat = "repaired"]}
=============================================================================
