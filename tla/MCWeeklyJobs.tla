---------------------------- MODULE MCWeeklyJobs ----------------------------
(***************************************************************************)
(* Small instances of WeeklyJobs.                                          *)
(***************************************************************************)
EXTENDS WeeklyJobs, TLC

CONSTANTS w1, w2, k1, k2, c1, c2, auto1

OneWeek == {w1}
TwoWeeks == {w1, w2}
Requesters == {c1, c2}
OneRequester == {c1}
FewKeys == {k1, k2, auto1}
SameKey == {k1, auto1}
OneAuto == {auto1}

Symmetry == Permutations(Requesters)
=============================================================================
