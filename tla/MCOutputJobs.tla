---------------------------- MODULE MCOutputJobs ----------------------------
(***************************************************************************)
(* Small instances of OutputJobs.                                          *)
(***************************************************************************)
EXTENDS OutputJobs, TLC

CONSTANTS week, k1, c1

OneWeek == {week}
OneKey == {k1}
OneRequester == {c1}

OneDate == 1 .. 1
ThreeDates == 1 .. 3
FirstOpen == {1}
ClosedInside == {1, 3}
OneOfEach == {<<1, FALSE>>, <<3, TRUE>>}
FirstManual == {<<1, FALSE>>}
OneVersion == {1}
TwoVersions == {1, 2}
=============================================================================
