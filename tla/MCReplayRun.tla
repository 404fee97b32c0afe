---------------------------- MODULE MCReplayRun -----------------------------
(* Instances of ReplayRun for TLC.                                         *)
EXTENDS ReplayRun, TLC

CONSTANTS a, b, k1, k2, c1, c2

\* Two stocks of one sector, a week of two trading days.
TwoCodes == {a, b}
OneSector == [c \in TwoCodes |-> TwoCodes]
TwoDays == {1, 2}

Request(s, d, f) == [stage |-> s, day |-> d, fill |-> f]
DailyAndReview == {Request("daily", 1, FALSE), Request("review", 0, FALSE)}

TwoKeys == {k1, k2}
OneKey == {k1}
TwoClients == {c1, c2}
OneClient == {c1}

\* A bound: while a job is executed, one request at most is under way.  (Of a request the
\* execution reads nothing, and what a request reads of a run no execution changes.)
OneAtATime == worker.pc # "idle" => Cardinality({c \in Clients : request[c].pc # "idle"}) <= 1

Symmetry == Permutations(TwoClients) \cup Permutations(TwoCodes) \cup Permutations(TwoKeys)
=============================================================================
