---------------------------- MODULE MCWatchlist ----------------------------
(***************************************************************************)
(* Small instances of Watchlist.                                           *)
(***************************************************************************)
EXTENDS Watchlist, TLC

CONSTANTS u1, s1, s2, c1, c2

OneUser == {u1}
TwoStocks == {s1, s2}
TwoClients == {c1, c2}
ClosedInside == {1, 3}
FirstDates == 1 .. 3

Symmetry == Permutations(TwoStocks) \cup Permutations(TwoClients)
=============================================================================
