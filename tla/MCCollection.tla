---------------------------- MODULE MCCollection ----------------------------
(* Instances of Collection for TLC.                                        *)
EXTENDS Collection, TLC

CONSTANTS p1, p2, d1, d2

TwoOperators == {p1, p2}
TwoDates == {d1, d2}

Symmetry == Permutations(TwoOperators)
=============================================================================
