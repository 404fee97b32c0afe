--------------------------- MODULE MCExperiments ---------------------------
(***************************************************************************)
(* Small instances of Experiments.                                         *)
(***************************************************************************)
EXTENDS Experiments, TLC

CONSTANTS e1, e2, a1, a2

TwoExperiments == {e1, e2}
TwoActors == {a1, a2}

Symmetry == Permutations(TwoActors)
=============================================================================
