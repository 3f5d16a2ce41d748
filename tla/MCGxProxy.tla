----------------------------- MODULE MCGxProxy -----------------------------
(* GxProxy with two client records and, by the configurations, two         *)
(* upstream objects.                                                       *)
EXTENDS GxProxy, TLC

CONSTANTS c1, c2

MCConns == {c1, c2}

Symmetry == Permutations(MCConns)
=============================================================================
