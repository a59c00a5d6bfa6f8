---------------------------- MODULE MCTraceBudget ----------------------------
(* The cap, the reserve and the clip of the code; texts at the ends of their *)
(* ranges, and prose that leaves room for no, one or two pending rows.       *)
EXTENDS TraceBudget, TLC

Symmetry == Permutations(Keys)
=============================================================================
