------------------------------- MODULE MCAgents -------------------------------
(* Three names, so that a rename has a target while the starter stays.       *)
EXTENDS Agents, TLC

Symmetry == Permutations(Sessions) \union Permutations(Names \ {Seed})
===============================================================================
